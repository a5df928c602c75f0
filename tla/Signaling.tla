------------------------------ MODULE Signaling ------------------------------
(***************************************************************************)
(* How two nodes come to a WebRTC connection: ConnectPeer sends an offer,  *)
(* the other node's signal loop answers it, both sides' pion connections   *)
(* then find each other or fail. Both nodes may dial at once, several      *)
(* goroutines of one node may dial, and pion's callbacks run whenever they *)
(* like.                                                                   *)
(*                                                                         *)
(* internal/messenger/{signals,peers}.go, internal/webrtc/webrtc.go        *)
(*                                                                         *)
(* The maps of a Manager are kept for one remote peer: entries of          *)
(* different peers never meet. A peer connection is a number; its session  *)
(* description is the connection itself. Signals travel by websocket or by *)
(* HTTP and may overtake each other.                                       *)
(***************************************************************************)
EXTENDS Integers, FiniteSets

CONSTANTS
    Node,        \* two endpoints; their IDs are ordered like the numbers
    Caller,      \* goroutines of a node that may call ConnectPeer at once
    MaxConns,    \* bound: peer connections ever created
    MaxFaults    \* bound: lost and doubled signals, lost links, DisconnectPeer

ASSUME SignalingAssumption ==
    /\ Node \subseteq Nat /\ IsFiniteSet(Node) /\ Cardinality(Node) = 2
    /\ MaxConns \in Nat \ {0}
    /\ MaxFaults \in Nat

Conn == 1..MaxConns

VARIABLES
    \* a node's memory
    conn,        \* connections[remote], 0: no entry
    chan,        \* dataChans[remote]: the connection the channel belongs to
    neg,         \* the negotiation lock: "free", "dial" or "hand"
    dial,        \* where a call of ConnectPeer is; peersConnecting holds the
                 \* remote while one is between "dialing" and "send"
    mine,        \* the connection that call has created
    hand,        \* where the signal loop is with an offer
    sig,         \* the offer it handles
    made,        \* the connection it has created for it
    \* the peer connections
    owner,       \* the node that created it
    role,        \* "offer" or "answer"
    st,          \* "none", "new", "live" (local description set), "up" (data
                 \* channel open), "closed"
    report,      \* the worst that pion has reported of it: "none",
                 \* "disconnected", from which it may recover, or "failed"
    remote,      \* the connection whose description it was given, 0: none
    events,      \* callbacks on their way: a data channel or a state change
    \* the way between
    net,         \* signals sent and not yet handled
    faults,      \* how many failures there were
    clean        \* "yes" until something is lost, doubled or fails, or a dial
                 \* replaces an entry that was not there when it looked

nodeVars == <<neg, dial, mine, hand, sig, made>>
pionVars == <<owner, role, st, report, remote, events>>
vars == <<conn, chan, nodeVars, pionVars, net, faults, clean>>

Other(n) == CHOOSE m \in Node : m # n

Signal == [to : Node, type : {"offer", "answer"}, desc : Conn, re : 0..MaxConns, copy : 1..2]

TypeOK ==
    /\ conn \in [Node -> 0..MaxConns] /\ chan \in [Node -> 0..MaxConns]
    /\ neg \in [Node -> {"free", "dial", "hand"}]
    /\ dial \in [Node \X Caller -> {"idle", "checked", "dialing", "removed", "made", "send"}]
    /\ mine \in [Node \X Caller -> 0..MaxConns]
    /\ hand \in [Node -> {"idle", "offer", "removed", "made"}]
    /\ sig \in [Node -> Signal \cup {[desc |-> 0]}] /\ made \in [Node -> 0..MaxConns]
    /\ owner \in [Conn -> Node] /\ role \in [Conn -> {"offer", "answer"}]
    /\ st \in [Conn -> {"none", "new", "live", "up", "closed"}]
    /\ report \in [Conn -> {"none", "disconnected", "failed"}]
    /\ remote \in [Conn -> 0..MaxConns]
    /\ events \subseteq {"channel", "state"} \X Conn
    /\ net \subseteq Signal
    /\ faults \in 0..MaxFaults /\ clean \in {"yes", "no"}
    /\ \A n \in Node :
         /\ neg[n] = "hand" <=> hand[n] \in {"removed", "made"}
         /\ neg[n] = "dial" <=> \E c \in Caller : dial[<<n, c>>] \in {"removed", "made"}

Init ==
    /\ conn = [n \in Node |-> 0] /\ chan = [n \in Node |-> 0]
    /\ neg = [n \in Node |-> "free"]
    /\ dial = [d \in Node \X Caller |-> "idle"] /\ mine = [d \in Node \X Caller |-> 0]
    /\ hand = [n \in Node |-> "idle"] /\ sig = [n \in Node |-> [desc |-> 0]]
    /\ made = [n \in Node |-> 0]
    /\ owner \in [Conn -> {CHOOSE n \in Node : TRUE}]
    /\ role = [i \in Conn |-> "offer"] /\ st = [i \in Conn |-> "none"]
    /\ report = [i \in Conn |-> "none"]
    /\ remote = [i \in Conn |-> 0] /\ events = {}
    /\ net = {} /\ faults = 0 /\ clean = "yes"

-----------------------------------------------------------------------------
(* The Manager *)

(* HasConnection *)
HasConnection(n) == conn[n] # 0

(* IsConnected: the data channel's own state. It stays open while its      *)
(* connection is disconnected.                                             *)
IsConnected(n) == chan[n] # 0 /\ st[chan[n]] = "up"

(* The remote is in peersConnecting. *)
Dialing(n) == \E c \in Caller : dial[<<n, c>>] \in {"dialing", "removed", "made", "send"}

(* Close, and the first half of NewPeerConnection: forget the entry, then  *)
(* close what it pointed at. pion reports the closed state later.          *)
Close(n) ==
    /\ conn' = [conn EXCEPT ![n] = 0]
    /\ chan' = [chan EXCEPT ![n] = 0]
    /\ IF conn[n] = 0
       THEN UNCHANGED <<st, events>>
       ELSE /\ st' = [st EXCEPT ![conn[n]] = "closed"]
            /\ events' = events \cup {<<"state", conn[n]>>}

Unused == {i \in Conn : st[i] = "none"}

Fresh == CHOOSE i \in Unused : \A j \in Unused : i <= j

(* The second half of NewPeerConnection: pion makes a connection and it    *)
(* becomes the entry. The guard of the bound is where pion would fail.     *)
Enter(n, r) ==
    /\ owner' = [owner EXCEPT ![Fresh] = n]
    /\ role' = [role EXCEPT ![Fresh] = r]
    /\ st' = [st EXCEPT ![Fresh] = "new"]
    /\ conn' = [conn EXCEPT ![n] = Fresh]
    /\ UNCHANGED <<chan, report, remote, events>>

(* Signals go by websocket, by HTTP when that fails, and into a queue of   *)
(* 100 that drops what does not fit. They are handed over once, or not at  *)
(* all, or twice when the websocket call timed out after it was relayed.   *)
Send(n, type, desc, re) ==
    \E copies \in {{1}, {}, {1, 2}} :
        /\ copies # {1} => faults < MaxFaults
        /\ faults' = IF copies = {1} THEN faults ELSE faults + 1
        /\ net' = net \cup {[to |-> Other(n), type |-> type, desc |-> desc, re |-> re, copy |-> k]
                            : k \in copies}

-----------------------------------------------------------------------------
(* ConnectPeer *)

(* No entry for the remote: go on. *)
ConnectPeer(n, c) ==
    /\ dial[<<n, c>>] = "idle" /\ ~HasConnection(n) /\ Unused # {}
    /\ dial' = [dial EXCEPT ![<<n, c>>] = "checked"]
    /\ UNCHANGED <<conn, chan, neg, mine, hand, sig, made, pionVars, net, faults, clean>>

(* Another goroutine is dialing: leave it to that one. *)
MarkDialing(n, c) ==
    /\ dial[<<n, c>>] = "checked"
    /\ dial' = [dial EXCEPT ![<<n, c>>] = IF Dialing(n) THEN "idle" ELSE "dialing"]
    /\ UNCHANGED <<conn, chan, neg, mine, hand, sig, made, pionVars, net, faults, clean>>

(* (A variant of CreateOfferClose: CreateOffer does not take the lock.)    *)
CreateOfferCloseUnlocked(n, c) ==
    /\ dial[<<n, c>>] = "dialing"
    /\ Close(n)
    /\ dial' = [dial EXCEPT ![<<n, c>>] = "removed"]
    /\ clean' = IF HasConnection(n) THEN "no" ELSE clean
    /\ UNCHANGED <<neg, mine, hand, sig, made, owner, role, report, remote, net, faults>>

(* CreateOffer: the lock, and the old entry goes. *)
CreateOfferClose(n, c) ==
    /\ dial[<<n, c>>] = "dialing" /\ neg[n] = "free"
    /\ neg' = [neg EXCEPT ![n] = "dial"]
    /\ Close(n)
    /\ dial' = [dial EXCEPT ![<<n, c>>] = "removed"]
    /\ clean' = IF HasConnection(n) THEN "no" ELSE clean
    /\ UNCHANGED <<mine, hand, sig, made, owner, role, report, remote, net, faults>>

(* CreateOffer: the new connection, or pion's error. *)
CreateOfferEnter(n, c) ==
    /\ dial[<<n, c>>] = "removed"
    /\ \/ /\ Unused # {}
          /\ Enter(n, "offer")
          /\ mine' = [mine EXCEPT ![<<n, c>>] = Fresh]
          /\ dial' = [dial EXCEPT ![<<n, c>>] = "made"]
          /\ UNCHANGED <<neg, clean>>
       \/ /\ Unused = {}
          /\ dial' = [dial EXCEPT ![<<n, c>>] = "idle"]
          /\ neg' = [neg EXCEPT ![n] = "free"]
          /\ clean' = "no"
          /\ UNCHANGED <<conn, chan, mine, pionVars>>
    /\ UNCHANGED <<hand, sig, made, net, faults>>

(* CreateOffer: the data channel and the local description, or an error    *)
(* when the connection was closed in the meantime; the lock is released.   *)
CreateOfferFinish(n, c) ==
    LET i == mine[<<n, c>>] IN
    /\ dial[<<n, c>>] = "made"
    /\ neg' = [neg EXCEPT ![n] = "free"]
    /\ \/ /\ st[i] = "closed"
          /\ Close(n)
          /\ dial' = [dial EXCEPT ![<<n, c>>] = "idle"]
          /\ mine' = [mine EXCEPT ![<<n, c>>] = 0]
       \/ /\ st[i] # "closed"
          /\ chan' = IF conn[n] = i THEN [chan EXCEPT ![n] = i] ELSE chan
          /\ st' = [st EXCEPT ![i] = "live"]
          /\ dial' = [dial EXCEPT ![<<n, c>>] = "send"]
          /\ UNCHANGED <<conn, mine, events>>
    /\ UNCHANGED <<hand, sig, made, owner, role, report, remote, net, faults, clean>>

(* The offer is sent, or cannot be sent; the entry stays in either case.   *)
SendOffer(n, c) ==
    /\ dial[<<n, c>>] = "send"
    /\ Send(n, "offer", mine[<<n, c>>], 0)
    /\ clean' = IF faults' = faults THEN clean ELSE "no"
    /\ dial' = [dial EXCEPT ![<<n, c>>] = "idle"]
    /\ mine' = [mine EXCEPT ![<<n, c>>] = 0]
    /\ UNCHANGED <<conn, chan, neg, hand, sig, made, pionVars>>

(* DisconnectPeer *)
DisconnectPeer(n) ==
    /\ HasConnection(n) /\ faults < MaxFaults
    /\ Close(n)
    /\ faults' = faults + 1 /\ clean' = "no"
    /\ UNCHANGED <<nodeVars, owner, role, report, remote, net>>

-----------------------------------------------------------------------------
(* The signal loop *)

(* (A variant of Colliding: both sides drop the other's offer.)            *)
CollidingBothDrop(n) == Dialing(n) \/ HasConnection(n)

(* Both sides dial: the offer of the node with the lower ID is kept.       *)
Colliding(n) == (Dialing(n) \/ HasConnection(n)) /\ n < Other(n)

(* handleSignal with an offer: ignore it, or go on to HandleOffer. *)
TakeOffer(n) ==
    \E s \in net :
        /\ s.to = n /\ s.type = "offer" /\ hand[n] = "idle"
        /\ net' = net \ {s}
        /\ IF IsConnected(n) \/ Colliding(n)
           THEN UNCHANGED <<hand, sig>>
           ELSE /\ hand' = [hand EXCEPT ![n] = "offer"]
                /\ sig' = [sig EXCEPT ![n] = s]
        /\ UNCHANGED <<conn, chan, neg, dial, mine, made, pionVars, faults, clean>>

(* HandleOffer: the lock, and the old entry goes. *)
HandleOfferClose(n) ==
    /\ hand[n] = "offer" /\ neg[n] = "free"
    /\ neg' = [neg EXCEPT ![n] = "hand"]
    /\ Close(n)
    /\ hand' = [hand EXCEPT ![n] = "removed"]
    /\ UNCHANGED <<dial, mine, sig, made, owner, role, report, remote, net, faults, clean>>

(* HandleOffer: the new connection, or pion's error. *)
HandleOfferEnter(n) ==
    /\ hand[n] = "removed"
    /\ \/ /\ Unused # {}
          /\ Enter(n, "answer")
          /\ hand' = [hand EXCEPT ![n] = "made"]
          /\ made' = [made EXCEPT ![n] = Fresh]
          /\ UNCHANGED <<neg, sig, clean>>
       \/ /\ Unused = {}
          /\ hand' = [hand EXCEPT ![n] = "idle"]
          /\ sig' = [sig EXCEPT ![n] = [desc |-> 0]]
          /\ neg' = [neg EXCEPT ![n] = "free"]
          /\ clean' = "no"
          /\ UNCHANGED <<conn, chan, made, pionVars>>
    /\ UNCHANGED <<dial, mine, net, faults>>

(* HandleOffer: both descriptions, the lock is released, the answer sent;  *)
(* or an error, when the connection was closed in the meantime.            *)
HandleOfferAnswer(n) ==
    LET i == made[n] IN
    /\ hand[n] = "made"
    /\ neg' = [neg EXCEPT ![n] = "free"]
    /\ hand' = [hand EXCEPT ![n] = "idle"]
    /\ sig' = [sig EXCEPT ![n] = [desc |-> 0]]
    /\ made' = [made EXCEPT ![n] = 0]
    /\ \/ /\ st[i] = "closed"
          /\ Close(n)
          /\ UNCHANGED <<remote, net, faults, clean>>
       \/ /\ st[i] # "closed"
          /\ st' = [st EXCEPT ![i] = "live"]
          /\ remote' = [remote EXCEPT ![i] = sig[n].desc]
          /\ Send(n, "answer", i, sig[n].desc)
          /\ clean' = IF faults' = faults THEN clean ELSE "no"
          /\ UNCHANGED <<conn, chan, events>>
    /\ UNCHANGED <<dial, mine, owner, role, report>>

(* handleSignal with an answer: it goes to whatever connection the entry   *)
(* points at; pion takes it when that one waits for an answer, and does    *)
(* not see which offer it answers.                                         *)
TakeAnswer(n) ==
    \E s \in net :
        /\ s.to = n /\ s.type = "answer" /\ hand[n] = "idle"
        /\ net' = net \ {s}
        /\ remote' = IF /\ HasConnection(n) /\ st[conn[n]] = "live"
                        /\ role[conn[n]] = "offer" /\ remote[conn[n]] = 0
                     THEN [remote EXCEPT ![conn[n]] = s.desc]
                     ELSE remote
        /\ UNCHANGED <<conn, chan, nodeVars, owner, role, st, report, events, faults, clean>>

-----------------------------------------------------------------------------
(* pion *)

Alive(i) == st[i] \in {"live", "up"} /\ report[i] # "failed"

(* Both ends have each other's description. *)
Matched(i) == remote[i] # 0 /\ remote[remote[i]] = i /\ Alive(remote[i])

(* The ends find each other and the data channel opens, also after they    *)
(* have lost each other for a while. The answering side learns of it by a  *)
(* callback.                                                               *)
Open(i) ==
    /\ st[i] = "live" /\ Alive(i) /\ Matched(i)
    /\ st' = [st EXCEPT ![i] = "up"]
    /\ events' = IF role[i] = "answer" THEN events \cup {<<"channel", i>>} ELSE events
    /\ UNCHANGED <<conn, chan, nodeVars, owner, role, report, remote, net, faults, clean>>

Report(i, state) ==
    /\ report' = [report EXCEPT ![i] = state]
    /\ events' = events \cup {<<"state", i>>}
    /\ clean' = "no"
    /\ UNCHANGED <<conn, chan, nodeVars, owner, role, st, remote, net>>

(* An end whose other end is gone, or was never meant for it, fails. An    *)
(* offer without an answer never does: its ICE agent has not started.      *)
NoCounterpart(i) ==
    /\ Alive(i) /\ remote[i] # 0 /\ ~Matched(i)
    /\ Report(i, "failed")
    /\ UNCHANGED faults

(* One end loses the other. It may find it again, of which nothing follows:*)
(* the channel is the same and no callback is interested.                  *)
Disconnect(i) ==
    /\ Alive(i) /\ remote[i] # 0 /\ faults < MaxFaults
    /\ Report(i, "disconnected")
    /\ faults' = faults + 1

(* Or it does not find it for too long. *)
GiveUp(i) ==
    /\ Alive(i) /\ report[i] = "disconnected"
    /\ Report(i, "failed")
    /\ UNCHANGED faults

(* (A variant of OnDataChannel: the channel is stored unchecked.)          *)
OnDataChannelUnchecked(i) ==
    /\ <<"channel", i>> \in events
    /\ events' = events \ {<<"channel", i>>}
    /\ chan' = [chan EXCEPT ![owner[i]] = i]
    /\ UNCHANGED <<conn, nodeVars, owner, role, st, report, remote, net, faults, clean>>

(* The callback stores the channel of the current connection only. *)
OnDataChannel(i) ==
    /\ <<"channel", i>> \in events
    /\ events' = events \ {<<"channel", i>>}
    /\ chan' = IF conn[owner[i]] = i THEN [chan EXCEPT ![owner[i]] = i] ELSE chan
    /\ UNCHANGED <<conn, nodeVars, owner, role, st, report, remote, net, faults, clean>>

(* (A variant of OnConnectionStateChange: the entries go only when the     *)
(* data channel had opened.)                                               *)
OnConnectionStateChangeOpenOnly(i) ==
    LET n == owner[i] IN
    /\ <<"state", i>> \in events
    /\ events' = events \ {<<"state", i>>}
    /\ conn' = IF conn[n] = i /\ chan[n] = i THEN [conn EXCEPT ![n] = 0] ELSE conn
    /\ chan' = IF conn[n] = i /\ chan[n] = i THEN [chan EXCEPT ![n] = 0] ELSE chan
    /\ UNCHANGED <<nodeVars, owner, role, st, report, remote, net, faults, clean>>

(* The callback for a disconnected, failed or closed connection drops the  *)
(* entries when they are still this connection's. The connection itself is *)
(* not closed: pion goes on with it, and what it receives is delivered.    *)
OnConnectionStateChange(i) ==
    LET n == owner[i] IN
    /\ <<"state", i>> \in events
    /\ events' = events \ {<<"state", i>>}
    /\ conn' = IF conn[n] = i THEN [conn EXCEPT ![n] = 0] ELSE conn
    /\ chan' = IF conn[n] = i THEN [chan EXCEPT ![n] = 0] ELSE chan
    /\ UNCHANGED <<nodeVars, owner, role, st, report, remote, net, faults, clean>>

-----------------------------------------------------------------------------
Dial(n, c) ==
    \/ MarkDialing(n, c) \/ CreateOfferClose(n, c) \/ CreateOfferEnter(n, c)
    \/ CreateOfferFinish(n, c) \/ SendOffer(n, c)

SignalLoop(n) ==
    \/ TakeOffer(n) \/ HandleOfferClose(n) \/ HandleOfferEnter(n)
    \/ HandleOfferAnswer(n) \/ TakeAnswer(n)

Pion(i) == Open(i) \/ NoCounterpart(i) \/ OnDataChannel(i) \/ OnConnectionStateChange(i)

Next ==
    \/ \E n \in Node : \/ \E c \in Caller : ConnectPeer(n, c) \/ Dial(n, c)
                       \/ DisconnectPeer(n) \/ SignalLoop(n)
    \/ \E i \in Conn : Pion(i) \/ Disconnect(i) \/ GiveUp(i)

Spec == Init /\ [][Next]_vars

(* The goroutines run and pion's timers fire. Nobody need dial, and        *)
(* nothing need break.                                                     *)
FairSpec ==
    /\ Spec
    /\ \A n \in Node : /\ WF_vars(SignalLoop(n))
                       /\ \A c \in Caller : WF_vars(Dial(n, c))
    /\ WF_vars(\E i \in Conn : Pion(i))

-----------------------------------------------------------------------------
(* Properties *)

(* dataChans never holds a channel of another connection than the one in   *)
(* connections, whatever callback comes late: what IsConnected says and    *)
(* what is sent is about the current connection.                           *)
ChannelIsCurrent == \A n \in Node : chan[n] \in {0, conn[n]}

(* The negotiation lock keeps CreateOffer and HandleOffer from registering *)
(* over each other: a connection that has been made and not been closed is *)
(* the current one of its node, so that Close reaches it, unless pion has  *)
(* reported it disconnected or failed. (Of that the callback forgets it    *)
(* without closing it; if it recovers it works on, out of Close's reach.)  *)
NoStrayConnection ==
    \A i \in Conn :
        st[i] \in {"new", "live", "up"} /\ report[i] = "none" => conn[owner[i]] = i

(* Something is still to happen that will end the attempt of conn[n]: its  *)
(* ends are matched or will fail, its offer or an answer is on the way, or *)
(* another offer is and will replace it.                                   *)
InProgress(n) ==
    \/ remote[conn[n]] # 0 \/ role[conn[n]] = "answer"
    \/ Dialing(n) \/ hand[n] # "idle"
    \/ sig[Other(n)].desc = conn[n]
    \/ \E s \in net : \/ s.type = "offer" /\ s.desc = conn[n]
                      \/ s.type = "answer" /\ s.to = n
    \/ /\ n > Other(n)
       /\ Dialing(Other(n)) \/ \E s \in net : s.type = "offer" /\ s.to = n

(* An entry in connections is an attempt that goes on, or a connection, as *)
(* the comment of HasConnection says. ConnectPeer and handleSignal rely on *)
(* it: an entry keeps the node from dialing and, at the lower ID, from     *)
(* answering.                                                              *)
EntryIsAnAttempt ==
    \A n \in Node : HasConnection(n) => InProgress(n)

(* Offers that cross never leave a node waiting: without failures, and     *)
(* unless a dial replaces an entry made since it looked, every entry is an *)
(* attempt that goes on.                                                   *)
GlareResolves == clean = "yes" => EntryIsAnAttempt

(* A connection that has the other side's description opens or is          *)
(* forgotten, so that the node can dial again: no answering side waits for *)
(* ever, whatever is lost, doubled or broken.                              *)
OpensOrGoes ==
    \A n \in Node, i \in Conn :
        (conn[n] = i /\ remote[i] # 0) ~> (conn[n] # i \/ IsConnected(n))
=============================================================================
