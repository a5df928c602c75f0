------------------------------ MODULE WSClient ------------------------------
(***************************************************************************)
(* The websocket to Muninn: calls with an ID, a timeout and a waiter each, *)
(* one reader per socket, sockets that die and are replaced, and a client  *)
(* that is closed for good. A call that fails here is repeated over HTTP   *)
(* by the signaling code.                                                  *)
(*                                                                         *)
(* internal/muninn/rtc.go, rtcReconnectLoop in internal/messenger/         *)
(* signals.go                                                              *)
(*                                                                         *)
(* conn and connected always change together, so that cur stands for both. *)
(* Muninn is the server on the other end: it handles a request or refuses  *)
(* it, and answers on the socket the request came by.                      *)
(***************************************************************************)
EXTENDS Integers

CONSTANTS
    Call,        \* calls of sendRequest
    Connector,   \* goroutines that call Connect: the reconnect loop and
                 \* whoever dials a peer
    MaxSocks,    \* bound: sockets ever opened
    MaxFaults    \* bound: failed dials and sockets that die

ASSUME WSClientAssumption ==
    /\ MaxSocks \in Nat \ {0}
    /\ MaxFaults \in Nat

Sock == 1..MaxSocks

VARIABLES
    cur,         \* conn, 0: not connected
    sock,        \* "none", "open", "dead" (the other end is gone) or "closed"
    reader,      \* the socket's readLoop: "none", "reading", "ending", "gone"
    conn,        \* where a call of Connect is; it holds connectMu unless
                 \* "idle"
    held,        \* the socket it has dialed, 0: none
    closing,     \* Close: "no", "cancelled" (the context), "done"
    state,       \* where a call is
    via,         \* the socket it took, 0: none
    pending,     \* calls that wait for a response
    box,         \* the response in the call's channel: "none", "ok", "error"
    reqs,        \* requests on their way: (call, socket)
    resps,       \* responses on their way: (call, socket, result)
    relayed,     \* how often Muninn has passed the call's signal on
    faults

sockVars == <<cur, sock, reader, conn, held, closing>>
callVars == <<state, via, pending, box>>
vars == <<sockVars, callVars, reqs, resps, relayed, faults>>

Active == {"writing", "waiting"}

TypeOK ==
    /\ cur \in 0..MaxSocks
    /\ sock \in [Sock -> {"none", "open", "dead", "closed"}]
    /\ reader \in [Sock -> {"none", "reading", "ending", "gone"}]
    /\ conn \in [Connector -> {"idle", "dial", "install"}]
    /\ held \in [Connector -> 0..MaxSocks]
    /\ closing \in {"no", "cancelled", "done"}
    /\ state \in [Call -> {"idle", "ok", "failed"} \cup Active]
    /\ via \in [Call -> 0..MaxSocks]
    /\ pending \subseteq {c \in Call : state[c] \in Active}
    /\ box \in [Call -> {"none", "ok", "error"}]
    /\ reqs \subseteq Call \X Sock
    /\ resps \subseteq Call \X Sock \X {"ok", "error"}
    /\ relayed \in [Call -> 0..1]
    /\ faults \in 0..MaxFaults

Init ==
    /\ cur = 0 /\ sock = [k \in Sock |-> "none"] /\ reader = [k \in Sock |-> "none"]
    /\ conn = [p \in Connector |-> "idle"] /\ held = [p \in Connector |-> 0]
    /\ closing = "no"
    /\ state = [c \in Call |-> "idle"] /\ via = [c \in Call |-> 0]
    /\ pending = {} /\ box = [c \in Call |-> "none"]
    /\ reqs = {} /\ resps = {} /\ relayed = [c \in Call |-> 0]
    /\ faults = 0

-----------------------------------------------------------------------------
(* Connect *)

Unused == {k \in Sock : sock[k] = "none"}

(* (A variant of Connect: connectMu is not taken.)                         *)
ConnectUnlocked(p) ==
    /\ conn[p] = "idle"
    /\ closing = "no" /\ cur = 0 /\ Unused # {}
    /\ conn' = [conn EXCEPT ![p] = "dial"]
    /\ UNCHANGED <<cur, sock, reader, held, closing, callVars, reqs, resps, relayed, faults>>

(* connectMu; return when the client is closed or has a connection. *)
Connect(p) ==
    /\ \A q \in Connector : conn[q] = "idle"
    /\ closing = "no" /\ cur = 0 /\ Unused # {}
    /\ conn' = [conn EXCEPT ![p] = "dial"]
    /\ UNCHANGED <<cur, sock, reader, held, closing, callVars, reqs, resps, relayed, faults>>

(* The dial fails, or gives a socket. *)
DialContext(p) ==
    /\ conn[p] = "dial"
    /\ \/ /\ Unused # {}
          /\ LET k == CHOOSE j \in Unused : \A i \in Unused : j <= i
             IN /\ sock' = [sock EXCEPT ![k] = "open"]
                /\ held' = [held EXCEPT ![p] = k]
          /\ conn' = [conn EXCEPT ![p] = "install"]
          /\ UNCHANGED faults
       \/ /\ faults < MaxFaults \/ Unused = {}
          /\ faults' = IF Unused = {} THEN faults ELSE faults + 1
          /\ conn' = [conn EXCEPT ![p] = "idle"]
          /\ UNCHANGED <<sock, held>>
    /\ UNCHANGED <<cur, reader, closing, callVars, reqs, resps, relayed>>

(* Closed since: drop the socket. Otherwise it is the connection and gets  *)
(* its reader.                                                             *)
Install(p) ==
    LET k == held[p] IN
    /\ conn[p] = "install"
    /\ conn' = [conn EXCEPT ![p] = "idle"]
    /\ held' = [held EXCEPT ![p] = 0]
    /\ IF closing # "no"
       THEN /\ sock' = [sock EXCEPT ![k] = "closed"]
            /\ UNCHANGED <<cur, reader>>
       ELSE /\ cur' = k
            /\ reader' = [reader EXCEPT ![k] = "reading"]
            /\ UNCHANGED sock
    /\ UNCHANGED <<closing, callVars, reqs, resps, relayed, faults>>

(* Close: cancel the context. *)
Cancel ==
    /\ closing = "no"
    /\ closing' = "cancelled"
    /\ UNCHANGED <<cur, sock, reader, conn, held, callVars, reqs, resps, relayed, faults>>

(* Close: forget the connection and close it. *)
Close ==
    /\ closing = "cancelled"
    /\ closing' = "done"
    /\ cur' = 0
    /\ sock' = IF cur = 0 THEN sock ELSE [sock EXCEPT ![cur] = "closed"]
    /\ UNCHANGED <<reader, conn, held, callVars, reqs, resps, relayed, faults>>

-----------------------------------------------------------------------------
(* readLoop *)

(* (A variant of HandleMessage: the answer goes to any call that waits.)   *)
HandleMessageAnyCall(k) ==
    \E r \in resps :
        /\ r[2] = k /\ reader[k] = "reading" /\ sock[k] = "open"
        /\ resps' = resps \ {r}
        /\ IF pending # {}
           THEN \E c \in pending : /\ pending' = pending \ {c}
                                   /\ box' = [box EXCEPT ![c] = r[3]]
           ELSE UNCHANGED <<pending, box>>
        /\ UNCHANGED <<sockVars, state, via, reqs, relayed, faults>>

(* A response goes to the call of its ID, if that one still waits. *)
HandleMessage(k) ==
    \E r \in resps :
        /\ r[2] = k /\ reader[k] = "reading" /\ sock[k] = "open"
        /\ resps' = resps \ {r}
        /\ pending' = pending \ {r[1]}
        /\ box' = IF r[1] \in pending THEN [box EXCEPT ![r[1]] = r[3]] ELSE box
        /\ UNCHANGED <<sockVars, state, via, reqs, relayed, faults>>

(* A read error: close the socket. *)
ReadError(k) ==
    /\ reader[k] = "reading" /\ sock[k] \in {"dead", "closed"}
    /\ reader' = [reader EXCEPT ![k] = "ending"]
    /\ sock' = [sock EXCEPT ![k] = "closed"]
    /\ UNCHANGED <<cur, conn, held, closing, callVars, reqs, resps, relayed, faults>>

(* (A variant of Disconnected: the connection is kept.)                    *)
DisconnectedKeeps(k) ==
    /\ reader[k] = "ending"
    /\ reader' = [reader EXCEPT ![k] = "gone"]
    /\ UNCHANGED <<cur, sock, conn, held, closing, callVars, reqs, resps, relayed, faults>>

(* The reader's deferred end: forget the connection if it is this one. *)
Disconnected(k) ==
    /\ reader[k] = "ending"
    /\ reader' = [reader EXCEPT ![k] = "gone"]
    /\ cur' = IF cur = k THEN 0 ELSE cur
    /\ UNCHANGED <<sock, conn, held, closing, callVars, reqs, resps, relayed, faults>>

-----------------------------------------------------------------------------
(* sendRequest *)

Return(c, r) ==
    /\ state' = [state EXCEPT ![c] = r]
    /\ pending' = pending \ {c}
    /\ via' = [via EXCEPT ![c] = 0]
    /\ box' = [box EXCEPT ![c] = "none"]

(* Register the waiter and take the connection; without one, fail. *)
SendRequest(c) ==
    /\ state[c] = "idle"
    /\ state' = [state EXCEPT ![c] = "writing"]
    /\ via' = [via EXCEPT ![c] = cur]
    /\ pending' = pending \cup {c}
    /\ UNCHANGED <<sockVars, box, reqs, resps, relayed, faults>>

(* Write it. A write to a socket whose other end is gone may still seem to *)
(* succeed.                                                                *)
WriteMessage(c) ==
    /\ state[c] = "writing"
    /\ \/ /\ via[c] # 0 /\ sock[via[c]] = "open"
          /\ reqs' = reqs \cup {<<c, via[c]>>}
          /\ state' = [state EXCEPT ![c] = "waiting"]
          /\ UNCHANGED <<via, pending, box>>
       \/ /\ via[c] # 0 /\ sock[via[c]] = "dead"
          /\ state' = [state EXCEPT ![c] = "waiting"]
          /\ UNCHANGED <<via, pending, box, reqs>>
       \/ /\ via[c] # 0 => sock[via[c]] \in {"dead", "closed"}
          /\ Return(c, "failed")
          /\ UNCHANGED reqs
    /\ UNCHANGED <<sockVars, resps, relayed, faults>>

(* The response came. *)
Respond(c) ==
    /\ state[c] = "waiting" /\ box[c] # "none"
    /\ Return(c, IF box[c] = "ok" THEN "ok" ELSE "failed")
    /\ UNCHANGED <<sockVars, reqs, resps, relayed, faults>>

(* Ten seconds have passed, or the caller's context has ended: select may  *)
(* choose this even when the response is there.                            *)
Timeout(c) ==
    /\ state[c] = "waiting"
    /\ Return(c, "failed")
    /\ UNCHANGED <<sockVars, reqs, resps, relayed, faults>>

-----------------------------------------------------------------------------
(* Muninn and the network *)

Relay(c, k) ==
    /\ <<c, k>> \in reqs
    /\ reqs' = reqs \ {<<c, k>>}
    /\ \E r \in {"ok", "error"} :
          /\ relayed' = IF r = "ok" THEN [relayed EXCEPT ![c] = @ + 1] ELSE relayed
          /\ resps' = resps \cup {<<c, k, r>>}
    /\ UNCHANGED <<sockVars, callVars, faults>>

SocketDies(k) ==
    /\ sock[k] = "open" /\ faults < MaxFaults
    /\ sock' = [sock EXCEPT ![k] = "dead"]
    /\ faults' = faults + 1
    /\ UNCHANGED <<cur, reader, conn, held, closing, callVars, reqs, resps, relayed>>

-----------------------------------------------------------------------------
ConnectorStep(p) == Connect(p) \/ DialContext(p) \/ Install(p)

ReaderStep(k) == HandleMessage(k) \/ ReadError(k) \/ Disconnected(k)

CallStep(c) == WriteMessage(c) \/ Respond(c) \/ Timeout(c)

Next ==
    \/ \E p \in Connector : ConnectorStep(p)
    \/ \E k \in Sock : ReaderStep(k) \/ SocketDies(k)
    \/ \E c \in Call : SendRequest(c) \/ CallStep(c) \/ \E k \in Sock : Relay(c, k)
    \/ Cancel \/ Close

Spec == Init /\ [][Next]_vars

(* The reconnect loop tries every five seconds, readers and callers run,   *)
(* timers fire; Close goes on once begun. Nobody need call, and Muninn     *)
(* need not answer.                                                        *)
FairSpec ==
    /\ Spec
    /\ WF_vars(\E p \in Connector : ConnectorStep(p))
    /\ \A k \in Sock : WF_vars(ReaderStep(k))
    /\ \A c \in Call : WF_vars(CallStep(c))
    /\ WF_vars(Close)

-----------------------------------------------------------------------------
(* Properties *)

(* No socket is open besides the connection and the one a Connect is about *)
(* to install: concurrent Connects do not leave two, and Close leaves none *)
(* behind, whenever a dial ends.                                           *)
OneSocket ==
    \A k \in Sock : sock[k] = "open" =>
        \/ k = cur
        \/ \E p \in Connector : held[p] = k

(* While its socket is up a call that waits has its request or the answer  *)
(* under way: the reader drops no answer that somebody waits for, and      *)
(* gives none to another call, whichever calls come and time out meantime. *)
(* (readLoop, handleMessage)                                               *)
NoAnswerLost ==
    \A c \in Call : state[c] = "waiting" /\ sock[via[c]] = "open" =>
        \/ box[c] # "none"
        \/ <<c, via[c]>> \in reqs
        \/ \E r \in {"ok", "error"} : <<c, via[c], r>> \in resps

(* A connection that is lost is replaced, until the client is closed or    *)
(* the bound on sockets is reached.                                        *)
Reconnects ==
    (cur = 0 \/ sock[cur] # "open")
        ~> (closing # "no" \/ Unused = {} \/ (cur # 0 /\ sock[cur] = "open"))

(* The client provides the transport that the signaling code expects: in   *)
(* particular a call reports success only for its own signal, and only if  *)
(* that was relayed.                                                       *)
Transport == INSTANCE SignalTransport WITH
    call <- [c \in Call |-> IF state[c] \in Active THEN "waiting" ELSE state[c]]

RelaysAsPromised == Transport!Spec
=============================================================================
