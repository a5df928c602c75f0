--------------------------- MODULE SignalingProofs ---------------------------
(***************************************************************************)
(* Safety of Signaling for two nodes with any IDs, every set of goroutines *)
(* that dial, every number of peer connections and of failures.            *)
(***************************************************************************)
EXTENDS Signaling, FiniteSetTheorems, WellFoundedInduction, TLAPS

\* What a call of ConnectPeer has in its hands, and the signal loop.
Locked  == {"removed", "made"}
Marked  == {"dialing", "removed", "made", "send"}

\* peersConnecting: one goroutine of a node dials.
OneDials ==
    \A n \in Node : \A c, d \in Caller :
        dial[<<n, c>>] \in Marked /\ dial[<<n, d>>] \in Marked => c = d

\* An entry is a connection of the node itself; while a goroutine with the lock is
\* between the two halves of NewPeerConnection there is none.
EntryOfNode ==
    \A n \in Node :
        /\ conn[n] # 0 => st[conn[n]] # "none" /\ owner[conn[n]] = n
        /\ hand[n] = "removed" \/ (\E c \in Caller : dial[<<n, c>>] = "removed") => conn[n] = 0

\* What the dialing goroutine and the signal loop hold: connections of their node
\* in the role they made them for, not started before the lock is released.
InHand ==
    \A n \in Node :
        /\ \A c \in Caller : dial[<<n, c>>] \in {"made", "send"} =>
             /\ mine[<<n, c>>] \in Conn
             /\ owner[mine[<<n, c>>]] = n /\ role[mine[<<n, c>>]] = "offer"
             /\ st[mine[<<n, c>>]] # "none"
             /\ dial[<<n, c>>] = "made" => st[mine[<<n, c>>]] \in {"new", "closed"}
        /\ hand[n] = "made" =>
             /\ made[n] \in Conn
             /\ owner[made[n]] = n /\ role[made[n]] = "answer"
             /\ st[made[n]] \in {"new", "closed"}

\* A connection that is not started is in somebody's hands.
NewIsHeld ==
    \A i \in Conn : st[i] = "new" =>
        \/ \E c \in Caller : dial[<<owner[i], c>>] = "made" /\ mine[<<owner[i], c>>] = i
        \/ hand[owner[i]] = "made" /\ made[owner[i]] = i

\* What a state callback is about, which is never taken back.
Told(i) == st[i] = "closed" \/ report[i] # "none"

\* A callback on its way has its reason; without failures pion reports nothing bad.
EventsTell ==
    \A i \in Conn :
        /\ <<"state", i>> \in events => Told(i)
        /\ <<"channel", i>> \in events => st[i] # "none"
        /\ clean = "yes" => report[i] = "none"

\* A description is that of a connection of the other node, in the other role.
FromOther(d, n, r) == st[d] # "none" /\ owner[d] = Other(n) /\ role[d] = r

Descriptions ==
    /\ \A s \in net : FromOther(s.desc, s.to, s.type)
    /\ \A n \in Node :
         IF hand[n] = "idle" THEN sig[n].desc = 0
         ELSE /\ sig[n] \in Signal /\ sig[n].to = n
              /\ FromOther(sig[n].desc, n, "offer")
    /\ \A i \in Conn :
         /\ st[i] \in {"none", "new"} => remote[i] = 0
         /\ remote[i] # 0 =>
              FromOther(remote[i], owner[i], IF role[i] = "offer" THEN "answer" ELSE "offer")
         /\ st[i] \in {"live", "up"} /\ role[i] = "answer" => remote[i] # 0
         /\ st[i] = "up" => remote[i] # 0 /\ remote[remote[i]] = i

\* Without failures an entry is a connection pion works on, and stays until it is
\* replaced by an answer: a node makes one offer, and none after an answer.
CleanEntries ==
    clean = "yes" => \A n \in Node :
        /\ conn[n] # 0 => st[conn[n]] \in {"new", "live", "up"}
        /\ \A c \in Caller : dial[<<n, c>>] = "made" => st[mine[<<n, c>>]] = "new"
        /\ hand[n] = "made" => st[made[n]] = "new"
        /\ conn[n] = 0 /\ hand[n] # "removed" =>
             \A i \in Conn : owner[i] = n => st[i] = "none"
        /\ conn[n] # 0 /\ role[conn[n]] = "offer" =>
             \A i \in Conn : owner[i] = n /\ st[i] # "none" => i = conn[n]

Offered(d) == \E s \in net : s.type = "offer" /\ s.desc = d
Handled(d) == \E n \in Node : sig[n].desc = d
Answered(d) == \E i \in Conn : role[i] = "answer" /\ remote[i] = d

\* Without failures an offer is in one place.
CleanOffers ==
    clean = "yes" =>
        /\ \A s, t \in net : s.type = "offer" /\ t.type = "offer" /\ s.desc = t.desc => s = t
        /\ \A n \in Node, c \in Caller : dial[<<n, c>>] \in {"made", "send"} =>
             LET d == mine[<<n, c>>] IN ~Offered(d) /\ ~Handled(d) /\ ~Answered(d)
        /\ \A s \in net : s.type = "offer" => ~Handled(s.desc) /\ ~Answered(s.desc)

IInv ==
    /\ TypeOK
    /\ OneDials
    /\ EntryOfNode
    /\ InHand
    /\ NewIsHeld
    /\ EventsTell
    /\ Descriptions
    /\ ChannelIsCurrent
    /\ NoStrayConnection
    /\ CleanEntries
    /\ CleanOffers
    /\ GlareResolves
-----------------------------------------------------------------------------
(* Type correctness.                                                       *)

LEMMA TwoNodes ==
    ASSUME NEW n \in Node
    PROVE  /\ Other(n) \in Node /\ Other(n) # n
           /\ \A k \in Node : k = n \/ k = Other(n)
<1>1. IsFiniteSet(Node \ {n}) /\ Cardinality(Node \ {n}) = 1
  BY SignalingAssumption, FS_RemoveElement
<1>2. PICK m : Node \ {n} = {m}  BY <1>1, FS_Singleton
<1>3. \E k \in Node : k # n  BY <1>2
<1>4. Other(n) \in Node /\ Other(n) # n  BY <1>3 DEF Other
<1> QED  BY <1>2, <1>4

\* A new connection is one that was not there.
LEMMA FreshUnused ==
    ASSUME Unused # {}
    PROVE  Fresh \in Conn /\ st[Fresh] = "none"
<1>1. Unused \subseteq Nat  BY SignalingAssumption DEF Unused, Conn
<1>2. PICK j \in Unused : \A i \in Unused : ~ (<<i, j>> \in OpToRel(<, Nat))
  BY <1>1, NatLessThanWellFounded, WFMin
<1>3. \A i \in Unused : ~ (i < j)
  BY <1>1, <1>2, Zenon DEF OpToRel
<1>4. \A i \in Unused : j <= i
  BY <1>1, <1>3
<1>5. Fresh \in Unused  BY <1>4 DEF Fresh
<1> QED  BY <1>5 DEF Unused

LEMMA SignalType ==
    ASSUME NEW n \in Node, NEW t \in {"offer", "answer"}, NEW d \in Conn,
           NEW r \in 0..MaxConns, NEW k \in 1..2
    PROVE  [to |-> n, type |-> t, desc |-> d, re |-> r, copy |-> k] \in Signal
BY DEF Signal

\* What Send puts on the way.
LEMMA Sent ==
    ASSUME TypeOK, NEW n \in Node, NEW t \in {"offer", "answer"}, NEW d \in Conn,
           NEW r \in 0..MaxConns, Send(n, t, d, r)
    PROVE  /\ net' \subseteq Signal /\ faults' \in 0..MaxFaults
           /\ net \subseteq net'
           /\ \A s \in net' \ net : s.to = Other(n) /\ s.type = t /\ s.desc = d
           /\ faults' = faults => \E s \in net' : net' = net \cup {s} /\ s.to = Other(n)
                                                  /\ s.type = t /\ s.desc = d
<1> DEFINE Copy(k) == [to |-> Other(n), type |-> t, desc |-> d, re |-> r, copy |-> k]
<1>1. PICK copies \in {{1}, {}, {1, 2}} :
        /\ copies # {1} => faults < MaxFaults
        /\ faults' = IF copies = {1} THEN faults ELSE faults + 1
        /\ net' = net \cup {Copy(k) : k \in copies}
  BY DEF Send
<1>2. \A k \in 1..2 : Copy(k) \in Signal  BY TwoNodes, SignalType
<1>3. copies \subseteq 1..2  BY <1>1
<1>4. \A k : Copy(k).to = Other(n) /\ Copy(k).type = t /\ Copy(k).desc = d
  OBVIOUS
<1> HIDE DEF Copy
<1>5. net \subseteq Signal /\ faults \in 0..MaxFaults  BY DEF TypeOK
<1>6. net' \subseteq Signal  BY <1>1, <1>2, <1>3, <1>5
<1>7. faults' \in 0..MaxFaults  BY <1>1, <1>5, SignalingAssumption
<1>8. \A s \in net' \ net : s.to = Other(n) /\ s.type = t /\ s.desc = d
  BY <1>1, <1>4
<1>9. ASSUME faults' = faults
      PROVE  \E s \in net' : net' = net \cup {s} /\ s.to = Other(n)
                             /\ s.type = t /\ s.desc = d
  <2>1. copies = {1}  BY <1>1, <1>5, <1>9, SignalingAssumption
  <2>2. net' = net \cup {Copy(1)}  BY <1>1, <2>1
  <2> QED  BY <1>4, <2>2
<1> QED  BY <1>1, <1>6, <1>7, <1>8, <1>9

LEMMA TypeInit == Init => TypeOK
<1> SUFFICES ASSUME Init PROVE TypeOK  OBVIOUS
<1>1. \E n \in Node : TRUE
  <2>1. Cardinality(Node) # 0  BY SignalingAssumption
  <2>2. Node # {}  BY <2>1, FS_EmptySet
  <2> QED  BY <2>2
<1>2. (CHOOSE n \in Node : TRUE) \in Node  BY <1>1
<1>3. 0 \in 0..MaxFaults /\ 0 \in 0..MaxConns  BY SignalingAssumption
<1> QED  BY <1>2, <1>3 DEF Init, TypeOK

\* The part of TypeOK about the negotiation lock.
LockOf(n) ==
    /\ neg[n] = "hand" <=> hand[n] \in Locked
    /\ neg[n] = "dial" <=> \E c \in Caller : dial[<<n, c>>] \in Locked

\* The lock is held by the signal loop or by one goroutine.
LEMMA OneHolder ==
    ASSUME TypeOK, OneDials, NEW n \in Node
    PROVE  /\ LockOf(n)
           /\ \A c, d \in Caller : dial[<<n, c>>] \in Locked /\ dial[<<n, d>>] \in Locked => c = d
           /\ hand[n] \in Locked => \A c \in Caller : dial[<<n, c>>] \notin Locked
<1>1. LockOf(n)  BY DEF TypeOK, LockOf, Locked
<1> QED  BY <1>1 DEF LockOf, OneDials, Locked, Marked

LEMMA LockStep == TypeOK /\ OneDials /\ [Next]_vars => \A n \in Node : LockOf(n)'
<1> SUFFICES ASSUME TypeOK, OneDials, [Next]_vars, NEW m \in Node PROVE LockOf(m)'
  OBVIOUS
<1>1. /\ dial \in [Node \X Caller -> {"idle", "checked", "dialing", "removed", "made", "send"}]
      /\ hand \in [Node -> {"idle", "offer", "removed", "made"}]
      /\ neg \in [Node -> {"free", "dial", "hand"}]
  BY DEF TypeOK
<1>2. /\ LockOf(m)
      /\ \A c, d \in Caller : dial[<<m, c>>] \in Locked /\ dial[<<m, d>>] \in Locked => c = d
      /\ hand[m] \in Locked => \A c \in Caller : dial[<<m, c>>] \notin Locked
  BY OneHolder
\* A goroutine of another node.
<1>3. ASSUME NEW n \in Node, n # m, NEW c \in Caller, NEW l,
             dial' = [dial EXCEPT ![<<n, c>>] = l], UNCHANGED hand, neg'[m] = neg[m]
      PROVE  LockOf(m)'
  <2>1. \A d \in Caller : dial'[<<m, d>>] = dial[<<m, d>>]  BY <1>1, <1>3
  <2> QED  BY <1>2, <1>3, <2>1 DEF LockOf
\* A goroutine of this node: it takes the lock, keeps it, gives it back or has
\* nothing to do with it.
<1>4. ASSUME NEW c \in Caller, NEW l, dial' = [dial EXCEPT ![<<m, c>>] = l],
             UNCHANGED hand,
             \/ neg[m] = "free" /\ neg'[m] = "dial" /\ l \in Locked
             \/ dial[<<m, c>>] \in Locked /\ neg'[m] = neg[m] /\ l \in Locked
             \/ dial[<<m, c>>] \in Locked /\ neg'[m] = "free" /\ l \notin Locked
             \/ dial[<<m, c>>] \notin Locked /\ neg'[m] = neg[m] /\ l \notin Locked
      PROVE  LockOf(m)'
  <2>1. /\ \A d \in Caller \ {c} : dial'[<<m, d>>] = dial[<<m, d>>]
        /\ dial'[<<m, c>>] = l
    BY <1>1, <1>4
  <2> QED  BY <1>1, <1>2, <1>4, <2>1 DEF LockOf
<1>5. ASSUME NEW n \in Node, NEW c \in Caller, ConnectPeer(n, c) \/ Dial(n, c)
      PROVE  LockOf(m)'
  <2>1. CASE n # m
    <3>1. neg'[m] = neg[m] /\ UNCHANGED hand
      BY <1>1, <1>5, <2>1
      DEF ConnectPeer, Dial, MarkDialing, CreateOfferClose, CreateOfferEnter,
          CreateOfferFinish, SendOffer
    <3>2. \E l : dial' = [dial EXCEPT ![<<n, c>>] = l]
      BY <1>5
      DEF ConnectPeer, Dial, MarkDialing, CreateOfferClose, CreateOfferEnter,
          CreateOfferFinish, SendOffer
    <3> QED  BY <1>3, <2>1, <3>1, <3>2
  <2>2. CASE n = m
    <3>1. UNCHANGED hand
      BY <1>5
      DEF ConnectPeer, Dial, MarkDialing, CreateOfferClose, CreateOfferEnter,
          CreateOfferFinish, SendOffer
    <3>2. CASE ConnectPeer(n, c) \/ MarkDialing(n, c) \/ SendOffer(n, c)
      <4>1. /\ neg' = neg /\ dial[<<m, c>>] \notin Locked
            /\ \E l \in {"idle", "checked", "dialing"} : dial' = [dial EXCEPT ![<<m, c>>] = l]
        BY <2>2, <3>2 DEF ConnectPeer, MarkDialing, SendOffer, Locked
      <4> QED  BY <1>4, <3>1, <4>1 DEF Locked
    <3>3. CASE CreateOfferClose(n, c)
      <4>1. neg[m] = "free" /\ neg'[m] = "dial" /\ dial' = [dial EXCEPT ![<<m, c>>] = "removed"]
        BY <1>1, <2>2, <3>3 DEF CreateOfferClose
      <4> QED  BY <1>4, <3>1, <4>1 DEF Locked
    <3>4. CASE CreateOfferEnter(n, c)
      <4>1. dial[<<m, c>>] \in Locked  BY <2>2, <3>4 DEF CreateOfferEnter, Locked
      <4>2. \/ neg' = neg /\ dial' = [dial EXCEPT ![<<m, c>>] = "made"]
            \/ neg'[m] = "free" /\ dial' = [dial EXCEPT ![<<m, c>>] = "idle"]
        BY <1>1, <2>2, <3>4 DEF CreateOfferEnter
      <4> QED  BY <1>4, <3>1, <4>1, <4>2 DEF Locked
    <3>5. CASE CreateOfferFinish(n, c)
      <4>1. dial[<<m, c>>] \in Locked /\ neg'[m] = "free"
        BY <1>1, <2>2, <3>5 DEF CreateOfferFinish, Locked
      <4>2. \/ dial' = [dial EXCEPT ![<<m, c>>] = "idle"]
            \/ dial' = [dial EXCEPT ![<<m, c>>] = "send"]
        BY <2>2, <3>5 DEF CreateOfferFinish
      <4> QED  BY <1>4, <3>1, <4>1, <4>2 DEF Locked
    <3> QED  BY <1>5, <3>2, <3>3, <3>4, <3>5 DEF Dial
  <2> QED  BY <2>1, <2>2
<1>6. ASSUME NEW n \in Node, SignalLoop(n) PROVE LockOf(m)'
  <2>1. UNCHANGED dial
    BY <1>6
    DEF SignalLoop, TakeOffer, HandleOfferClose, HandleOfferEnter, HandleOfferAnswer,
        TakeAnswer, nodeVars
  <2>2. CASE n # m
    <3>1. neg'[m] = neg[m] /\ hand'[m] = hand[m]
      BY <1>1, <1>6, <2>2
      DEF SignalLoop, TakeOffer, HandleOfferClose, HandleOfferEnter, HandleOfferAnswer,
          TakeAnswer, nodeVars
    <3> QED  BY <1>2, <2>1, <3>1 DEF LockOf
  <2>3. CASE n = m
    <3>1. \/ neg[m] = "free" /\ neg'[m] = "hand" /\ hand'[m] \in Locked
          \/ hand[m] \in Locked /\ neg'[m] = neg[m] /\ hand'[m] \in Locked
          \/ hand[m] \in Locked /\ neg'[m] = "free" /\ hand'[m] \notin Locked
          \/ hand[m] \notin Locked /\ neg'[m] = neg[m] /\ hand'[m] \notin Locked
          \/ UNCHANGED <<hand, neg>>
      BY <1>1, <1>6, <2>3
      DEF SignalLoop, TakeOffer, HandleOfferClose, HandleOfferEnter, HandleOfferAnswer,
          TakeAnswer, nodeVars, Locked
    <3> QED  BY <1>1, <1>2, <2>1, <3>1 DEF LockOf
  <2> QED  BY <2>2, <2>3
<1>7. CASE UNCHANGED <<neg, dial, hand>>
  BY <1>2, <1>7 DEF LockOf
<1> QED
  BY <1>5, <1>6, <1>7
  DEF Next, vars, nodeVars, DisconnectPeer, Pion, Open, NoCounterpart, Disconnect, GiveUp,
      Report, OnDataChannel, OnConnectionStateChange

\* The rest of TypeOK: the memory of the nodes, pion's connections, the way between.
MemoryTypes ==
    /\ conn \in [Node -> 0..MaxConns] /\ chan \in [Node -> 0..MaxConns]
    /\ neg \in [Node -> {"free", "dial", "hand"}]
    /\ dial \in [Node \X Caller -> {"idle", "checked", "dialing", "removed", "made", "send"}]
    /\ mine \in [Node \X Caller -> 0..MaxConns]
    /\ hand \in [Node -> {"idle", "offer", "removed", "made"}]
    /\ sig \in [Node -> Signal \cup {[desc |-> 0]}] /\ made \in [Node -> 0..MaxConns]

PionTypes ==
    /\ owner \in [Conn -> Node] /\ role \in [Conn -> {"offer", "answer"}]
    /\ st \in [Conn -> {"none", "new", "live", "up", "closed"}]
    /\ report \in [Conn -> {"none", "disconnected", "failed"}]
    /\ remote \in [Conn -> 0..MaxConns]
    /\ events \subseteq {"channel", "state"} \X Conn

NetTypes ==
    /\ net \subseteq Signal
    /\ faults \in 0..MaxFaults /\ clean \in {"yes", "no"}

LEMMA TypeParts ==
    TypeOK <=> MemoryTypes /\ PionTypes /\ NetTypes /\ \A n \in Node : LockOf(n)
BY DEF TypeOK, MemoryTypes, PionTypes, NetTypes, LockOf, Locked

LEMMA CloseType ==
    ASSUME TypeOK, NEW n \in Node, Close(n)
    PROVE  /\ conn' \in [Node -> 0..MaxConns] /\ chan' \in [Node -> 0..MaxConns]
           /\ st' \in [Conn -> {"none", "new", "live", "up", "closed"}]
           /\ events' \subseteq {"channel", "state"} \X Conn
<1> USE SignalingAssumption
<1>1. MemoryTypes /\ PionTypes  BY TypeParts
<1>2. conn' = [conn EXCEPT ![n] = 0] /\ chan' = [chan EXCEPT ![n] = 0]  BY DEF Close
<1>3. CASE conn[n] = 0
  BY <1>1, <1>2, <1>3 DEF Close, MemoryTypes, PionTypes
<1>4. CASE conn[n] # 0
  <2>1. conn[n] \in Conn  BY <1>1, <1>4 DEF MemoryTypes, Conn
  <2>2. st' = [st EXCEPT ![conn[n]] = "closed"] /\ events' = events \cup {<<"state", conn[n]>>}
    BY <1>4 DEF Close
  <2> QED  BY <1>1, <1>2, <2>1, <2>2 DEF MemoryTypes, PionTypes
<1> QED  BY <1>3, <1>4

LEMMA EnterType ==
    ASSUME TypeOK, NEW n \in Node, NEW r \in {"offer", "answer"}, Unused # {}, Enter(n, r)
    PROVE  /\ conn' \in [Node -> 0..MaxConns]
           /\ chan' \in [Node -> 0..MaxConns]
           /\ PionTypes'
           /\ Fresh \in 0..MaxConns
<1>1. MemoryTypes /\ PionTypes  BY TypeParts
<1>2. Fresh \in Conn /\ Fresh \in 0..MaxConns  BY FreshUnused, SignalingAssumption DEF Conn
<1> QED  BY <1>1, <1>2 DEF Enter, MemoryTypes, PionTypes

LEMMA TypeStep ==
    TypeOK /\ OneDials /\ InHand /\ Descriptions /\ [Next]_vars => TypeOK'
<1> SUFFICES ASSUME TypeOK, OneDials, InHand, Descriptions, [Next]_vars
             PROVE  MemoryTypes' /\ PionTypes' /\ NetTypes'
  BY LockStep, TypeParts DEF TypeOK, MemoryTypes, PionTypes, NetTypes, LockOf, Locked
<1> USE SignalingAssumption DEF nodeVars, pionVars
<1>0. MemoryTypes /\ PionTypes /\ NetTypes  BY TypeParts
<1>1. ASSUME NEW n \in Node, NEW c \in Caller, ConnectPeer(n, c) \/ MarkDialing(n, c)
      PROVE  MemoryTypes' /\ PionTypes' /\ NetTypes'
  <2>1. MemoryTypes'  BY <1>0, <1>1 DEF ConnectPeer, MarkDialing, MemoryTypes
  <2>2. PionTypes'  BY <1>0, <1>1 DEF ConnectPeer, MarkDialing, PionTypes
  <2>3. NetTypes'  BY <1>0, <1>1 DEF ConnectPeer, MarkDialing, NetTypes
  <2> QED  BY <2>1, <2>2, <2>3
<1>2. ASSUME NEW n \in Node, NEW c \in Caller, CreateOfferClose(n, c)
      PROVE  MemoryTypes' /\ PionTypes' /\ NetTypes'
  BY <1>0, <1>2, CloseType DEF CreateOfferClose, MemoryTypes, PionTypes, NetTypes
<1>3. ASSUME NEW n \in Node, NEW c \in Caller, CreateOfferEnter(n, c)
      PROVE  MemoryTypes' /\ PionTypes' /\ NetTypes'
  <2>1. CASE Unused # {}
    <3>1. /\ conn' \in [Node -> 0..MaxConns] /\ chan' \in [Node -> 0..MaxConns]
          /\ PionTypes' /\ Fresh \in 0..MaxConns
      BY <1>3, <2>1, EnterType DEF CreateOfferEnter
    <3>2. /\ mine' = [mine EXCEPT ![<<n, c>>] = Fresh]
          /\ dial' = [dial EXCEPT ![<<n, c>>] = "made"]
          /\ UNCHANGED <<neg, clean, hand, sig, made, net, faults>>
      BY <1>3, <2>1 DEF CreateOfferEnter
    <3>3. MemoryTypes'  BY <1>0, <3>1, <3>2 DEF MemoryTypes
    <3>4. NetTypes'  BY <1>0, <3>2 DEF NetTypes
    <3> QED  BY <3>1, <3>3, <3>4
  <2>2. CASE Unused = {}
    <3>5. MemoryTypes'  BY <1>0, <1>3, <2>2 DEF CreateOfferEnter, MemoryTypes
    <3>6. PionTypes'  BY <1>0, <1>3, <2>2 DEF CreateOfferEnter, PionTypes
    <3>7. NetTypes'  BY <1>0, <1>3, <2>2 DEF CreateOfferEnter, NetTypes
    <3> QED  BY <3>5, <3>6, <3>7
  <2> QED  BY <2>1, <2>2
<1>4. ASSUME NEW n \in Node, NEW c \in Caller, CreateOfferFinish(n, c)
      PROVE  MemoryTypes' /\ PionTypes' /\ NetTypes'
  <2>1. CASE Close(n) /\ mine' = [mine EXCEPT ![<<n, c>>] = 0]
             /\ dial' = [dial EXCEPT ![<<n, c>>] = "idle"]
    <3>1. /\ conn' \in [Node -> 0..MaxConns] /\ chan' \in [Node -> 0..MaxConns]
          /\ st' \in [Conn -> {"none", "new", "live", "up", "closed"}]
          /\ events' \subseteq {"channel", "state"} \X Conn
      BY <2>1, CloseType
    <3>2. neg' = [neg EXCEPT ![n] = "free"] /\ UNCHANGED <<hand, sig, made>>
      BY <1>4 DEF CreateOfferFinish
    <3>5. MemoryTypes'  BY <1>0, <2>1, <3>1, <3>2 DEF MemoryTypes
    <3>6. PionTypes'  BY <1>0, <1>4, <2>1, <3>1 DEF CreateOfferFinish, PionTypes
    <3>7. NetTypes'  BY <1>0, <1>4, <2>1, <3>1 DEF CreateOfferFinish, NetTypes
    <3> QED  BY <3>5, <3>6, <3>7
  <2>2. CASE st[mine[<<n, c>>]] # "closed" /\ UNCHANGED <<conn, mine, events>>
             /\ st' = [st EXCEPT ![mine[<<n, c>>]] = "live"]
             /\ dial' = [dial EXCEPT ![<<n, c>>] = "send"]
             /\ chan' = IF conn[n] = mine[<<n, c>>]
                        THEN [chan EXCEPT ![n] = mine[<<n, c>>]] ELSE chan
    <3>1. mine[<<n, c>>] \in 0..MaxConns  BY <1>0 DEF MemoryTypes
    <3>2. chan' \in [Node -> 0..MaxConns]  BY <1>0, <2>2, <3>1 DEF MemoryTypes
    <3>3. st' \in [Conn -> {"none", "new", "live", "up", "closed"}]
      BY <1>0, <2>2 DEF PionTypes
    <3> QED  BY <1>0, <1>4, <2>2, <3>2, <3>3
             DEF CreateOfferFinish, MemoryTypes, PionTypes, NetTypes
  <2> QED  BY <1>4, <2>1, <2>2 DEF CreateOfferFinish
<1>5. ASSUME NEW n \in Node, NEW c \in Caller, SendOffer(n, c)
      PROVE  MemoryTypes' /\ PionTypes' /\ NetTypes'
  <2>1. mine[<<n, c>>] \in Conn  BY <1>5 DEF SendOffer, InHand
  <2>2. net' \subseteq Signal /\ faults' \in 0..MaxFaults
    BY <1>5, <2>1, Sent DEF SendOffer
  <2> QED  BY <1>0, <1>5, <2>2 DEF SendOffer, MemoryTypes, PionTypes, NetTypes
<1>6. ASSUME NEW n \in Node, DisconnectPeer(n)
      PROVE  MemoryTypes' /\ PionTypes' /\ NetTypes'
  <2>1. /\ conn' \in [Node -> 0..MaxConns] /\ chan' \in [Node -> 0..MaxConns]
        /\ st' \in [Conn -> {"none", "new", "live", "up", "closed"}]
        /\ events' \subseteq {"channel", "state"} \X Conn
    BY <1>6, CloseType DEF DisconnectPeer
  <2> QED  BY <1>0, <1>6, <2>1 DEF DisconnectPeer, MemoryTypes, PionTypes, NetTypes
<1>7. ASSUME NEW n \in Node, TakeOffer(n)
      PROVE  MemoryTypes' /\ PionTypes' /\ NetTypes'
  <2>0. /\ UNCHANGED <<conn, chan, neg, dial, mine, made>>
        /\ \/ UNCHANGED <<hand, sig>>
           \/ \E s \in net : hand' = [hand EXCEPT ![n] = "offer"] /\ sig' = [sig EXCEPT ![n] = s]
    BY <1>7 DEF TakeOffer
  <2>1. MemoryTypes'  BY <1>0, <2>0 DEF MemoryTypes, NetTypes
  <2>2. PionTypes'  BY <1>0, <1>7 DEF TakeOffer, PionTypes
  <2>3. NetTypes'  BY <1>0, <1>7 DEF TakeOffer, NetTypes
  <2> QED  BY <2>1, <2>2, <2>3
<1>8. ASSUME NEW n \in Node, HandleOfferClose(n)
      PROVE  MemoryTypes' /\ PionTypes' /\ NetTypes'
  <2>1. /\ conn' \in [Node -> 0..MaxConns] /\ chan' \in [Node -> 0..MaxConns]
        /\ st' \in [Conn -> {"none", "new", "live", "up", "closed"}]
        /\ events' \subseteq {"channel", "state"} \X Conn
    BY <1>8, CloseType DEF HandleOfferClose
  <2> QED  BY <1>0, <1>8, <2>1 DEF HandleOfferClose, MemoryTypes, PionTypes, NetTypes
<1>9. ASSUME NEW n \in Node, HandleOfferEnter(n)
      PROVE  MemoryTypes' /\ PionTypes' /\ NetTypes'
  <2>1. CASE Unused # {}
    <3>1. /\ conn' \in [Node -> 0..MaxConns] /\ chan' \in [Node -> 0..MaxConns]
          /\ PionTypes' /\ Fresh \in 0..MaxConns
      BY <1>9, <2>1, EnterType DEF HandleOfferEnter
    <3> QED  BY <1>0, <1>9, <2>1, <3>1 DEF HandleOfferEnter, MemoryTypes, NetTypes
  <2>2. CASE Unused = {}
    BY SMTT(20), <1>0, <1>9, <2>2 DEF HandleOfferEnter, MemoryTypes, PionTypes, NetTypes
  <2> QED  BY <2>1, <2>2
<1>10. ASSUME NEW n \in Node, HandleOfferAnswer(n)
       PROVE  MemoryTypes' /\ PionTypes' /\ NetTypes'
  <2>1. CASE Close(n) /\ UNCHANGED <<remote, net, faults, clean>>
    <3>1. /\ conn' \in [Node -> 0..MaxConns] /\ chan' \in [Node -> 0..MaxConns]
          /\ st' \in [Conn -> {"none", "new", "live", "up", "closed"}]
          /\ events' \subseteq {"channel", "state"} \X Conn
      BY <2>1, CloseType
    <3>2. /\ neg' = [neg EXCEPT ![n] = "free"] /\ hand' = [hand EXCEPT ![n] = "idle"]
          /\ sig' = [sig EXCEPT ![n] = [desc |-> 0]] /\ made' = [made EXCEPT ![n] = 0]
          /\ UNCHANGED <<dial, mine>>
      BY <1>10 DEF HandleOfferAnswer
    <3>5. MemoryTypes'  BY <1>0, <3>1, <3>2 DEF MemoryTypes
    <3>6. PionTypes'  BY <1>0, <1>10, <2>1, <3>1 DEF HandleOfferAnswer, PionTypes
    <3>7. NetTypes'  BY <1>0, <1>10, <2>1, <3>1 DEF HandleOfferAnswer, NetTypes
    <3> QED  BY <3>5, <3>6, <3>7
  <2>2. CASE /\ st' = [st EXCEPT ![made[n]] = "live"]
             /\ remote' = [remote EXCEPT ![made[n]] = sig[n].desc]
             /\ Send(n, "answer", made[n], sig[n].desc)
             /\ clean' = IF faults' = faults THEN clean ELSE "no"
             /\ UNCHANGED <<conn, chan, events>>
    <3>1. made[n] \in Conn /\ sig[n] \in Signal
      BY <1>10 DEF HandleOfferAnswer, InHand, Descriptions
    <3>2. sig[n].desc \in 0..MaxConns  BY <3>1 DEF Signal, Conn
    <3>3. net' \subseteq Signal /\ faults' \in 0..MaxFaults
      BY <2>2, <3>1, <3>2, Sent
    <3>4. PionTypes'  BY <1>0, <1>10, <2>2, <3>1, <3>2 DEF HandleOfferAnswer, PionTypes
    <3>5. MemoryTypes'  BY <1>0, <1>10, <2>2 DEF HandleOfferAnswer, MemoryTypes
    <3> QED  BY <1>0, <2>2, <3>3, <3>4, <3>5 DEF NetTypes
  <2> QED  BY <1>10, <2>1, <2>2 DEF HandleOfferAnswer
<1>11. ASSUME NEW n \in Node, TakeAnswer(n)
       PROVE  MemoryTypes' /\ PionTypes' /\ NetTypes'
  <2>1. PICK s \in net : /\ net' = net \ {s}
                         /\ \/ remote' = [remote EXCEPT ![conn[n]] = s.desc]
                            \/ remote' = remote
    BY <1>11 DEF TakeAnswer
  <2>2. s.desc \in 0..MaxConns  BY <1>0, <2>1 DEF NetTypes, Signal, Conn
  <2>3. PionTypes'  BY <1>0, <1>11, <2>1, <2>2 DEF TakeAnswer, PionTypes
  <2> QED  BY <1>0, <1>11, <2>1, <2>3 DEF TakeAnswer, MemoryTypes, NetTypes
<1>12. ASSUME NEW i \in Conn, Pion(i) \/ Disconnect(i) \/ GiveUp(i)
       PROVE  MemoryTypes' /\ PionTypes' /\ NetTypes'
  <2>1. PionTypes'
    BY <1>0, <1>12
    DEF Pion, Open, NoCounterpart, Disconnect, GiveUp, Report, OnDataChannel,
        OnConnectionStateChange, PionTypes
  <2>2. MemoryTypes'
    BY <1>0, <1>12
    DEF Pion, Open, NoCounterpart, Disconnect, GiveUp, Report, OnDataChannel,
        OnConnectionStateChange, MemoryTypes, Conn
  <2>3. NetTypes'
    BY <1>0, <1>12
    DEF Pion, Open, NoCounterpart, Disconnect, GiveUp, Report, OnDataChannel,
        OnConnectionStateChange, NetTypes
  <2> QED  BY <2>1, <2>2, <2>3
<1>13. CASE UNCHANGED vars
  BY <1>0, <1>13 DEF vars, MemoryTypes, PionTypes, NetTypes
<1> QED
  BY <1>1, <1>2, <1>3, <1>4, <1>5, <1>6, <1>7, <1>8, <1>9, <1>10, <1>11, <1>12, <1>13
  DEF Next, Dial, SignalLoop
-----------------------------------------------------------------------------
(* Dialing goroutines and entries.                                         *)

LEMMA DialsStep == TypeOK /\ OneDials /\ [Next]_vars => OneDials'
<1> SUFFICES ASSUME TypeOK, OneDials, [Next]_vars, NEW m \in Node PROVE
      \A c, d \in Caller : dial'[<<m, c>>] \in Marked /\ dial'[<<m, d>>] \in Marked => c = d
  BY DEF OneDials
<1>1. dial \in [Node \X Caller -> {"idle", "checked", "dialing", "removed", "made", "send"}]
  BY DEF TypeOK
<1>2. ASSUME NEW n \in Node, NEW c \in Caller, NEW l, dial' = [dial EXCEPT ![<<n, c>>] = l],
             \/ l \notin Marked
             \/ dial[<<n, c>>] \in Marked
             \/ \A d \in Caller : dial[<<n, d>>] \notin Marked
      PROVE  \A d, e \in Caller :
               dial'[<<m, d>>] \in Marked /\ dial'[<<m, e>>] \in Marked => d = e
  BY <1>1, <1>2 DEF OneDials
<1>3. ASSUME NEW n \in Node, NEW c \in Caller, MarkDialing(n, c)
      PROVE  \A d, e \in Caller :
               dial'[<<m, d>>] \in Marked /\ dial'[<<m, e>>] \in Marked => d = e
  BY <1>2, <1>3 DEF MarkDialing, Dialing, Marked
<1>4. ASSUME NEW n \in Node, NEW c \in Caller,
             \/ ConnectPeer(n, c) \/ CreateOfferClose(n, c) \/ CreateOfferEnter(n, c)
             \/ CreateOfferFinish(n, c) \/ SendOffer(n, c)
      PROVE  \A d, e \in Caller :
               dial'[<<m, d>>] \in Marked /\ dial'[<<m, e>>] \in Marked => d = e
  <2>1. \E l : /\ dial' = [dial EXCEPT ![<<n, c>>] = l]
               /\ l \notin Marked \/ dial[<<n, c>>] \in Marked
    BY <1>4 DEF ConnectPeer, CreateOfferClose, CreateOfferEnter, CreateOfferFinish,
                SendOffer, Marked
  <2> QED  BY <1>2, <2>1
<1>5. CASE UNCHANGED dial  BY <1>5 DEF OneDials
<1> QED
  BY <1>3, <1>4, <1>5
  DEF Next, vars, Dial, SignalLoop, nodeVars, DisconnectPeer, TakeOffer, HandleOfferClose,
      HandleOfferEnter, HandleOfferAnswer, TakeAnswer, Pion, Open, NoCounterpart, Disconnect,
      GiveUp, Report, OnDataChannel, OnConnectionStateChange

\* A connection keeps its owner and its role, and is never unused again.
LEMMA UsedStays ==
    ASSUME TypeOK, [Next]_vars, NEW i \in Conn, st[i] # "none"
    PROVE  st'[i] # "none" /\ owner'[i] = owner[i] /\ role'[i] = role[i]
<1>1. PionTypes  BY TypeParts
<1>2. ASSUME NEW j, NEW l, st' = [st EXCEPT ![j] = l], l # "none", UNCHANGED <<owner, role>>
      PROVE  st'[i] # "none" /\ owner'[i] = owner[i] /\ role'[i] = role[i]
  BY <1>1, <1>2 DEF PionTypes
<1>3. ASSUME NEW n \in Node, Close(n), UNCHANGED <<owner, role>>
      PROVE  st'[i] # "none" /\ owner'[i] = owner[i] /\ role'[i] = role[i]
  BY <1>2, <1>3 DEF Close
<1>4. ASSUME NEW n \in Node, NEW r, Unused # {}, Enter(n, r)
      PROVE  st'[i] # "none" /\ owner'[i] = owner[i] /\ role'[i] = role[i]
  BY <1>1, <1>4, FreshUnused DEF Enter, PionTypes
<1>5. CASE UNCHANGED <<owner, role, st>>  BY <1>5
<1>6. ASSUME NEW n \in Node, NEW c \in Caller, CreateOfferClose(n, c) \/ CreateOfferFinish(n, c)
      PROVE  st'[i] # "none" /\ owner'[i] = owner[i] /\ role'[i] = role[i]
  BY <1>2, <1>3, <1>6 DEF CreateOfferClose, CreateOfferFinish
<1>7. ASSUME NEW n \in Node, NEW c \in Caller, CreateOfferEnter(n, c)
      PROVE  st'[i] # "none" /\ owner'[i] = owner[i] /\ role'[i] = role[i]
  BY <1>4, <1>5, <1>7 DEF CreateOfferEnter, pionVars
<1>8. ASSUME NEW n \in Node,
             DisconnectPeer(n) \/ HandleOfferClose(n) \/ HandleOfferAnswer(n)
      PROVE  st'[i] # "none" /\ owner'[i] = owner[i] /\ role'[i] = role[i]
  <2>1. CASE DisconnectPeer(n)  BY <1>3, <2>1 DEF DisconnectPeer
  <2>2. CASE HandleOfferClose(n)  BY <1>3, <2>2 DEF HandleOfferClose
  <2>3. CASE HandleOfferAnswer(n)  BY <1>2, <1>3, <2>3 DEF HandleOfferAnswer
  <2> QED  BY <1>8, <2>1, <2>2, <2>3
<1>9. ASSUME NEW n \in Node, HandleOfferEnter(n)
      PROVE  st'[i] # "none" /\ owner'[i] = owner[i] /\ role'[i] = role[i]
  BY <1>4, <1>5, <1>9 DEF HandleOfferEnter, pionVars
<1>10. ASSUME NEW j \in Conn, Pion(j) \/ Disconnect(j) \/ GiveUp(j)
       PROVE  st'[i] # "none" /\ owner'[i] = owner[i] /\ role'[i] = role[i]
  BY <1>2, <1>5, <1>10
  DEF Pion, Open, NoCounterpart, Disconnect, GiveUp, Report, OnDataChannel,
      OnConnectionStateChange
<1> QED
  BY <1>5, <1>6, <1>7, <1>8, <1>9, <1>10
  DEF Next, vars, pionVars, Dial, SignalLoop, ConnectPeer, MarkDialing, SendOffer,
      TakeOffer, TakeAnswer

LEMMA EntryStep == TypeOK /\ OneDials /\ EntryOfNode /\ [Next]_vars => EntryOfNode'
<1> DEFINE Good(m) == /\ conn'[m] # 0 => st'[conn'[m]] # "none" /\ owner'[conn'[m]] = m
                      /\ hand'[m] = "removed" \/ (\E c \in Caller : dial'[<<m, c>>] = "removed")
                           => conn'[m] = 0
<1> SUFFICES ASSUME TypeOK, OneDials, EntryOfNode, [Next]_vars, NEW m \in Node PROVE Good(m)
  BY DEF EntryOfNode
<1>1. MemoryTypes /\ PionTypes  BY TypeParts
<1>2. conn[m] = 0 \/ conn[m] \in Conn  BY <1>1 DEF MemoryTypes, Conn
<1>3. /\ conn[m] # 0 => st[conn[m]] # "none" /\ owner[conn[m]] = m
      /\ hand[m] = "removed" \/ (\E c \in Caller : dial[<<m, c>>] = "removed") => conn[m] = 0
  BY DEF EntryOfNode
\* The entry stays or goes, and nobody gets between the halves.
<1>4. ASSUME conn'[m] \in {0, conn[m]},
             hand'[m] = "removed" => hand[m] = "removed" \/ conn'[m] = 0,
             \A c \in Caller : dial'[<<m, c>>] = "removed" =>
                 dial[<<m, c>>] = "removed" \/ conn'[m] = 0
      PROVE  Good(m)
  BY <1>2, <1>3, <1>4, UsedStays
\* A new entry, made by the only one with the lock.
<1>5. ASSUME conn'[m] = Fresh, Unused # {}, st'[Fresh] = "new", owner'[Fresh] = m,
             hand'[m] # "removed", \A c \in Caller : dial'[<<m, c>>] # "removed"
      PROVE  Good(m)
  BY <1>5
<1>6. ASSUME NEW n \in Node, NEW c \in Caller, ConnectPeer(n, c) \/ MarkDialing(n, c)
      PROVE  Good(m)
  <2>1. UNCHANGED <<conn, hand>>  BY <1>6 DEF ConnectPeer, MarkDialing
  <2>2. \A d \in Caller : dial'[<<m, d>>] = "removed" => dial[<<m, d>>] = "removed"
    BY <1>1, <1>6 DEF ConnectPeer, MarkDialing, MemoryTypes
  <2> QED  BY <1>4, <2>1, <2>2
<1>7. ASSUME NEW n \in Node, NEW c \in Caller, CreateOfferClose(n, c)
      PROVE  Good(m)
  <2>1. UNCHANGED hand /\ conn' = [conn EXCEPT ![n] = 0]
        /\ dial' = [dial EXCEPT ![<<n, c>>] = "removed"]
    BY <1>7 DEF CreateOfferClose, Close
  <2>2. conn'[m] \in {0, conn[m]} /\ (n = m => conn'[m] = 0)  BY <1>1, <2>1 DEF MemoryTypes
  <2>3. \A d \in Caller : n # m => dial'[<<m, d>>] = dial[<<m, d>>]
    BY <1>1, <2>1 DEF MemoryTypes
  <2> QED  BY <1>4, <2>1, <2>2, <2>3
<1>8. ASSUME NEW n \in Node, NEW r, Enter(n, r), Unused # {}
      PROVE  /\ st'[Fresh] = "new" /\ owner'[Fresh] = n
             /\ conn'[n] = Fresh /\ \A k \in Node \ {n} : conn'[k] = conn[k]
  BY <1>1, <1>8, FreshUnused DEF Enter, MemoryTypes, PionTypes
<1>9. ASSUME NEW n \in Node, NEW c \in Caller, CreateOfferEnter(n, c)
      PROVE  Good(m)
  <2>1. /\ UNCHANGED hand /\ dial[<<n, c>>] = "removed"
        /\ \E l \in {"made", "idle"} : dial' = [dial EXCEPT ![<<n, c>>] = l]
    BY <1>9 DEF CreateOfferEnter
  <2>2. \A d \in Caller : dial'[<<m, d>>] = "removed" => dial[<<m, d>>] = "removed"
    BY <1>1, <2>1 DEF MemoryTypes
  <2>3. CASE Unused # {} /\ Enter(n, "offer") /\ n = m
    <3>1. hand'[m] # "removed" /\ \A d \in Caller : dial'[<<m, d>>] # "removed"
      BY <1>1, <2>1, <2>3, OneHolder DEF Locked, MemoryTypes
    <3> QED  BY <1>5, <1>8, <2>3, <3>1
  <2>4. CASE conn'[m] = conn[m]  BY <1>4, <2>1, <2>2, <2>4
  <2> QED  BY <1>8, <1>9, <2>3, <2>4 DEF CreateOfferEnter
<1>10. ASSUME NEW n \in Node, NEW c \in Caller, CreateOfferFinish(n, c) \/ SendOffer(n, c)
      PROVE  Good(m)
  <2>1. UNCHANGED hand /\ \E l \in {"idle", "send"} : dial' = [dial EXCEPT ![<<n, c>>] = l]
    BY <1>10 DEF CreateOfferFinish, SendOffer
  <2>2. \A d \in Caller : dial'[<<m, d>>] = "removed" => dial[<<m, d>>] = "removed"
    BY <1>1, <2>1 DEF MemoryTypes
  <2>3. conn'[m] \in {0, conn[m]}
    BY <1>1, <1>10 DEF CreateOfferFinish, SendOffer, Close, MemoryTypes
  <2> QED  BY <1>4, <2>1, <2>2, <2>3
<1>11. ASSUME NEW n \in Node, DisconnectPeer(n) \/ TakeOffer(n) \/ HandleOfferClose(n)
                              \/ HandleOfferAnswer(n) \/ TakeAnswer(n)
       PROVE  Good(m)
  <2>1. UNCHANGED dial
    BY <1>11 DEF DisconnectPeer, TakeOffer, HandleOfferClose, HandleOfferAnswer, TakeAnswer,
                 nodeVars
  <2>2. conn'[m] \in {0, conn[m]}
    BY <1>1, <1>11 DEF DisconnectPeer, TakeOffer, HandleOfferClose, HandleOfferAnswer,
                       TakeAnswer, Close, MemoryTypes
  <2>3. hand'[m] = "removed" => hand[m] = "removed" \/ conn'[m] = 0
    BY <1>1, <1>11 DEF DisconnectPeer, TakeOffer, HandleOfferClose, HandleOfferAnswer,
                       TakeAnswer, Close, MemoryTypes, nodeVars
  <2> QED  BY <1>4, <2>1, <2>2, <2>3
<1>12. ASSUME NEW n \in Node, HandleOfferEnter(n) PROVE Good(m)
  <2>1. /\ UNCHANGED dial /\ hand[n] = "removed"
        /\ \E l \in {"made", "idle"} : hand' = [hand EXCEPT ![n] = l]
    BY <1>12 DEF HandleOfferEnter
  <2>2. hand'[m] = "removed" => hand[m] = "removed"
    BY <1>1, <2>1 DEF MemoryTypes
  <2>3. CASE Unused # {} /\ Enter(n, "answer") /\ n = m
    <3>1. hand'[m] # "removed" /\ \A d \in Caller : dial'[<<m, d>>] # "removed"
      BY <1>1, <2>1, <2>3, OneHolder DEF Locked, MemoryTypes
    <3> QED  BY <1>5, <1>8, <2>3, <3>1
  <2>4. CASE conn'[m] = conn[m]  BY <1>4, <2>1, <2>2, <2>4
  <2> QED  BY <1>8, <1>12, <2>3, <2>4 DEF HandleOfferEnter
<1>13. ASSUME NEW i \in Conn, Pion(i) \/ Disconnect(i) \/ GiveUp(i) PROVE Good(m)
  <2>1. UNCHANGED <<dial, hand>>
    BY <1>13 DEF Pion, Open, NoCounterpart, Disconnect, GiveUp, Report, OnDataChannel,
                 OnConnectionStateChange, nodeVars
  <2>2. conn'[m] \in {0, conn[m]}
    BY <1>1, <1>13 DEF Pion, Open, NoCounterpart, Disconnect, GiveUp, Report, OnDataChannel,
                       OnConnectionStateChange, MemoryTypes, PionTypes
  <2> QED  BY <1>4, <2>1, <2>2
<1>14. CASE UNCHANGED vars  BY <1>4, <1>14 DEF vars, nodeVars
<1> QED
  BY <1>6, <1>7, <1>9, <1>10, <1>11, <1>12, <1>13, <1>14 DEF Next, Dial, SignalLoop
-----------------------------------------------------------------------------
(* What a step does to a connection.                                       *)

HeldBy(n, i) ==
    \/ \E c \in Caller : dial[<<n, c>>] = "made" /\ mine[<<n, c>>] = i
    \/ hand[n] = "made" /\ made[n] = i

HeldNext(n, i) ==
    \/ \E c \in Caller : dial'[<<n, c>>] = "made" /\ mine'[<<n, c>>] = i
    \/ hand'[n] = "made" /\ made'[n] = i

\* NewPeerConnection enters it and gives it to the one with the lock.
Entered(i) ==
    /\ st[i] = "none" /\ st'[i] = "new"
    /\ owner'[i] \in Node /\ conn'[owner'[i]] = i /\ HeldNext(owner'[i], i)
    /\ hand[owner'[i]] = "removed" \/ \E c \in Caller : dial[<<owner'[i], c>>] = "removed"

\* Close closes what was the entry of its node.
Closed(i) ==
    /\ st'[i] = "closed" /\ conn[owner[i]] = i /\ conn'[owner[i]] = 0
    /\ \/ clean' = "no"
       \/ hand[owner[i]] = "offer" /\ hand'[owner[i]] = "removed"

\* The local description is set, the lock released.
Started(i) ==
    /\ st[i] = "new" /\ st'[i] = "live" /\ conn' = conn
    /\ \/ \E c \in Caller : /\ dial[<<owner[i], c>>] = "made" /\ mine[<<owner[i], c>>] = i
                            /\ dial'[<<owner[i], c>>] = "send"
       \/ hand[owner[i]] = "made" /\ made[owner[i]] = i /\ hand'[owner[i]] = "idle"

Opened(i) == st[i] = "live" /\ st'[i] = "up" /\ Matched(i) /\ conn' = conn

LEMMA StateStep ==
    ASSUME TypeOK, EntryOfNode, InHand, CleanEntries, [Next]_vars, NEW i \in Conn
    PROVE  \/ st'[i] = st[i]
           \/ Entered(i) \/ Closed(i) \/ Started(i) \/ Opened(i)
<1> DEFINE Good == \/ st'[i] = st[i]
                   \/ Entered(i) \/ Closed(i) \/ Started(i) \/ Opened(i)
<1> SUFFICES ASSUME st'[i] # st[i] PROVE Good  OBVIOUS
<1>0. i # 0  BY DEF Conn
<1>1. MemoryTypes /\ PionTypes  BY TypeParts
<1>2. ASSUME NEW n \in Node, Close(n)
      PROVE  conn[n] = i /\ owner[i] = n /\ conn'[n] = 0 /\ st'[i] = "closed"
  BY <1>1, <1>2 DEF Close, EntryOfNode, MemoryTypes, PionTypes
<1>3. ASSUME NEW n \in Node, NEW r, Enter(n, r), Unused # {}
      PROVE  i = Fresh /\ st[i] = "none" /\ st'[i] = "new" /\ owner'[i] = n /\ conn'[n] = i
  BY <1>1, <1>3, FreshUnused DEF Enter, MemoryTypes, PionTypes
\* Closed or left alone.
<1>4. ASSUME NEW n \in Node, Close(n),
             \/ conn[n] = 0
             \/ clean' = "no"
             \/ hand[n] = "offer" /\ hand'[n] = "removed"
      PROVE  Good
  BY <1>0, <1>2, <1>4 DEF Closed
<1>5. ASSUME NEW n \in Node, NEW r, Enter(n, r), Unused # {}, HeldNext(n, Fresh),
             hand[n] = "removed" \/ \E c \in Caller : dial[<<n, c>>] = "removed"
      PROVE  Good
  <2>1. i = Fresh /\ st[i] = "none" /\ st'[i] = "new" /\ owner'[i] = n /\ conn'[n] = i
    BY <1>3, <1>5
  <2> QED  BY <1>5, <2>1 DEF Entered
<1>6. ASSUME NEW n \in Node, NEW j \in Conn, st[j] = "new", owner[j] = n,
             st' = [st EXCEPT ![j] = "live"], conn' = conn,
             \/ \E c \in Caller : /\ dial[<<n, c>>] = "made" /\ mine[<<n, c>>] = j
                                  /\ dial'[<<n, c>>] = "send"
             \/ hand[n] = "made" /\ made[n] = j /\ hand'[n] = "idle"
      PROVE  Good
  BY <1>1, <1>6 DEF Started, PionTypes
<1> HIDE DEF Good
<1>7. ASSUME NEW n \in Node, NEW c \in Caller, CreateOfferClose(n, c) PROVE Good
  <2>1. Close(n) /\ (conn[n] = 0 \/ clean' = "no")
    BY <1>7 DEF CreateOfferClose, HasConnection
  <2> QED  BY <1>4, <2>1
<1>8. ASSUME UNCHANGED st PROVE Good  BY <1>8 DEF Good
<1>9. ASSUME NEW n \in Node, NEW c \in Caller, CreateOfferEnter(n, c) PROVE Good
  <2>1. CASE Unused # {} /\ Enter(n, "offer") /\ mine' = [mine EXCEPT ![<<n, c>>] = Fresh]
             /\ dial' = [dial EXCEPT ![<<n, c>>] = "made"]
    <3>1. dial'[<<n, c>>] = "made" /\ mine'[<<n, c>>] = Fresh
      BY <1>1, <2>1 DEF MemoryTypes
    <3>2. HeldNext(n, Fresh)  BY <3>1 DEF HeldNext
    <3>3. dial[<<n, c>>] = "removed"  BY <1>9 DEF CreateOfferEnter
    <3> QED  BY <1>5, <2>1, <3>2, <3>3
  <2> QED  BY <1>8, <1>9, <2>1 DEF CreateOfferEnter, pionVars
<1>10. ASSUME NEW n \in Node, NEW c \in Caller, CreateOfferFinish(n, c) PROVE Good
  <2> DEFINE j == mine[<<n, c>>]
  <2>1. dial[<<n, c>>] = "made"  BY <1>10 DEF CreateOfferFinish
  <2>2. j \in Conn /\ owner[j] = n /\ st[j] \in {"new", "closed"}  BY <2>1 DEF InHand
  <2>3. CASE st[j] = "closed" /\ Close(n)
    <3>1. clean' = "no"
      BY <1>10, <2>1, <2>3 DEF CreateOfferFinish, CleanEntries, TypeOK
    <3> QED  BY <1>4, <2>3, <3>1
  <2>4. CASE st[j] # "closed" /\ st' = [st EXCEPT ![j] = "live"] /\ conn' = conn
             /\ dial' = [dial EXCEPT ![<<n, c>>] = "send"]
    <3>1. dial'[<<n, c>>] = "send"  BY <1>1, <2>4 DEF MemoryTypes
    <3> QED  BY <1>6, <2>1, <2>2, <2>4, <3>1
  <2> QED  BY <1>10, <2>3, <2>4 DEF CreateOfferFinish
<1>11. ASSUME NEW n \in Node, DisconnectPeer(n) PROVE Good
  BY <1>4, <1>11 DEF DisconnectPeer
<1>12. ASSUME NEW n \in Node, HandleOfferClose(n) PROVE Good
  <2>1. Close(n) /\ hand[n] = "offer" /\ hand'[n] = "removed"
    BY <1>1, <1>12 DEF HandleOfferClose, MemoryTypes
  <2> QED  BY <1>4, <2>1
<1>13. ASSUME NEW n \in Node, HandleOfferEnter(n) PROVE Good
  <2>1. CASE Unused # {} /\ Enter(n, "answer") /\ made' = [made EXCEPT ![n] = Fresh]
             /\ hand' = [hand EXCEPT ![n] = "made"]
    <3>1. hand'[n] = "made" /\ made'[n] = Fresh
      BY <1>1, <2>1 DEF MemoryTypes
    <3>2. HeldNext(n, Fresh)  BY <3>1 DEF HeldNext
    <3>3. hand[n] = "removed"  BY <1>13 DEF HandleOfferEnter
    <3> QED  BY <1>5, <2>1, <3>2, <3>3
  <2> QED  BY <1>8, <1>13, <2>1 DEF HandleOfferEnter, pionVars
<1>14. ASSUME NEW n \in Node, HandleOfferAnswer(n) PROVE Good
  <2> DEFINE j == made[n]
  <2>1. hand[n] = "made" /\ hand'[n] = "idle"
    BY <1>1, <1>14 DEF HandleOfferAnswer, MemoryTypes
  <2>2. j \in Conn /\ owner[j] = n /\ st[j] \in {"new", "closed"}  BY <2>1 DEF InHand
  <2>3. CASE st[j] = "closed" /\ Close(n) /\ clean' = clean
    <3>1. clean' = "no"
      BY <1>14, <2>1, <2>3 DEF CleanEntries, TypeOK
    <3> QED  BY <1>4, <2>3, <3>1
  <2>4. CASE st[j] # "closed" /\ st' = [st EXCEPT ![j] = "live"] /\ conn' = conn
    BY <1>6, <2>1, <2>2, <2>4
  <2> QED  BY <1>14, <2>3, <2>4 DEF HandleOfferAnswer
<1>15. ASSUME NEW j \in Conn, Open(j) PROVE Good
  BY <1>1, <1>15 DEF Open, Opened, PionTypes, Good
<1> QED
  BY <1>7, <1>8, <1>9, <1>10, <1>11, <1>12, <1>13, <1>14, <1>15
  DEF Next, vars, pionVars, Dial, SignalLoop, ConnectPeer, MarkDialing, SendOffer,
      TakeOffer, TakeAnswer, Pion, NoCounterpart, Disconnect, GiveUp, Report,
      OnDataChannel, OnConnectionStateChange

\* A connection that has just been made.
Made(n, i, r) ==
    i \in Conn /\ st[i] = "none" /\ st'[i] = "new" /\ owner'[i] = n /\ role'[i] = r

LEMMA NewMade ==
    ASSUME TypeOK, NEW n \in Node, NEW r, Enter(n, r), Unused # {}
    PROVE  Made(n, Fresh, r)
<1>1. PionTypes  BY TypeParts
<1> QED  BY <1>1, FreshUnused DEF Enter, Made, PionTypes

\* What a step does to a call of ConnectPeer: nothing, or it has nothing in its
\* hands any more, or it has made a connection, or started the one it made.
LEMMA CallerStep ==
    ASSUME TypeOK, [Next]_vars, InHand, NEW n \in Node, NEW c \in Caller
    PROVE  \/ dial'[<<n, c>>] = dial[<<n, c>>] /\ mine'[<<n, c>>] = mine[<<n, c>>]
           \/ /\ dial'[<<n, c>>] \notin {"made", "send"}
              /\ dial[<<n, c>>] # "made" \/ st'[mine[<<n, c>>]] # "new"
           \/ /\ dial[<<n, c>>] = "removed" /\ dial'[<<n, c>>] = "made"
              /\ Made(n, mine'[<<n, c>>], "offer")
           \/ /\ dial[<<n, c>>] = "made" /\ dial'[<<n, c>>] = "send"
              /\ mine'[<<n, c>>] = mine[<<n, c>>] /\ st'[mine[<<n, c>>]] = "live"
<1> DEFINE Good ==
           \/ dial'[<<n, c>>] = dial[<<n, c>>] /\ mine'[<<n, c>>] = mine[<<n, c>>]
           \/ /\ dial'[<<n, c>>] \notin {"made", "send"}
              /\ dial[<<n, c>>] # "made" \/ st'[mine[<<n, c>>]] # "new"
           \/ /\ dial[<<n, c>>] = "removed" /\ dial'[<<n, c>>] = "made"
              /\ Made(n, mine'[<<n, c>>], "offer")
           \/ /\ dial[<<n, c>>] = "made" /\ dial'[<<n, c>>] = "send"
              /\ mine'[<<n, c>>] = mine[<<n, c>>] /\ st'[mine[<<n, c>>]] = "live"
<1> SUFFICES Good  OBVIOUS
<1>1. MemoryTypes /\ PionTypes  BY TypeParts
<1>2. CASE UNCHANGED <<dial, mine>>  BY <1>2
<1>3. ASSUME NEW m \in Node, NEW d \in Caller, <<m, d>> # <<n, c>>,
             ConnectPeer(m, d) \/ Dial(m, d)
      PROVE  Good
  <2>1. /\ \E l : dial' = [dial EXCEPT ![<<m, d>>] = l]
        /\ mine' = mine \/ \E l : mine' = [mine EXCEPT ![<<m, d>>] = l]
    BY <1>3 DEF ConnectPeer, Dial, MarkDialing, CreateOfferClose, CreateOfferEnter,
                CreateOfferFinish, SendOffer
  <2>2. dial'[<<n, c>>] = dial[<<n, c>>] /\ mine'[<<n, c>>] = mine[<<n, c>>]
    BY <1>1, <1>3, <2>1 DEF MemoryTypes
  <2> QED  BY <2>2
<1>4. CASE ConnectPeer(n, c) \/ MarkDialing(n, c) \/ CreateOfferClose(n, c) \/ SendOffer(n, c)
  <2>1. dial'[<<n, c>>] \notin {"made", "send"} /\ dial[<<n, c>>] # "made"
    BY <1>1, <1>4 DEF ConnectPeer, MarkDialing, CreateOfferClose, SendOffer, MemoryTypes
  <2> QED  BY <2>1
<1>5. CASE CreateOfferEnter(n, c)
  <2>1. CASE Unused # {} /\ Enter(n, "offer") /\ mine' = [mine EXCEPT ![<<n, c>>] = Fresh]
             /\ dial' = [dial EXCEPT ![<<n, c>>] = "made"]
    <3>1. dial'[<<n, c>>] = "made" /\ mine'[<<n, c>>] = Fresh
      BY <1>1, <2>1 DEF MemoryTypes
    <3>2. Made(n, Fresh, "offer")  BY <2>1, NewMade
    <3> QED  BY <1>5, <3>1, <3>2 DEF CreateOfferEnter
  <2>2. CASE dial' = [dial EXCEPT ![<<n, c>>] = "idle"]
    BY <1>1, <1>5, <2>2 DEF CreateOfferEnter, MemoryTypes
  <2> QED  BY <1>5, <2>1, <2>2 DEF CreateOfferEnter
<1>6. CASE CreateOfferFinish(n, c)
  <2> DEFINE j == mine[<<n, c>>]
  <2>0. dial[<<n, c>>] = "made" /\ j \in Conn  BY <1>6 DEF CreateOfferFinish, InHand
  <2>1. CASE st[j] = "closed" /\ Close(n) /\ dial' = [dial EXCEPT ![<<n, c>>] = "idle"]
    <3>1. st'[j] = "closed"  BY <1>1, <2>0, <2>1 DEF Close, PionTypes
    <3>2. dial'[<<n, c>>] = "idle"  BY <1>1, <2>1 DEF MemoryTypes
    <3> QED  BY <3>1, <3>2
  <2>2. CASE dial' = [dial EXCEPT ![<<n, c>>] = "send"] /\ UNCHANGED mine
             /\ st' = [st EXCEPT ![j] = "live"]
    <3>1. st'[j] = "live"  BY <1>1, <2>0, <2>2 DEF PionTypes
    <3>2. dial'[<<n, c>>] = "send"  BY <1>1, <2>2 DEF MemoryTypes
    <3> QED  BY <2>0, <2>2, <3>1, <3>2
  <2> QED  BY <1>6, <2>1, <2>2 DEF CreateOfferFinish
<1> HIDE DEF Good
<1>7. ASSUME NEW m \in Node, NEW d \in Caller, ConnectPeer(m, d) \/ Dial(m, d) PROVE Good
  <2>1. CASE <<m, d>> # <<n, c>>  BY <1>3, <1>7, <2>1
  <2>2. CASE m = n /\ d = c  BY <1>4, <1>5, <1>6, <1>7, <2>2 DEF Dial
  <2> QED  BY <2>1, <2>2
<1> QED
  BY <1>2, <1>7
  DEF Next, vars, nodeVars, SignalLoop, DisconnectPeer, TakeOffer, HandleOfferClose,
      HandleOfferEnter, HandleOfferAnswer, TakeAnswer, Pion, Open, NoCounterpart, Disconnect,
      GiveUp, Report, OnDataChannel, OnConnectionStateChange

\* The same of the signal loop.
LEMMA LoopStep ==
    ASSUME TypeOK, [Next]_vars, InHand, NEW n \in Node
    PROVE  \/ hand'[n] = hand[n] /\ made'[n] = made[n] /\ sig'[n] = sig[n]
           \/ /\ hand'[n] # "made"
              /\ hand[n] # "made" \/ st'[made[n]] # "new"
           \/ /\ hand[n] = "removed" /\ hand'[n] = "made" /\ sig'[n] = sig[n]
              /\ Made(n, made'[n], "answer")
<1> DEFINE Good ==
           \/ hand'[n] = hand[n] /\ made'[n] = made[n] /\ sig'[n] = sig[n]
           \/ /\ hand'[n] # "made"
              /\ hand[n] # "made" \/ st'[made[n]] # "new"
           \/ /\ hand[n] = "removed" /\ hand'[n] = "made" /\ sig'[n] = sig[n]
              /\ Made(n, made'[n], "answer")
<1> SUFFICES Good  OBVIOUS
<1>1. MemoryTypes /\ PionTypes  BY TypeParts
<1>2. CASE UNCHANGED <<hand, made, sig>>  BY <1>2
<1>3. ASSUME NEW m \in Node, m # n, SignalLoop(m) PROVE Good
  BY <1>1, <1>3
  DEF SignalLoop, TakeOffer, HandleOfferClose, HandleOfferEnter, HandleOfferAnswer,
      TakeAnswer, nodeVars, MemoryTypes
<1>4. CASE TakeOffer(n) \/ HandleOfferClose(n)
  BY <1>1, <1>4 DEF TakeOffer, HandleOfferClose, MemoryTypes
<1>5. CASE HandleOfferEnter(n)
  <2>1. CASE Unused # {} /\ Enter(n, "answer") /\ made' = [made EXCEPT ![n] = Fresh]
             /\ hand' = [hand EXCEPT ![n] = "made"] /\ UNCHANGED sig
    <3>1. hand'[n] = "made" /\ made'[n] = Fresh
      BY <1>1, <2>1 DEF MemoryTypes
    <3>2. Made(n, Fresh, "answer")  BY <2>1, NewMade
    <3> QED  BY <1>5, <2>1, <3>1, <3>2 DEF HandleOfferEnter
  <2>2. CASE hand' = [hand EXCEPT ![n] = "idle"]
    BY <1>1, <1>5, <2>2 DEF HandleOfferEnter, MemoryTypes
  <2> QED  BY <1>5, <2>1, <2>2 DEF HandleOfferEnter
<1>6. CASE HandleOfferAnswer(n)
  <2>0. hand[n] = "made" /\ made[n] \in Conn /\ hand'[n] = "idle"
    BY <1>1, <1>6 DEF HandleOfferAnswer, InHand, MemoryTypes
  <2>1. CASE st[made[n]] = "closed" /\ Close(n)
    <3>1. st'[made[n]] = "closed"  BY <1>1, <2>0, <2>1 DEF Close, PionTypes
    <3> QED  BY <2>0, <3>1
  <2>2. CASE st' = [st EXCEPT ![made[n]] = "live"]
    <3>1. st'[made[n]] = "live"  BY <1>1, <2>0, <2>2 DEF PionTypes
    <3> QED  BY <2>0, <3>1
  <2> QED  BY <1>6, <2>1, <2>2 DEF HandleOfferAnswer
<1> HIDE DEF Good
<1>7. ASSUME NEW m \in Node, SignalLoop(m) PROVE Good
  BY <1>2, <1>3, <1>4, <1>5, <1>6, <1>7 DEF SignalLoop, TakeAnswer, nodeVars
<1> QED
  BY ZenonT(30), <1>2, <1>7
  DEF Next, vars, nodeVars, Dial, ConnectPeer, MarkDialing, CreateOfferClose,
      CreateOfferEnter, CreateOfferFinish, SendOffer, DisconnectPeer, Pion, Open,
      NoCounterpart, Disconnect, GiveUp, Report, OnDataChannel, OnConnectionStateChange

LEMMA HandStep ==
    TypeOK /\ OneDials /\ EntryOfNode /\ InHand /\ CleanEntries /\ [Next]_vars => InHand'
<1> SUFFICES ASSUME TypeOK, OneDials, EntryOfNode, InHand, CleanEntries, [Next]_vars,
                    NEW n \in Node
             PROVE  /\ \A c \in Caller : dial'[<<n, c>>] \in {"made", "send"} =>
                         /\ mine'[<<n, c>>] \in Conn
                         /\ owner'[mine'[<<n, c>>]] = n /\ role'[mine'[<<n, c>>]] = "offer"
                         /\ st'[mine'[<<n, c>>]] # "none"
                         /\ dial'[<<n, c>>] = "made" => st'[mine'[<<n, c>>]] \in {"new", "closed"}
                    /\ hand'[n] = "made" =>
                         /\ made'[n] \in Conn
                         /\ owner'[made'[n]] = n /\ role'[made'[n]] = "answer"
                         /\ st'[made'[n]] \in {"new", "closed"}
  BY DEF InHand
\* Nobody else starts a connection.
<1>1. ASSUME NEW c \in Caller, dial[<<n, c>>] = "made", dial'[<<n, c>>] = "made"
      PROVE  st'[mine[<<n, c>>]] \in {"new", "closed"}
  <2> DEFINE i == mine[<<n, c>>]
  <2>1. i \in Conn /\ owner[i] = n /\ st[i] \in {"new", "closed"}  BY <1>1 DEF InHand
  <2>2. ~Started(i)
    <3>1. \A d \in Caller : dial[<<n, d>>] = "made" => c = d
      BY <1>1, OneHolder DEF Locked
    <3>2. hand[n] # "made"  BY <1>1, OneHolder DEF Locked
    <3> QED  BY <1>1, <2>1, <3>1, <3>2 DEF Started
  <2> QED  BY <2>1, <2>2, StateStep DEF Entered, Closed, Opened
<1>2. ASSUME hand[n] = "made", hand'[n] = "made"
      PROVE  st'[made[n]] \in {"new", "closed"}
  <2> DEFINE i == made[n]
  <2>1. i \in Conn /\ owner[i] = n /\ st[i] \in {"new", "closed"}  BY <1>2 DEF InHand
  <2>2. ~Started(i)
    <3>1. \A d \in Caller : dial[<<n, d>>] # "made"
      BY <1>2, OneHolder DEF Locked
    <3> QED  BY <1>2, <2>1, <3>1 DEF Started
  <2> QED  BY <2>1, <2>2, StateStep DEF Entered, Closed, Opened
<1>3. ASSUME NEW c \in Caller, dial'[<<n, c>>] \in {"made", "send"}
      PROVE  /\ mine'[<<n, c>>] \in Conn
             /\ owner'[mine'[<<n, c>>]] = n /\ role'[mine'[<<n, c>>]] = "offer"
             /\ st'[mine'[<<n, c>>]] # "none"
             /\ dial'[<<n, c>>] = "made" => st'[mine'[<<n, c>>]] \in {"new", "closed"}
  <2>1. CASE dial[<<n, c>>] \in {"made", "send"} /\ mine'[<<n, c>>] = mine[<<n, c>>]
             /\ (dial'[<<n, c>>] = "made" => dial[<<n, c>>] = "made")
    BY <1>1, <1>3, <2>1, UsedStays DEF InHand
  <2>2. CASE Made(n, mine'[<<n, c>>], "offer")  BY <2>2 DEF Made
  <2> QED  BY <1>3, <2>1, <2>2, CallerStep
<1>4. ASSUME hand'[n] = "made"
      PROVE  /\ made'[n] \in Conn
             /\ owner'[made'[n]] = n /\ role'[made'[n]] = "answer"
             /\ st'[made'[n]] \in {"new", "closed"}
  <2>1. CASE hand[n] = "made" /\ made'[n] = made[n]
    BY <1>2, <1>4, <2>1, UsedStays DEF InHand
  <2>2. CASE Made(n, made'[n], "answer")  BY <2>2 DEF Made
  <2> QED  BY <1>4, <2>1, <2>2, LoopStep
<1> QED  BY <1>3, <1>4

LEMMA HeldStep ==
    TypeOK /\ OneDials /\ EntryOfNode /\ InHand /\ NewIsHeld /\ CleanEntries /\ [Next]_vars
    => NewIsHeld'
<1> SUFFICES ASSUME TypeOK, OneDials, EntryOfNode, InHand, NewIsHeld, CleanEntries,
                    [Next]_vars, NEW i \in Conn, st'[i] = "new"
             PROVE  HeldNext(owner'[i], i)
  BY DEF NewIsHeld, HeldNext
<1>1. CASE Entered(i)  BY <1>1 DEF Entered
<1>2. CASE st[i] = "new"
  <2>1. owner'[i] = owner[i] /\ owner[i] \in Node
    BY <1>2, UsedStays DEF TypeOK
  <2>2. ASSUME NEW c \in Caller, dial[<<owner[i], c>>] = "made", mine[<<owner[i], c>>] = i
        PROVE  dial'[<<owner[i], c>>] = "made" /\ mine'[<<owner[i], c>>] = i
    BY <2>1, <2>2, CallerStep DEF Made
  <2>3. ASSUME hand[owner[i]] = "made", made[owner[i]] = i
        PROVE  hand'[owner[i]] = "made" /\ made'[owner[i]] = i
    BY <2>1, <2>3, LoopStep DEF Made
  <2> QED  BY <1>2, <2>1, <2>2, <2>3 DEF NewIsHeld, HeldNext
<1> QED
  BY <1>1, <1>2, StateStep DEF Closed, Started, Opened
-----------------------------------------------------------------------------
(* Entries, channels and callbacks.                                        *)

LEMMA CleanStays ==
    ASSUME TypeOK, [Next]_vars, clean' = "yes"
    PROVE  clean = "yes"
<1>1. ASSUME NEW n \in Node, NEW c \in Caller, ConnectPeer(n, c) \/ Dial(n, c)
      PROVE  clean' \in {clean, "no"}
  BY <1>1 DEF ConnectPeer, Dial, MarkDialing, CreateOfferClose, CreateOfferEnter,
              CreateOfferFinish, SendOffer
<1>2. ASSUME NEW n \in Node, DisconnectPeer(n) \/ SignalLoop(n)
      PROVE  clean' \in {clean, "no"}
  BY <1>2 DEF DisconnectPeer, SignalLoop, TakeOffer, HandleOfferClose, HandleOfferEnter,
              HandleOfferAnswer, TakeAnswer
<1>3. ASSUME NEW i \in Conn, Pion(i) \/ Disconnect(i) \/ GiveUp(i)
      PROVE  clean' \in {clean, "no"}
  BY <1>3 DEF Pion, Open, NoCounterpart, Disconnect, GiveUp, Report, OnDataChannel,
              OnConnectionStateChange
<1> QED  BY <1>1, <1>2, <1>3 DEF Next, vars

\* What pion has reported is not taken back, and is a failure.
LEMMA ReportStep ==
    ASSUME TypeOK, [Next]_vars, NEW i \in Conn
    PROVE  report'[i] = report[i] \/ (report'[i] # "none" /\ clean' = "no")
<1>1. PionTypes  BY TypeParts
<1>2. CASE UNCHANGED report  BY <1>2
<1>3. ASSUME NEW j \in Conn, NoCounterpart(j) \/ Disconnect(j) \/ GiveUp(j)
      PROVE  report'[i] = report[i] \/ (report'[i] # "none" /\ clean' = "no")
  BY <1>1, <1>3 DEF NoCounterpart, Disconnect, GiveUp, Report, PionTypes
<1>4. ASSUME NEW n \in Node, NEW c \in Caller, ConnectPeer(n, c) \/ Dial(n, c)
      PROVE  UNCHANGED report
  BY <1>4 DEF ConnectPeer, Dial, MarkDialing, CreateOfferClose, CreateOfferEnter,
              CreateOfferFinish, SendOffer, Enter, pionVars
<1>5. ASSUME NEW n \in Node, DisconnectPeer(n) \/ SignalLoop(n)
      PROVE  UNCHANGED report
  BY <1>5 DEF DisconnectPeer, SignalLoop, TakeOffer, HandleOfferClose, HandleOfferEnter,
              HandleOfferAnswer, TakeAnswer, Enter, pionVars
<1>6. ASSUME NEW j \in Conn, Open(j) \/ OnDataChannel(j) \/ OnConnectionStateChange(j)
      PROVE  UNCHANGED report
  BY <1>6 DEF Open, OnDataChannel, OnConnectionStateChange
<1> QED
  BY <1>2, <1>3, <1>4, <1>5, <1>6 DEF Next, vars, pionVars, Pion

ToldNext(i) == st'[i] = "closed" \/ report'[i] # "none"

LEMMA ToldStays ==
    ASSUME TypeOK, EntryOfNode, InHand, CleanEntries, [Next]_vars, NEW i \in Conn, Told(i)
    PROVE  ToldNext(i)
<1>1. CASE report[i] # "none"  BY <1>1, ReportStep DEF ToldNext
<1>2. CASE st[i] = "closed"
  BY <1>2, StateStep DEF Entered, Closed, Started, Opened, ToldNext
<1> QED  BY <1>1, <1>2 DEF Told

LEMMA EventsStep ==
    TypeOK /\ EntryOfNode /\ InHand /\ CleanEntries /\ EventsTell /\ [Next]_vars
    => EventsTell'
<1> SUFFICES ASSUME TypeOK, EntryOfNode, InHand, CleanEntries, EventsTell, [Next]_vars,
                    NEW i \in Conn
             PROVE  /\ <<"state", i>> \in events' => ToldNext(i)
                    /\ <<"channel", i>> \in events' => st'[i] # "none"
                    /\ clean' = "yes" => report'[i] = "none"
  BY DEF EventsTell, Told, ToldNext
<1> DEFINE Good == /\ <<"state", i>> \in events' => <<"state", i>> \in events \/ ToldNext(i)
                   /\ <<"channel", i>> \in events' =>
                        <<"channel", i>> \in events \/ st'[i] # "none"
<1>0. MemoryTypes /\ PionTypes  BY TypeParts
<1>1. Told(i) => ToldNext(i)  BY ToldStays
<1>2. Good
  <2>1. ASSUME NEW n \in Node, Close(n) PROVE Good
    <3>1. CASE conn[n] = 0  BY <2>1, <3>1 DEF Close
    <3>2. CASE conn[n] # 0
      <4>1. events' = events \cup {<<"state", conn[n]>>} /\ st' = [st EXCEPT ![conn[n]] = "closed"]
        BY <2>1, <3>2 DEF Close
      <4>2. i = conn[n] => st'[i] = "closed"  BY <1>0, <4>1 DEF PionTypes
      <4>3. <<"state", i>> = <<"state", conn[n]>> => i = conn[n]  OBVIOUS
      <4>4. <<"channel", i>> # <<"state", conn[n]>>  OBVIOUS
      <4> QED  BY <4>1, <4>2, <4>3, <4>4 DEF ToldNext
    <3> QED  BY <3>1, <3>2
  <2>2. CASE events' \subseteq events  BY <2>2
  <2>3. ASSUME NEW n \in Node, NEW c \in Caller, ConnectPeer(n, c) \/ Dial(n, c) PROVE Good
    BY <2>1, <2>2, <2>3 DEF ConnectPeer, Dial, MarkDialing, CreateOfferClose,
       CreateOfferEnter, CreateOfferFinish, SendOffer, Enter, pionVars
  <2>4. ASSUME NEW n \in Node, DisconnectPeer(n) \/ SignalLoop(n) PROVE Good
    BY <2>1, <2>2, <2>4 DEF DisconnectPeer, SignalLoop, TakeOffer, HandleOfferClose,
       HandleOfferEnter, HandleOfferAnswer, TakeAnswer, Enter, pionVars
  <2>5. ASSUME NEW j \in Conn, Open(j) PROVE Good
    BY <1>0, <2>5 DEF Open, PionTypes
  <2>6. ASSUME NEW j \in Conn, NEW state \in {"disconnected", "failed"}, Report(j, state)
        PROVE  Good
    BY <1>0, <2>6 DEF Report, PionTypes, ToldNext
  <2>7. ASSUME NEW j \in Conn, OnDataChannel(j) \/ OnConnectionStateChange(j)
        PROVE  Good
    BY <2>2, <2>7 DEF OnDataChannel, OnConnectionStateChange
  <2>8. CASE UNCHANGED vars  BY <2>2, <2>8 DEF vars, pionVars
  <2> HIDE DEF Good
  <2> QED
    BY <2>3, <2>4, <2>5, <2>6, <2>7, <2>8 DEF Next, Pion, NoCounterpart, Disconnect, GiveUp
<1>3. clean' = "yes" => report'[i] = "none"
  BY ReportStep, CleanStays DEF EventsTell
<1> QED  BY <1>1, <1>2, <1>3, UsedStays DEF EventsTell, Told, ToldNext

\* What a step does to the entries of a node: none goes but one that is closed or
\* has failed, and one comes only where there was none.
LEMMA EntryChange ==
    ASSUME TypeOK, OneDials, EntryOfNode, InHand, EventsTell, CleanEntries, [Next]_vars,
           NEW n \in Node
    PROVE  \/ conn'[n] = conn[n] /\ chan'[n] \in {chan[n], 0, conn[n]}
           \/ /\ conn[n] # 0 /\ conn'[n] = 0 /\ chan'[n] = 0
              /\ ToldNext(conn[n])
              /\ \/ clean' = "no"
                 \/ hand[n] = "offer" /\ hand'[n] = "removed"
                 \/ Told(conn[n])
           \/ /\ conn[n] = 0 /\ chan'[n] = chan[n]
              /\ \/ /\ Made(n, conn'[n], "offer")
                    /\ \E c \in Caller : /\ dial[<<n, c>>] = "removed"
                                         /\ dial'[<<n, c>>] = "made"
                                         /\ mine'[<<n, c>>] = conn'[n]
                 \/ /\ Made(n, conn'[n], "answer")
                    /\ hand[n] = "removed" /\ hand'[n] = "made" /\ made'[n] = conn'[n]
<1> DEFINE Same == conn'[n] = conn[n] /\ chan'[n] \in {chan[n], 0, conn[n]}
           Goes == /\ conn[n] # 0 /\ conn'[n] = 0 /\ chan'[n] = 0
                   /\ ToldNext(conn[n])
                   /\ \/ clean' = "no"
                      \/ hand[n] = "offer" /\ hand'[n] = "removed"
                      \/ Told(conn[n])
           Comes == /\ conn[n] = 0 /\ chan'[n] = chan[n]
                    /\ \/ /\ Made(n, conn'[n], "offer")
                          /\ \E c \in Caller : /\ dial[<<n, c>>] = "removed"
                                               /\ dial'[<<n, c>>] = "made"
                                               /\ mine'[<<n, c>>] = conn'[n]
                       \/ /\ Made(n, conn'[n], "answer")
                          /\ hand[n] = "removed" /\ hand'[n] = "made" /\ made'[n] = conn'[n]
           Good == Same \/ Goes \/ Comes
<1> SUFFICES Good  OBVIOUS
<1>1. MemoryTypes /\ PionTypes  BY TypeParts
<1>2. conn[n] = 0 \/ conn[n] \in Conn  BY <1>1 DEF MemoryTypes, Conn
<1>3. CASE UNCHANGED <<conn, chan>>  BY <1>3
<1>4. ASSUME NEW m \in Node, Close(m),
             \/ conn[m] = 0
             \/ clean' = "no"
             \/ hand[m] = "offer" /\ hand'[m] = "removed"
      PROVE  Good
  <2>1. CASE m # n  BY <1>1, <1>4, <2>1 DEF Close, MemoryTypes
  <2>2. CASE m = n /\ conn[n] = 0  BY <1>1, <1>4, <2>2 DEF Close, MemoryTypes
  <2>3. CASE m = n /\ conn[n] # 0
    <3>1. conn'[n] = 0 /\ chan'[n] = 0 /\ st'[conn[n]] = "closed"
      BY <1>1, <1>2, <1>4, <2>3 DEF Close, MemoryTypes, PionTypes
    <3> QED  BY <1>4, <2>3, <3>1 DEF ToldNext
  <2> QED  BY <2>1, <2>2, <2>3
<1>5. ASSUME NEW m \in Node, NEW r, Enter(m, r), Unused # {}
      PROVE  /\ Made(m, Fresh, r) /\ conn'[m] = Fresh /\ UNCHANGED chan
             /\ m # n => Same
  <2>1. Made(m, Fresh, r)  BY <1>5, NewMade
  <2> QED  BY <1>1, <1>5, <2>1 DEF Enter, MemoryTypes
<1>6. ASSUME NEW m \in Node, NEW c \in Caller, CreateOfferClose(m, c) PROVE Good
  <2>1. Close(m) /\ (conn[m] = 0 \/ clean' = "no")
    BY <1>6 DEF CreateOfferClose, HasConnection
  <2> HIDE DEF Good
  <2> QED  BY <1>4, <2>1
<1>7. ASSUME NEW m \in Node, NEW c \in Caller, CreateOfferEnter(m, c) PROVE Good
  <2>1. CASE Unused # {} /\ Enter(m, "offer") /\ mine' = [mine EXCEPT ![<<m, c>>] = Fresh]
             /\ dial' = [dial EXCEPT ![<<m, c>>] = "made"]
    <3>1. dial'[<<m, c>>] = "made" /\ mine'[<<m, c>>] = Fresh /\ dial[<<m, c>>] = "removed"
      BY <1>1, <1>7, <2>1 DEF MemoryTypes, CreateOfferEnter
    <3>2. conn[m] = 0  BY <3>1 DEF EntryOfNode
    <3>3. Made(m, Fresh, "offer") /\ conn'[m] = Fresh /\ UNCHANGED chan /\ (m # n => Same)
      BY <1>5, <2>1
    <3>4. m = n => Comes  BY <3>1, <3>2, <3>3
    <3> QED  BY <3>3, <3>4
  <2> HIDE DEF Good
  <2> QED  BY <1>3, <1>7, <2>1 DEF CreateOfferEnter
<1>8. ASSUME NEW m \in Node, NEW c \in Caller, CreateOfferFinish(m, c) PROVE Good
  <2> DEFINE j == mine[<<m, c>>]
  <2>1. dial[<<m, c>>] = "made"  BY <1>8 DEF CreateOfferFinish
  <2>2. CASE st[j] = "closed" /\ Close(m)
    <3>1. clean' = "no"
      BY <1>8, <2>1, <2>2 DEF CreateOfferFinish, CleanEntries, TypeOK
    <3> HIDE DEF Good
    <3> QED  BY <1>4, <2>2, <3>1
  <2>3. CASE conn' = conn /\ chan' = IF conn[m] = j THEN [chan EXCEPT ![m] = j] ELSE chan
    BY <1>1, <2>3 DEF MemoryTypes
  <2> QED  BY <1>8, <2>2, <2>3 DEF CreateOfferFinish
<1>9. ASSUME NEW m \in Node, DisconnectPeer(m) PROVE Good
  <2> HIDE DEF Good
  <2> QED  BY <1>4, <1>9 DEF DisconnectPeer
<1>10. ASSUME NEW m \in Node, HandleOfferClose(m) PROVE Good
  <2>1. Close(m) /\ hand[m] = "offer" /\ hand'[m] = "removed"
    BY <1>1, <1>10 DEF HandleOfferClose, MemoryTypes
  <2> HIDE DEF Good
  <2> QED  BY <1>4, <2>1
<1>11. ASSUME NEW m \in Node, HandleOfferEnter(m) PROVE Good
  <2>1. CASE Unused # {} /\ Enter(m, "answer") /\ made' = [made EXCEPT ![m] = Fresh]
             /\ hand' = [hand EXCEPT ![m] = "made"]
    <3>1. hand'[m] = "made" /\ made'[m] = Fresh /\ hand[m] = "removed"
      BY <1>1, <1>11, <2>1 DEF MemoryTypes, HandleOfferEnter
    <3>2. conn[m] = 0  BY <3>1 DEF EntryOfNode
    <3>3. Made(m, Fresh, "answer") /\ conn'[m] = Fresh /\ UNCHANGED chan /\ (m # n => Same)
      BY <1>5, <2>1
    <3>4. m = n => Comes  BY <3>1, <3>2, <3>3
    <3> QED  BY <3>3, <3>4
  <2> HIDE DEF Good
  <2> QED  BY <1>3, <1>11, <2>1 DEF HandleOfferEnter
<1>12. ASSUME NEW m \in Node, HandleOfferAnswer(m) PROVE Good
  <2>1. hand[m] = "made"  BY <1>12 DEF HandleOfferAnswer
  <2>2. CASE st[made[m]] = "closed" /\ Close(m) /\ clean' = clean
    <3>1. clean' = "no"  BY <2>1, <2>2 DEF CleanEntries, TypeOK
    <3> HIDE DEF Good
    <3> QED  BY <1>4, <2>2, <3>1
  <2> HIDE DEF Good
  <2> QED  BY <1>3, <1>12, <2>2 DEF HandleOfferAnswer
<1>13. ASSUME NEW i \in Conn, OnDataChannel(i) PROVE Good
  BY <1>1, <1>13 DEF OnDataChannel, MemoryTypes, PionTypes
<1>14. ASSUME NEW i \in Conn, OnConnectionStateChange(i) PROVE Good
  <2>1. CASE conn[owner[i]] = i /\ owner[i] = n
    <3>1. Told(i)  BY <1>14 DEF OnConnectionStateChange, EventsTell
    <3>2. ToldNext(i)  BY <3>1, ToldStays
    <3>3. i # 0 /\ conn'[n] = 0 /\ chan'[n] = 0
      BY <1>1, <1>14, <2>1 DEF OnConnectionStateChange, MemoryTypes, Conn
    <3> QED  BY <2>1, <3>1, <3>2, <3>3
  <2>2. CASE ~(conn[owner[i]] = i /\ owner[i] = n)
    BY <1>1, <1>14, <2>2 DEF OnConnectionStateChange, MemoryTypes, PionTypes
  <2> QED  BY <2>1, <2>2
<1> HIDE DEF Good
<1> QED
  BY <1>3, <1>6, <1>7, <1>8, <1>9, <1>10, <1>11, <1>12, <1>13, <1>14
  DEF Next, vars, nodeVars, Dial, SignalLoop, ConnectPeer, MarkDialing, SendOffer,
      TakeOffer, TakeAnswer, Pion, Open, NoCounterpart, Disconnect, GiveUp, Report

LEMMA ChannelStep ==
    TypeOK /\ OneDials /\ EntryOfNode /\ InHand /\ EventsTell /\ CleanEntries
    /\ ChannelIsCurrent /\ [Next]_vars => ChannelIsCurrent'
BY EntryChange DEF ChannelIsCurrent

LEMMA StrayStep ==
    TypeOK /\ OneDials /\ EntryOfNode /\ InHand /\ EventsTell /\ CleanEntries
    /\ NoStrayConnection /\ [Next]_vars => NoStrayConnection'
<1> SUFFICES ASSUME TypeOK, OneDials, EntryOfNode, InHand, EventsTell, CleanEntries,
                    NoStrayConnection, [Next]_vars,
                    NEW i \in Conn, st'[i] \in {"new", "live", "up"}, report'[i] = "none"
             PROVE  conn'[owner'[i]] = i
  BY DEF NoStrayConnection
<1>1. CASE Entered(i)  BY <1>1 DEF Entered
<1>2. CASE st[i] \in {"new", "live", "up"}
  <2>0. report[i] = "none"  BY ReportStep
  <2>1. owner'[i] = owner[i] /\ owner[i] \in Node /\ conn[owner[i]] = i
    BY <1>2, <2>0, UsedStays DEF NoStrayConnection, TypeOK
  <2>2. i # 0 /\ ~ToldNext(i)  BY DEF Conn, ToldNext
  <2> QED  BY <2>1, <2>2, EntryChange
<1> QED  BY <1>1, <1>2, StateStep DEF Closed, Started, Opened
-----------------------------------------------------------------------------
(* Descriptions on their way.                                              *)

\* What is sent: the offer of a call, or the answer of the signal loop.
LEMMA NetStep ==
    ASSUME TypeOK, InHand, Descriptions, [Next]_vars, NEW s \in net', s \notin net
    PROVE  \/ \E n \in Node, c \in Caller :
                /\ s.to = Other(n) /\ s.type = "offer" /\ s.desc = mine[<<n, c>>]
                /\ dial[<<n, c>>] = "send" /\ dial'[<<n, c>>] = "idle"
                /\ UNCHANGED <<sig, remote>>
                /\ clean' = "yes" => net' = net \cup {s} /\ clean = "yes"
           \/ \E n \in Node :
                /\ s.to = Other(n) /\ s.type = "answer" /\ s.desc = made[n]
                /\ hand[n] = "made"
<1> DEFINE Good ==
           \/ \E n \in Node, c \in Caller :
                /\ s.to = Other(n) /\ s.type = "offer" /\ s.desc = mine[<<n, c>>]
                /\ dial[<<n, c>>] = "send" /\ dial'[<<n, c>>] = "idle"
                /\ UNCHANGED <<sig, remote>>
                /\ clean' = "yes" => net' = net \cup {s} /\ clean = "yes"
           \/ \E n \in Node :
                /\ s.to = Other(n) /\ s.type = "answer" /\ s.desc = made[n]
                /\ hand[n] = "made"
<1> SUFFICES Good  OBVIOUS
<1>1. MemoryTypes /\ PionTypes  BY TypeParts
<1>2. CASE net' \subseteq net  BY <1>2
<1>3. ASSUME NEW n \in Node, NEW c \in Caller, SendOffer(n, c) PROVE Good
  <2>1. dial[<<n, c>>] = "send" /\ mine[<<n, c>>] \in Conn /\ UNCHANGED <<sig, remote>>
        /\ dial'[<<n, c>>] = "idle"
    BY <1>1, <1>3 DEF SendOffer, InHand, pionVars, MemoryTypes
  <2>2. Send(n, "offer", mine[<<n, c>>], 0)  BY <1>3 DEF SendOffer
  <2>3. 0 \in 0..MaxConns  BY SignalingAssumption
  <2>4. /\ s.to = Other(n) /\ s.type = "offer" /\ s.desc = mine[<<n, c>>]
        /\ faults' = faults => \E t \in net' : net' = net \cup {t}
    BY <2>1, <2>2, <2>3, Sent
  <2>5. clean' = "yes" => faults' = faults /\ clean = "yes"  BY <1>3 DEF SendOffer
  <2>6. clean' = "yes" => net' = net \cup {s} /\ clean = "yes"  BY <2>4, <2>5
  <2> QED  BY <2>1, <2>4, <2>6
<1>4. ASSUME NEW n \in Node, HandleOfferAnswer(n) PROVE Good
  <2>1. hand[n] = "made" /\ made[n] \in Conn /\ sig[n] \in Signal
    BY <1>4 DEF HandleOfferAnswer, InHand, Descriptions
  <2>2. net' = net \/ Send(n, "answer", made[n], sig[n].desc)
    BY <1>4 DEF HandleOfferAnswer
  <2>3. sig[n].desc \in 0..MaxConns  BY <2>1 DEF Signal, Conn
  <2>4. s.to = Other(n) /\ s.type = "answer" /\ s.desc = made[n]
    BY <2>1, <2>2, <2>3, Sent
  <2> QED  BY <2>1, <2>4
<1> HIDE DEF Good
<1> QED
  BY ZenonT(30), <1>2, <1>3, <1>4
  DEF Next, vars, Dial, SignalLoop, ConnectPeer, MarkDialing, CreateOfferClose,
      CreateOfferEnter, CreateOfferFinish, DisconnectPeer, TakeOffer, HandleOfferClose,
      HandleOfferEnter, TakeAnswer, Pion, Open, NoCounterpart, Disconnect, GiveUp, Report,
      OnDataChannel, OnConnectionStateChange

\* The offer the signal loop has.
LEMMA SigStep ==
    ASSUME TypeOK, [Next]_vars, NEW n \in Node
    PROVE  \/ hand'[n] = hand[n] /\ sig'[n] = sig[n]
           \/ hand[n] # "idle" /\ hand'[n] # "idle" /\ sig'[n] = sig[n]
           \/ hand'[n] = "idle" /\ sig'[n] = [desc |-> 0]
           \/ \E s \in net : /\ s.to = n /\ s.type = "offer" /\ net' = net \ {s}
                             /\ hand[n] = "idle" /\ hand'[n] = "offer" /\ sig'[n] = s
<1>1. MemoryTypes  BY TypeParts
<1>2. CASE UNCHANGED <<hand, sig>>  BY <1>2
<1>3. ASSUME NEW m \in Node, m # n, SignalLoop(m) PROVE hand'[n] = hand[n] /\ sig'[n] = sig[n]
  BY <1>1, <1>3
  DEF SignalLoop, TakeOffer, HandleOfferClose, HandleOfferEnter, HandleOfferAnswer,
      TakeAnswer, nodeVars, MemoryTypes
<1>4. CASE TakeOffer(n)  BY <1>1, <1>4 DEF TakeOffer, MemoryTypes
<1>5. CASE HandleOfferClose(n)
  BY <1>1, <1>5 DEF HandleOfferClose, MemoryTypes
<1>6. CASE HandleOfferEnter(n)
  BY <1>1, <1>6 DEF HandleOfferEnter, MemoryTypes
<1>7. CASE HandleOfferAnswer(n)
  BY <1>1, <1>7 DEF HandleOfferAnswer, MemoryTypes
<1> QED
  BY ZenonT(30), <1>2, <1>3, <1>4, <1>5, <1>6, <1>7
  DEF Next, vars, nodeVars, Dial, ConnectPeer, MarkDialing, CreateOfferClose,
      CreateOfferEnter, CreateOfferFinish, SendOffer, DisconnectPeer, SignalLoop, TakeAnswer,
      Pion, Open, NoCounterpart, Disconnect, GiveUp, Report, OnDataChannel,
      OnConnectionStateChange

\* A connection takes one description: an answer that comes when it is the entry, or
\* the offer it was made for.
LEMMA RemoteStep ==
    ASSUME TypeOK, EntryOfNode, InHand, Descriptions, [Next]_vars, NEW i \in Conn
    PROVE  /\ \/ remote'[i] = remote[i]
              \/ /\ st[i] = "live" /\ remote[i] = 0 /\ role[i] = "offer"
                 /\ \E s \in net : s.to = owner[i] /\ s.type = "answer" /\ remote'[i] = s.desc
              \/ /\ st[i] = "new" /\ st'[i] = "live" /\ role[i] = "answer"
                 /\ hand[owner[i]] = "made" /\ remote'[i] = sig[owner[i]].desc
                 /\ hand'[owner[i]] = "idle" /\ sig'[owner[i]].desc = 0
                 /\ UNCHANGED dial
           /\ st[i] = "new" /\ st'[i] = "live" /\ role[i] = "answer" => remote'[i] # 0
<1> DEFINE Good ==
           /\ \/ remote'[i] = remote[i]
              \/ /\ st[i] = "live" /\ remote[i] = 0 /\ role[i] = "offer"
                 /\ \E s \in net : s.to = owner[i] /\ s.type = "answer" /\ remote'[i] = s.desc
              \/ /\ st[i] = "new" /\ st'[i] = "live" /\ role[i] = "answer"
                 /\ hand[owner[i]] = "made" /\ remote'[i] = sig[owner[i]].desc
                 /\ hand'[owner[i]] = "idle" /\ sig'[owner[i]].desc = 0
                 /\ UNCHANGED dial
           /\ st[i] = "new" /\ st'[i] = "live" /\ role[i] = "answer" => remote'[i] # 0
<1> SUFFICES Good  OBVIOUS
<1>1. MemoryTypes /\ PionTypes  BY TypeParts
<1>2. ASSUME UNCHANGED remote, ~(st[i] = "new" /\ st'[i] = "live" /\ role[i] = "answer")
      PROVE  Good
  BY <1>2
<1>3. ASSUME NEW n \in Node, Close(n), UNCHANGED remote PROVE Good
  BY <1>1, <1>3 DEF Close, PionTypes
<1>4. ASSUME NEW n \in Node, NEW r, Enter(n, r), Unused # {} PROVE Good
  BY <1>1, <1>4, FreshUnused DEF Enter, PionTypes
<1>5. ASSUME NEW n \in Node, TakeAnswer(n) PROVE Good
  <2>1. PICK s \in net : /\ s.to = n /\ s.type = "answer"
                         /\ \/ /\ st[conn[n]] = "live" /\ role[conn[n]] = "offer"
                               /\ remote[conn[n]] = 0 /\ conn[n] # 0
                               /\ remote' = [remote EXCEPT ![conn[n]] = s.desc]
                            \/ remote' = remote
    BY <1>5 DEF TakeAnswer, HasConnection
  <2>2. UNCHANGED st  BY <1>5 DEF TakeAnswer
  <2>3. conn[n] # 0 => owner[conn[n]] = n  BY DEF EntryOfNode
  <2> QED  BY <1>1, <2>1, <2>2, <2>3 DEF PionTypes
<1>6. ASSUME NEW n \in Node, HandleOfferAnswer(n) PROVE Good
  <2> DEFINE j == made[n]
  <2>1. /\ hand[n] = "made" /\ j \in Conn /\ owner[j] = n /\ role[j] = "answer"
        /\ st[j] \in {"new", "closed"} /\ sig[n].desc # 0
    BY <1>6 DEF HandleOfferAnswer, InHand, Descriptions, Signal, Conn
  <2>2. CASE Close(n) /\ UNCHANGED remote  BY <1>3, <2>2
  <2>3. CASE /\ st[j] # "closed" /\ st' = [st EXCEPT ![j] = "live"]
             /\ remote' = [remote EXCEPT ![j] = sig[n].desc]
    <3>1. hand'[n] = "idle" /\ sig'[n].desc = 0 /\ UNCHANGED dial
      BY <1>1, <1>6 DEF HandleOfferAnswer, MemoryTypes
    <3> QED  BY <1>1, <2>1, <2>3, <3>1 DEF PionTypes
  <2> QED  BY <1>6, <2>2, <2>3 DEF HandleOfferAnswer
<1>7. ASSUME NEW n \in Node, NEW c \in Caller, CreateOfferFinish(n, c) PROVE Good
  <2> DEFINE j == mine[<<n, c>>]
  <2>1. j \in Conn /\ role[j] = "offer" /\ UNCHANGED remote
    BY <1>7 DEF CreateOfferFinish, InHand
  <2>2. CASE Close(n)  BY <1>3, <2>1, <2>2
  <2>3. CASE st' = [st EXCEPT ![j] = "live"]  BY <1>1, <1>2, <2>1, <2>3 DEF PionTypes
  <2> QED  BY <1>7, <2>2, <2>3 DEF CreateOfferFinish
<1>8. ASSUME NEW j \in Conn, Pion(j) \/ Disconnect(j) \/ GiveUp(j) PROVE Good
  BY <1>1, <1>2, <1>8
  DEF Pion, Open, NoCounterpart, Disconnect, GiveUp, Report, OnDataChannel,
      OnConnectionStateChange, PionTypes
<1>9. CASE UNCHANGED <<st, remote>>  BY <1>2, <1>9
<1> HIDE DEF Good
<1>10. ASSUME NEW n \in Node, NEW c \in Caller, ConnectPeer(n, c) \/ Dial(n, c) PROVE Good
  BY <1>3, <1>4, <1>7, <1>9, <1>10
  DEF ConnectPeer, Dial, MarkDialing, CreateOfferClose, CreateOfferEnter, SendOffer, pionVars
<1>11. ASSUME NEW n \in Node, DisconnectPeer(n) \/ SignalLoop(n) PROVE Good
  BY <1>3, <1>4, <1>5, <1>6, <1>9, <1>11
  DEF DisconnectPeer, SignalLoop, TakeOffer, HandleOfferClose, HandleOfferEnter, pionVars
<1> QED  BY <1>8, <1>9, <1>10, <1>11 DEF Next, vars, pionVars

FromOtherNext(d, n, r) == st'[d] # "none" /\ owner'[d] = Other(n) /\ role'[d] = r

LEMMA DescriptionStep ==
    TypeOK /\ EntryOfNode /\ InHand /\ CleanEntries /\ Descriptions /\ [Next]_vars
    => Descriptions'
<1> SUFFICES ASSUME TypeOK, EntryOfNode, InHand, CleanEntries, Descriptions, [Next]_vars
             PROVE  Descriptions'
  OBVIOUS
<1>1. /\ MemoryTypes /\ PionTypes /\ net \subseteq Signal
      /\ \A s \in Signal : s.desc \in Conn /\ s.to \in Node
  BY TypeParts DEF NetTypes, Signal
<1>2. ASSUME NEW d \in Conn, NEW n \in Node, NEW r, FromOther(d, n, r)
      PROVE  FromOtherNext(d, n, r)
  BY <1>2, UsedStays DEF FromOther, FromOtherNext
<1>3. ASSUME NEW n \in Node PROVE Other(Other(n)) = n
  BY TwoNodes
<1>4. ASSUME NEW s \in net' PROVE FromOtherNext(s.desc, s.to, s.type)
  <2>1. CASE s \in net  BY <1>1, <1>2, <2>1 DEF Descriptions
  <2>2. ASSUME NEW n \in Node, NEW c \in Caller,
               s.to = Other(n), s.type = "offer", s.desc = mine[<<n, c>>],
               dial[<<n, c>>] = "send"
        PROVE  FromOtherNext(s.desc, s.to, s.type)
    <3>1. FromOther(mine[<<n, c>>], Other(n), "offer") /\ mine[<<n, c>>] \in Conn
      BY <1>3, <2>2 DEF InHand, FromOther
    <3> QED  BY <1>2, <2>2, <3>1, TwoNodes DEF FromOther
  <2>3. ASSUME NEW n \in Node, s.to = Other(n), s.type = "answer", s.desc = made[n],
               hand[n] = "made"
        PROVE  FromOtherNext(s.desc, s.to, s.type)
    <3>1. FromOther(made[n], Other(n), "answer") /\ made[n] \in Conn
      BY <1>3, <2>3 DEF InHand, FromOther
    <3> QED  BY <1>2, <2>3, <3>1, TwoNodes DEF FromOther
  <2> QED  BY <2>1, <2>2, <2>3, NetStep
<1>5. ASSUME NEW n \in Node
      PROVE  IF hand'[n] = "idle" THEN sig'[n].desc = 0
             ELSE /\ sig'[n] \in Signal /\ sig'[n].to = n
                  /\ FromOtherNext(sig'[n].desc, n, "offer")
  <2>1. CASE hand[n] # "idle" /\ sig'[n] = sig[n] /\ hand'[n] # "idle"
    <3>1. sig[n] \in Signal /\ sig[n].to = n /\ FromOther(sig[n].desc, n, "offer")
      BY <2>1 DEF Descriptions
    <3> QED  BY <1>1, <1>2, <2>1, <3>1
  <2>2. CASE hand'[n] = "idle" /\ hand[n] = "idle" /\ sig'[n] = sig[n]
    BY <2>2 DEF Descriptions
  <2>3. CASE hand'[n] = "idle" /\ sig'[n] = [desc |-> 0]  BY <2>3
  <2>4. ASSUME NEW s \in net, s.to = n, s.type = "offer", sig'[n] = s, hand'[n] = "offer"
        PROVE  /\ sig'[n] \in Signal /\ sig'[n].to = n
               /\ FromOtherNext(sig'[n].desc, n, "offer")
    <3>1. FromOther(s.desc, n, "offer")  BY <2>4 DEF Descriptions
    <3> QED  BY <1>1, <1>2, <2>4, <3>1
  <2> QED  BY <2>1, <2>2, <2>3, <2>4, SigStep
<1>6. ASSUME NEW i \in Conn
      PROVE  /\ st'[i] \in {"none", "new"} => remote'[i] = 0
             /\ remote'[i] # 0 =>
                  FromOtherNext(remote'[i], owner'[i],
                                IF role'[i] = "offer" THEN "answer" ELSE "offer")
             /\ st'[i] \in {"live", "up"} /\ role'[i] = "answer" => remote'[i] # 0
             /\ st'[i] = "up" => remote'[i] # 0 /\ remote'[remote'[i]] = i
  <2> DEFINE opposite == IF role[i] = "offer" THEN "answer" ELSE "offer"
  <2>0. /\ st[i] \in {"none", "new"} => remote[i] = 0
        /\ remote[i] # 0 => FromOther(remote[i], owner[i], opposite)
        /\ st[i] \in {"live", "up"} /\ role[i] = "answer" => remote[i] # 0
        /\ st[i] = "up" => remote[i] # 0 /\ remote[remote[i]] = i
    BY DEF Descriptions
  <2>1. ASSUME st'[i] \in {"none", "new"} PROVE remote'[i] = 0
    <3>1. st[i] \in {"none", "new"}
      BY <2>1, StateStep DEF Entered, Closed, Started, Opened
    <3>2. remote'[i] = remote[i]  BY <2>1, <3>1, RemoteStep
    <3> QED  BY <2>0, <3>1, <3>2
  <2>2. ASSUME remote'[i] # 0
        PROVE  FromOtherNext(remote'[i], owner'[i],
                             IF role'[i] = "offer" THEN "answer" ELSE "offer")
    <3>1. st[i] # "none"  BY <2>0, <2>2, RemoteStep
    <3>2. owner'[i] = owner[i] /\ role'[i] = role[i] /\ owner[i] \in Node
      BY <1>1, <3>1, UsedStays DEF PionTypes
    <3>3. FromOther(remote'[i], owner[i], opposite) /\ remote'[i] \in Conn
      <4>1. CASE remote'[i] = remote[i]
        BY <1>1, <2>0, <2>2, <4>1 DEF PionTypes, Conn
      <4>2. ASSUME NEW s \in net, s.to = owner[i], s.type = "answer", remote'[i] = s.desc,
                   role[i] = "offer"
            PROVE  FromOther(remote'[i], owner[i], opposite) /\ remote'[i] \in Conn
        BY <1>1, <4>2 DEF Descriptions
      <4>3. CASE role[i] = "answer" /\ hand[owner[i]] = "made"
                 /\ remote'[i] = sig[owner[i]].desc
        BY <1>1, <3>2, <4>3 DEF Descriptions
      <4> HIDE DEF opposite
      <4> QED  BY <4>1, <4>2, <4>3, RemoteStep
    <3> QED  BY <1>2, <3>2, <3>3
  <2>3. ASSUME st'[i] \in {"live", "up"}, role'[i] = "answer" PROVE remote'[i] # 0
    <3>1. st[i] \in {"new", "live", "up"} /\ (st[i] = "new" => st'[i] = "live")
      BY <2>3, StateStep DEF Entered, Closed, Started, Opened
    <3>2. role[i] = "answer"  BY <2>3, <3>1, UsedStays
    <3>3. CASE st[i] = "new"  BY <2>3, <3>1, <3>2, <3>3, RemoteStep
    <3>4. CASE st[i] \in {"live", "up"}  BY <2>0, <3>2, <3>4, RemoteStep
    <3> QED  BY <3>1, <3>3, <3>4
  <2>4. ASSUME st'[i] = "up" PROVE remote'[i] # 0 /\ remote'[remote'[i]] = i
    <3>1. remote[i] # 0 /\ remote[remote[i]] = i
      BY <2>0, <2>4, StateStep DEF Entered, Closed, Started, Opened, Matched
    <3>2. ASSUME NEW j \in Conn, remote[j] # 0 PROVE remote'[j] = remote[j]
      BY <3>2, RemoteStep DEF Descriptions
    <3>3. remote[i] \in Conn /\ i # 0  BY <1>1, <3>1 DEF PionTypes, Conn
    <3> QED  BY <3>1, <3>2, <3>3
  <2> QED  BY <2>1, <2>2, <2>3, <2>4
<1> QED  BY <1>4, <1>5, <1>6 DEF Descriptions, FromOther, FromOtherNext
-----------------------------------------------------------------------------
(* Runs without a failure.                                                 *)

\* Without failures HandleOffer makes the connection it has made room for.
LEMMA RoomIsFilled ==
    ASSUME TypeOK, [Next]_vars, clean' = "yes", NEW n \in Node, hand[n] = "removed"
    PROVE  \/ hand'[n] = "removed"
           \/ hand'[n] = "made" /\ conn'[n] # 0
<1>1. MemoryTypes /\ PionTypes  BY TypeParts
<1>2. CASE UNCHANGED hand  BY <1>2
<1>3. ASSUME NEW m \in Node, m # n, SignalLoop(m) PROVE hand'[n] = hand[n]
  BY <1>1, <1>3
  DEF SignalLoop, TakeOffer, HandleOfferClose, HandleOfferEnter, HandleOfferAnswer,
      TakeAnswer, nodeVars, MemoryTypes
<1>4. CASE HandleOfferEnter(n)
  <2>1. Unused # {} /\ Enter(n, "answer") /\ hand' = [hand EXCEPT ![n] = "made"]
    BY <1>4 DEF HandleOfferEnter
  <2>2. conn'[n] = Fresh /\ Fresh # 0  BY <1>1, <2>1, FreshUnused DEF Enter, MemoryTypes, Conn
  <2> QED  BY <1>1, <2>1, <2>2 DEF MemoryTypes
<1>5. CASE SignalLoop(n)
  BY <1>1, <1>2, <1>4, <1>5
  DEF SignalLoop, TakeOffer, HandleOfferClose, HandleOfferAnswer, TakeAnswer, nodeVars
<1> QED
  BY ZenonT(30), <1>2, <1>3, <1>5
  DEF Next, vars, nodeVars, Dial, ConnectPeer, MarkDialing, CreateOfferClose,
      CreateOfferEnter, CreateOfferFinish, SendOffer, DisconnectPeer, Pion,
      Open, NoCounterpart, Disconnect, GiveUp, Report, OnDataChannel, OnConnectionStateChange

LEMMA CleanEntriesStep ==
    TypeOK /\ OneDials /\ EntryOfNode /\ InHand /\ EventsTell /\ CleanEntries /\ [Next]_vars
    => CleanEntries'
<1> SUFFICES ASSUME TypeOK, OneDials, EntryOfNode, InHand, EventsTell, CleanEntries,
                    [Next]_vars, clean' = "yes", NEW n \in Node
             PROVE  /\ conn'[n] # 0 => st'[conn'[n]] \in {"new", "live", "up"}
                    /\ \A c \in Caller : dial'[<<n, c>>] = "made" => st'[mine'[<<n, c>>]] = "new"
                    /\ hand'[n] = "made" => st'[made'[n]] = "new"
                    /\ conn'[n] = 0 /\ hand'[n] # "removed" =>
                         \A i \in Conn : owner'[i] = n => st'[i] = "none"
                    /\ conn'[n] # 0 /\ role'[conn'[n]] = "offer" =>
                         \A i \in Conn : owner'[i] = n /\ st'[i] # "none" => i = conn'[n]
  BY DEF CleanEntries
<1>1. MemoryTypes /\ PionTypes  BY TypeParts
<1>2. conn[n] = 0 \/ conn[n] \in Conn  BY <1>1 DEF MemoryTypes, Conn
<1>3. /\ conn[n] # 0 => st[conn[n]] \in {"new", "live", "up"}
      /\ \A c \in Caller : dial[<<n, c>>] = "made" => st[mine[<<n, c>>]] = "new"
      /\ hand[n] = "made" => st[made[n]] = "new"
      /\ conn[n] = 0 /\ hand[n] # "removed" =>
           \A i \in Conn : owner[i] = n => st[i] = "none"
      /\ conn[n] # 0 /\ role[conn[n]] = "offer" =>
           \A i \in Conn : owner[i] = n /\ st[i] # "none" => i = conn[n]
  BY CleanStays DEF CleanEntries
\* An entry stays, or makes room for HandleOffer's, or is new.
<1>4. \/ conn'[n] = conn[n]
      \/ conn'[n] = 0 /\ hand'[n] = "removed"
      \/ /\ conn[n] = 0
         /\ \/ Made(n, conn'[n], "offer") /\ hand[n] # "removed"
            \/ Made(n, conn'[n], "answer")
  <2>1. conn[n] # 0 => ~Told(conn[n])  BY <1>2, <1>3, CleanStays DEF EventsTell, Told
  <2>2. \A c \in Caller : dial[<<n, c>>] = "removed" => hand[n] # "removed"
    BY OneHolder DEF Locked
  <2> QED  BY <2>1, <2>2, EntryChange
\* A new connection of the node is the entry.
<1>5. ASSUME NEW i \in Conn, owner'[i] = n, st'[i] # "none", st[i] = "none"
      PROVE  conn'[n] = i
  <2>1. i # 0 /\ owner[i] \in Node  BY <1>1 DEF PionTypes, Conn
  <2>2. ~Closed(i)  BY <1>5, <2>1 DEF Closed, EntryOfNode
  <2> QED  BY <1>5, <2>2, StateStep DEF Entered, Started, Opened
<1>6. ASSUME NEW i \in Conn, st[i] = "new", owner[i] = n,
             hand[n] = "offer" => hand'[n] # "removed"
      PROVE  st'[i] \in {"new", "live"}
  BY <1>6, StateStep DEF Entered, Closed, Started, Opened
<1>7. ASSUME conn'[n] # 0 PROVE st'[conn'[n]] \in {"new", "live", "up"}
  <2>1. CASE conn'[n] = conn[n]
    BY <1>2, <1>3, <1>7, <2>1, StateStep
    DEF Entered, Closed, Started, Opened, EntryOfNode
  <2> QED  BY <1>4, <1>7, <2>1 DEF Made
<1>8. ASSUME NEW c \in Caller, dial'[<<n, c>>] = "made" PROVE st'[mine'[<<n, c>>]] = "new"
  <2>1. CASE Made(n, mine'[<<n, c>>], "offer")  BY <2>1 DEF Made
  <2>2. CASE dial[<<n, c>>] = "made" /\ mine'[<<n, c>>] = mine[<<n, c>>]
    <3>1. /\ mine[<<n, c>>] \in Conn /\ owner[mine[<<n, c>>]] = n
          /\ st[mine[<<n, c>>]] = "new"
      BY <1>3, <2>2 DEF InHand
    <3>2. hand'[n] # "removed"
      <4>1. LockOf(n)'  BY LockStep
      <4> QED  BY <1>8, <4>1 DEF LockOf, Locked
    <3>3. st'[mine[<<n, c>>]] \in {"new", "live"}  BY <1>6, <3>1, <3>2
    <3>4. st'[mine'[<<n, c>>]] \in {"new", "closed"}  BY <1>8, HandStep DEF InHand
    <3> QED  BY <2>2, <3>3, <3>4
  <2> QED  BY <1>8, <2>1, <2>2, CallerStep
<1>9. ASSUME hand'[n] = "made" PROVE st'[made'[n]] = "new"
  <2>1. CASE Made(n, made'[n], "answer")  BY <2>1 DEF Made
  <2>2. CASE hand[n] = "made" /\ made'[n] = made[n]
    <3>1. made[n] \in Conn /\ owner[made[n]] = n /\ st[made[n]] = "new"
      BY <1>3, <2>2 DEF InHand
    <3>2. st'[made[n]] \in {"new", "live"}  BY <1>6, <2>2, <3>1
    <3>3. st'[made'[n]] \in {"new", "closed"}  BY <1>9, HandStep DEF InHand
    <3> QED  BY <2>2, <3>2, <3>3
  <2> QED  BY <1>9, <2>1, <2>2, LoopStep
<1>10. ASSUME conn'[n] = 0, hand'[n] # "removed", NEW i \in Conn, owner'[i] = n
       PROVE  st'[i] = "none"
  <2>1. conn[n] = 0  BY <1>4, <1>10
  <2>2. hand[n] # "removed"  BY <1>10, RoomIsFilled
  <2>3. st[i] = "none"  BY <1>3, <1>10, <2>1, <2>2, UsedStays
  <2>4. i # 0  BY DEF Conn
  <2> QED  BY <1>5, <1>10, <2>3, <2>4
<1>11. ASSUME conn'[n] # 0, role'[conn'[n]] = "offer", NEW i \in Conn, owner'[i] = n,
              st'[i] # "none"
       PROVE  i = conn'[n]
  <2>1. CASE st[i] = "none"  BY <1>5, <1>11, <2>1
  <2>2. CASE st[i] # "none"
    <3>1. owner[i] = n  BY <1>11, <2>2, UsedStays
    <3>2. CASE conn'[n] = conn[n]
      <4>1. role[conn[n]] = "offer"  BY <1>2, <1>3, <1>11, <3>2, UsedStays
      <4> QED  BY <1>3, <1>11, <2>2, <3>1, <3>2, <4>1
    <3>3. CASE conn[n] = 0 /\ Made(n, conn'[n], "offer") /\ hand[n] # "removed"
      BY <1>3, <2>2, <3>1, <3>3
    <3>4. CASE Made(n, conn'[n], "answer")  BY <1>11, <3>4 DEF Made
    <3> QED  BY <1>4, <1>11, <3>2, <3>3, <3>4
  <2> QED  BY <2>1, <2>2
<1> QED  BY <1>7, <1>8, <1>9, <1>10, <1>11

\* Where a description can be after a step.
LEMMA PlacesStep ==
    ASSUME TypeOK, EntryOfNode, InHand, Descriptions, [Next]_vars, NEW d \in Conn
    PROVE  /\ \A n \in Node : sig'[n].desc = d =>
                \/ sig[n].desc = d
                \/ \E s \in net : s.type = "offer" /\ s.desc = d /\ net' = net \ {s}
           /\ \A i \in Conn : role'[i] = "answer" /\ remote'[i] = d =>
                \/ role[i] = "answer" /\ remote[i] = d
                \/ owner[i] \in Node /\ sig[owner[i]].desc = d
<1>1. MemoryTypes /\ PionTypes  BY TypeParts
<1>2. d # 0  BY DEF Conn
<1>3. ASSUME NEW n \in Node, sig'[n].desc = d
      PROVE  \/ sig[n].desc = d
             \/ \E s \in net : s.type = "offer" /\ s.desc = d /\ net' = net \ {s}
  BY <1>2, <1>3, SigStep
<1>4. ASSUME NEW i \in Conn, role'[i] = "answer", remote'[i] = d
      PROVE  \/ role[i] = "answer" /\ remote[i] = d
             \/ owner[i] \in Node /\ sig[owner[i]].desc = d
  <2>1. CASE remote'[i] = remote[i]
    <3>1. st[i] # "none"  BY <1>2, <1>4, <2>1 DEF Descriptions
    <3> QED  BY <1>4, <2>1, <3>1, UsedStays
  <2>2. CASE st[i] = "live" /\ role[i] = "offer"
    BY <1>4, <2>2, UsedStays
  <2>3. CASE remote'[i] = sig[owner[i]].desc
    BY <1>1, <1>4, <2>3 DEF PionTypes
  <2> QED  BY <2>1, <2>2, <2>3, RemoteStep
<1> QED  BY <1>3, <1>4

\* Nobody has a description of a connection that is not there yet.
LEMMA UnusedNowhere ==
    ASSUME TypeOK, InHand, Descriptions, NEW d \in Conn, st[d] = "none"
    PROVE  /\ \A s \in net : s.desc # d
           /\ \A n \in Node : sig[n].desc # d
           /\ \A i \in Conn : remote[i] # d
<1>1. d # 0  BY DEF Conn
<1>2. \A n \in Node : sig[n].desc # d
  BY <1>1 DEF Descriptions, FromOther
<1>3. \A i \in Conn : remote[i] # d
  BY <1>1 DEF Descriptions, FromOther
<1> QED  BY <1>2, <1>3 DEF Descriptions, FromOther

LEMMA CleanOffersStep ==
    TypeOK /\ OneDials /\ EntryOfNode /\ InHand /\ Descriptions /\ CleanOffers /\ [Next]_vars
    => CleanOffers'
<1> SUFFICES ASSUME TypeOK, OneDials, EntryOfNode, InHand, Descriptions, CleanOffers,
                    [Next]_vars, clean' = "yes"
             PROVE  CleanOffers'
  BY DEF CleanOffers
<1>1. /\ MemoryTypes /\ PionTypes
      /\ \A s \in net : s.desc \in Conn /\ s.to \in Node
  BY TypeParts DEF NetTypes, Signal
<1>2. /\ \A s, t \in net : s.type = "offer" /\ t.type = "offer" /\ s.desc = t.desc => s = t
      /\ \A n \in Node, c \in Caller : dial[<<n, c>>] \in {"made", "send"} =>
           LET d == mine[<<n, c>>] IN ~Offered(d) /\ ~Handled(d) /\ ~Answered(d)
      /\ \A s \in net : s.type = "offer" => ~Handled(s.desc) /\ ~Answered(s.desc)
  BY CleanStays DEF CleanOffers
\* An offer that is sent.
<1>3. ASSUME NEW s \in net', s \notin net, s.type = "offer"
      PROVE  /\ net' = net \cup {s}
             /\ UNCHANGED <<sig, remote>>
             /\ \E n \in Node, c \in Caller :
                  /\ s.desc = mine[<<n, c>>] /\ mine[<<n, c>>] \in Conn
                  /\ owner[mine[<<n, c>>]] = n
                  /\ dial[<<n, c>>] = "send" /\ dial'[<<n, c>>] = "idle"
  <2>1. PICK n \in Node, c \in Caller :
          /\ s.desc = mine[<<n, c>>]
          /\ dial[<<n, c>>] = "send" /\ dial'[<<n, c>>] = "idle"
          /\ UNCHANGED <<sig, remote>>
          /\ net' = net \cup {s}
    BY <1>3, NetStep
  <2>2. mine[<<n, c>>] \in Conn /\ owner[mine[<<n, c>>]] = n  BY <2>1 DEF InHand
  <2> QED  BY <2>1, <2>2
<1>4. ASSUME NEW s \in net', NEW t \in net', s.type = "offer", t.type = "offer",
             s.desc = t.desc
      PROVE  s = t
  <2>1. CASE s \in net /\ t \in net  BY <1>2, <1>4, <2>1
  <2>2. CASE s \notin net /\ t \notin net  BY <1>3, <1>4, <2>2
  <2>3. ASSUME s \in net, t \notin net PROVE FALSE
    <3>1. PICK n \in Node, c \in Caller : t.desc = mine[<<n, c>>] /\ dial[<<n, c>>] = "send"
      BY <1>3, <1>4, <2>3
    <3> QED  BY <1>2, <1>4, <2>3, <3>1 DEF Offered
  <2>4. ASSUME s \notin net, t \in net PROVE FALSE
    <3>1. PICK n \in Node, c \in Caller : s.desc = mine[<<n, c>>] /\ dial[<<n, c>>] = "send"
      BY <1>3, <1>4, <2>4
    <3> QED  BY <1>2, <1>4, <2>4, <3>1 DEF Offered
  <2> QED  BY <2>1, <2>2, <2>3, <2>4
<1>5. ASSUME NEW n \in Node, NEW c \in Caller, dial'[<<n, c>>] \in {"made", "send"},
             NEW d, d = mine'[<<n, c>>]
      PROVE  /\ \A s \in net' : s.type = "offer" => s.desc # d
             /\ \A m \in Node : sig'[m].desc # d
             /\ \A i \in Conn : role'[i] = "answer" => remote'[i] # d
  <2>1. CASE Made(n, d, "offer")
    <3>1. d \in Conn /\ st[d] = "none"  BY <2>1 DEF Made
    <3>2. /\ \A s \in net : s.desc # d
          /\ \A m \in Node : sig[m].desc # d
          /\ \A i \in Conn : remote[i] # d
      BY <3>1, UnusedNowhere
    <3>3. \A s \in net' : s.type = "offer" => s.desc # d
      <4>1. \A m \in Node, e \in Caller : dial[<<m, e>>] = "send" => mine[<<m, e>>] # d
        BY <3>1 DEF InHand
      <4>2. ASSUME NEW s \in net', s.type = "offer", s \notin net PROVE s.desc # d
        <5>1. PICK m \in Node, e \in Caller : s.desc = mine[<<m, e>>] /\ dial[<<m, e>>] = "send"
          BY <1>3, <4>2
        <5> QED  BY <4>1, <5>1
      <4> QED  BY <3>2, <4>2
    <3> QED  BY <3>1, <3>2, <3>3, PlacesStep
  <2>2. CASE dial[<<n, c>>] \in {"made", "send"} /\ mine[<<n, c>>] = d
    <3>1. d \in Conn /\ owner[d] = n  BY <2>2 DEF InHand
    <3>2. ~Offered(d) /\ ~Handled(d) /\ ~Answered(d)  BY <1>2, <2>2
    <3>3. ASSUME NEW s \in net', s.type = "offer", s.desc = d PROVE FALSE
      <4>1. s \notin net  BY <3>2, <3>3 DEF Offered
      <4>2. PICK m \in Node, e \in Caller :
              /\ s.desc = mine[<<m, e>>] /\ owner[mine[<<m, e>>]] = m
              /\ dial[<<m, e>>] = "send" /\ dial'[<<m, e>>] = "idle"
        BY <1>3, <3>3, <4>1
      <4>3. m = n /\ e = c  BY <2>2, <3>1, <3>3, <4>2 DEF OneDials, Marked
      <4> QED  BY <1>5, <4>2, <4>3
    <3>4. /\ \A m \in Node : sig'[m].desc # d
          /\ \A i \in Conn : role'[i] = "answer" => remote'[i] # d
      BY <3>1, <3>2, PlacesStep DEF Offered, Handled, Answered
    <3> QED  BY <3>3, <3>4
  <2> QED  BY <1>5, <2>1, <2>2, CallerStep
<1>6. ASSUME NEW s \in net', s.type = "offer"
      PROVE  /\ \A m \in Node : sig'[m].desc # s.desc
             /\ \A i \in Conn : role'[i] = "answer" => remote'[i] # s.desc
  <2>1. CASE s \in net
    <3>1. ~Handled(s.desc) /\ ~Answered(s.desc) /\ s.desc \in Conn  BY <1>1, <1>2, <1>6, <2>1
    <3>2. ASSUME NEW t \in net, t.type = "offer", t.desc = s.desc, net' = net \ {t} PROVE FALSE
      BY <1>2, <1>6, <2>1, <3>2
    <3> QED  BY <3>1, <3>2, PlacesStep DEF Handled, Answered
  <2>2. CASE s \notin net
    <3>1. /\ s.desc \in Conn /\ UNCHANGED <<sig, remote>>
          /\ ~Handled(s.desc) /\ ~Answered(s.desc)
      BY <1>2, <1>3, <1>6, <2>2
    <3> QED  BY <3>1, PlacesStep DEF Handled, Answered
  <2> QED  BY <2>1, <2>2
<1>7. \A n \in Node, c \in Caller : dial'[<<n, c>>] \in {"made", "send"} =>
        /\ ~Offered(mine[<<n, c>>])' /\ ~Handled(mine[<<n, c>>])' /\ ~Answered(mine[<<n, c>>])'
  BY <1>5 DEF Offered, Handled, Answered
<1> QED  BY <1>4, <1>6, <1>7 DEF CleanOffers, Handled, Answered
-----------------------------------------------------------------------------
(* Offers that cross.                                                      *)

\* Without failures a dial ends with an offer on its way,
LEMMA DialEnds ==
    ASSUME TypeOK, InHand, CleanEntries, [Next]_vars, clean' = "yes",
           NEW n \in Node, NEW c \in Caller,
           dial[<<n, c>>] \in Marked, dial'[<<n, c>>] \notin Marked
    PROVE  /\ dial[<<n, c>>] = "send"
           /\ \E s \in net' : s.to = Other(n) /\ s.type = "offer" /\ s.desc = mine[<<n, c>>]
<1>1. MemoryTypes /\ PionTypes  BY TypeParts
<1>2. UNCHANGED dial => FALSE  OBVIOUS
<1>3. ASSUME NEW m \in Node, NEW e \in Caller, <<m, e>> # <<n, c>>,
             ConnectPeer(m, e) \/ Dial(m, e)
      PROVE  FALSE
  <2>1. \E l : dial' = [dial EXCEPT ![<<m, e>>] = l]
    BY <1>3 DEF ConnectPeer, Dial, MarkDialing, CreateOfferClose, CreateOfferEnter,
                CreateOfferFinish, SendOffer
  <2> QED  BY <1>1, <1>3, <2>1 DEF MemoryTypes
<1>4. CASE ConnectPeer(n, c) \/ MarkDialing(n, c) \/ CreateOfferClose(n, c)
  BY <1>1, <1>4 DEF ConnectPeer, MarkDialing, CreateOfferClose, MemoryTypes, Marked
<1>5. CASE CreateOfferEnter(n, c)
  <2>1. dial' = [dial EXCEPT ![<<n, c>>] = "made"]  BY <1>5 DEF CreateOfferEnter
  <2> QED  BY <1>1, <2>1 DEF MemoryTypes, Marked
<1>6. CASE CreateOfferFinish(n, c)
  <2>1. dial[<<n, c>>] = "made" /\ clean = "yes"
    BY <1>6, CleanStays DEF CreateOfferFinish
  <2>2. st[mine[<<n, c>>]] = "new"  BY <2>1 DEF CleanEntries
  <2>3. dial' = [dial EXCEPT ![<<n, c>>] = "send"]  BY <1>6, <2>2 DEF CreateOfferFinish
  <2> QED  BY <1>1, <2>3 DEF MemoryTypes, Marked
<1>7. CASE SendOffer(n, c)
  <2>1. dial[<<n, c>>] = "send" /\ mine[<<n, c>>] \in Conn /\ faults' = faults
    BY <1>7 DEF SendOffer, InHand
  <2>2. Send(n, "offer", mine[<<n, c>>], 0) /\ 0 \in 0..MaxConns
    BY <1>7, SignalingAssumption DEF SendOffer
  <2> QED  BY <2>1, <2>2, Sent
<1>8. ASSUME NEW m \in Node, NEW e \in Caller, ConnectPeer(m, e) \/ Dial(m, e)
      PROVE  SendOffer(n, c)
  <2>1. CASE <<m, e>> # <<n, c>>  BY <1>3, <1>8, <2>1
  <2>2. CASE m = n /\ e = c  BY <1>4, <1>5, <1>6, <1>8, <2>2 DEF Dial, CreateOfferEnter,
                                CreateOfferFinish, ConnectPeer, MarkDialing, CreateOfferClose,
                                Marked
  <2> QED  BY <2>1, <2>2
<1> QED
  BY <1>2, <1>7, <1>8
  DEF Next, vars, nodeVars, SignalLoop, DisconnectPeer, TakeOffer, HandleOfferClose,
      HandleOfferEnter, HandleOfferAnswer, TakeAnswer, Pion, Open, NoCounterpart, Disconnect,
      GiveUp, Report, OnDataChannel, OnConnectionStateChange

\* and an offer that was taken up ends with an answer on its way.
LEMMA LoopEnds ==
    ASSUME TypeOK, InHand, Descriptions, CleanEntries, [Next]_vars, clean' = "yes",
           NEW n \in Node, hand[n] # "idle", hand'[n] = "idle"
    PROVE  /\ hand[n] = "made"
           /\ \E s \in net' : s.to = Other(n) /\ s.type = "answer"
<1>1. MemoryTypes /\ PionTypes  BY TypeParts
<1>2. UNCHANGED hand => FALSE  OBVIOUS
<1>3. ASSUME NEW m \in Node, m # n, SignalLoop(m) PROVE FALSE
  BY <1>1, <1>3
  DEF SignalLoop, TakeOffer, HandleOfferClose, HandleOfferEnter, HandleOfferAnswer,
      TakeAnswer, nodeVars, MemoryTypes
<1>4. TakeOffer(n) \/ HandleOfferClose(n) \/ HandleOfferEnter(n) \/ TakeAnswer(n) => FALSE
  BY <1>1 DEF TakeOffer, HandleOfferClose, HandleOfferEnter, TakeAnswer, nodeVars, MemoryTypes
<1>5. CASE HandleOfferAnswer(n)
  <2>1. /\ hand[n] = "made" /\ made[n] \in Conn /\ sig[n] \in Signal
        /\ clean = "yes"
    BY <1>5, CleanStays DEF HandleOfferAnswer, InHand, Descriptions
  <2>2. st[made[n]] = "new"  BY <2>1 DEF CleanEntries
  <2>3. Send(n, "answer", made[n], sig[n].desc) /\ faults' = faults
    BY <1>5, <2>2 DEF HandleOfferAnswer
  <2>4. sig[n].desc \in 0..MaxConns  BY <2>1 DEF Signal, Conn
  <2> QED  BY <2>1, <2>3, <2>4, Sent
<1>6. ASSUME NEW m \in Node, SignalLoop(m) PROVE HandleOfferAnswer(n)
  BY <1>3, <1>4, <1>6 DEF SignalLoop
<1> QED
  BY ZenonT(30), <1>2, <1>5, <1>6
  DEF Next, vars, nodeVars, Dial, ConnectPeer, MarkDialing, CreateOfferClose,
      CreateOfferEnter, CreateOfferFinish, SendOffer, DisconnectPeer, Pion,
      Open, NoCounterpart, Disconnect, GiveUp, Report, OnDataChannel, OnConnectionStateChange

\* A signal is gone when the signal loop of the node it is for takes it.
LEMMA Taken ==
    ASSUME TypeOK, [Next]_vars, NEW s \in net, s \notin net'
    PROVE  /\ net' = net \ {s}
           /\ hand[s.to] = "idle"
           /\ UNCHANGED <<conn, chan, dial, mine, made>>
           /\ s.type = "offer" =>
                \/ IsConnected(s.to) \/ Colliding(s.to)
                \/ hand'[s.to] = "offer" /\ sig'[s.to] = s
           /\ s.type = "answer" =>
                /\ conn[s.to] # 0 /\ st[conn[s.to]] = "live" /\ role[conn[s.to]] = "offer"
                   /\ remote[conn[s.to]] = 0 => remote'[conn[s.to]] = s.desc
<1>1. /\ MemoryTypes /\ PionTypes
      /\ s.to \in Node /\ s.type \in {"offer", "answer"}
  BY TypeParts DEF NetTypes, Signal
<1>2. ASSUME NEW n \in Node, TakeOffer(n)
      PROVE  /\ net' = net \ {s}
             /\ hand[s.to] = "idle"
             /\ UNCHANGED <<conn, chan, dial, mine, made>>
             /\ s.type = "offer"
             /\ \/ IsConnected(s.to) \/ Colliding(s.to)
                \/ hand'[s.to] = "offer" /\ sig'[s.to] = s
  BY <1>1, <1>2 DEF TakeOffer, MemoryTypes
<1>3. ASSUME NEW n \in Node, TakeAnswer(n)
      PROVE  /\ net' = net \ {s}
             /\ hand[s.to] = "idle"
             /\ UNCHANGED <<conn, chan, dial, mine, made>>
             /\ s.type = "answer"
             /\ conn[s.to] # 0 /\ st[conn[s.to]] = "live" /\ role[conn[s.to]] = "offer"
                /\ remote[conn[s.to]] = 0 => remote'[conn[s.to]] = s.desc
  <2>1. /\ net' = net \ {s} /\ s.to = n /\ s.type = "answer" /\ hand[n] = "idle"
        /\ remote' = IF /\ HasConnection(n) /\ st[conn[n]] = "live"
                        /\ role[conn[n]] = "offer" /\ remote[conn[n]] = 0
                     THEN [remote EXCEPT ![conn[n]] = s.desc]
                     ELSE remote
        /\ UNCHANGED <<conn, chan, dial, mine, made>>
    BY <1>3 DEF TakeAnswer, nodeVars
  <2>2. conn[n] # 0 => conn[n] \in Conn  BY <1>1 DEF MemoryTypes, Conn
  <2> QED  BY <1>1, <2>1, <2>2 DEF HasConnection, PionTypes
<1>4. ASSUME NEW n \in Node, NEW t, NEW d, NEW r, Send(n, t, d, r) PROVE FALSE
  BY <1>4 DEF Send
<1> QED
  BY ZenonT(60), <1>2, <1>3, <1>4
  DEF Next, vars, Dial, SignalLoop, ConnectPeer, MarkDialing, CreateOfferClose,
      CreateOfferEnter, CreateOfferFinish, SendOffer, DisconnectPeer, HandleOfferClose,
      HandleOfferEnter, HandleOfferAnswer, Pion, Open, NoCounterpart, Disconnect, GiveUp, Report,
      OnDataChannel, OnConnectionStateChange

\* The lower node drops an offer when it dials itself; then its own offer is still to
\* come, unless the other node has had it, which would have taken that node's place
\* in the connection the dropped offer was for.
LEMMA Dropped ==
    ASSUME TypeOK, InHand, EntryOfNode, NewIsHeld, Descriptions, ChannelIsCurrent,
           CleanEntries, CleanOffers, GlareResolves, clean = "yes",
           NEW m \in Node, NEW n \in Node, n = Other(m), NEW j \in Conn,
           conn[n] = j, role[j] = "offer", remote[j] = 0, hand[n] = "idle", hand[m] = "idle",
           NEW s \in net, s.type = "offer", s.desc = j,
           IsConnected(m) \/ Colliding(m)
    PROVE  /\ m < n
           /\ Dialing(m) \/ \E t \in net : t.to = n /\ t.type = "offer"
<1>1. /\ MemoryTypes /\ PionTypes
      /\ \A t \in net : t.desc \in Conn /\ t.to \in Node
  BY TypeParts DEF NetTypes, Signal
<1>2. m # n /\ Other(n) = m /\ m \in Int /\ n \in Int
  <2>1. m # n /\ Other(n) \in Node /\ Other(n) # n  BY TwoNodes
  <2>2. Other(n) = m  BY <2>1, TwoNodes
  <2> QED  BY <2>1, <2>2, SignalingAssumption
<1> DEFINE k == conn[m]
<1>3. ASSUME k # 0
      PROVE  k \in Conn /\ owner[k] = m /\ st[k] \in {"new", "live", "up"}
  BY <1>1, <1>3 DEF EntryOfNode, CleanEntries, MemoryTypes, Conn
\* The only connection the other node has made is j.
<1>4. ASSUME NEW r \in Conn, owner[r] = n, st[r] # "none" PROVE r = j
  <2>1. conn[n] # 0  BY DEF Conn
  <2> QED  BY <1>4, <2>1 DEF CleanEntries
<1>5. ASSUME k # 0, remote[k] # 0
      PROVE  remote[k] = j /\ role[k] = "answer"
  <2>1. k \in Conn /\ owner[k] = m  BY <1>3, <1>5
  <2>2. FromOther(remote[k], m, IF role[k] = "offer" THEN "answer" ELSE "offer")
    BY <1>5, <2>1 DEF Descriptions
  <2>3. remote[k] \in Conn  BY <1>1, <1>5, <2>1 DEF PionTypes, Conn
  <2>4. remote[k] = j  BY <1>4, <2>2, <2>3 DEF FromOther
  <2> QED  BY <1>1, <2>1, <2>2, <2>4 DEF FromOther, PionTypes
<1>6. ASSUME k # 0 PROVE remote[k] = 0
  <2>1. ~Answered(j)  BY DEF CleanOffers
  <2> QED  BY <1>3, <1>5, <1>6, <2>1 DEF Answered
<1>7. ~IsConnected(m)
  <2> SUFFICES ASSUME IsConnected(m) PROVE FALSE  OBVIOUS
  <2>1. k # 0 /\ chan[m] = k  BY DEF IsConnected, ChannelIsCurrent
  <2>2. st[k] = "up"  BY <1>3, <2>1 DEF IsConnected
  <2> QED  BY <1>3, <1>6, <2>1, <2>2 DEF Descriptions
<1>8. m < n /\ (Dialing(m) \/ k # 0)
  BY <1>7 DEF Colliding, HasConnection
<1>9. CASE ~Dialing(m)
  <2>1. k # 0 /\ k \in Conn /\ owner[k] = m /\ remote[k] = 0
    BY <1>3, <1>6, <1>8, <1>9
  <2>2. role[k] # "answer"
    <3>1. st[k] # "new"
      BY <1>9, <2>1 DEF NewIsHeld, Dialing
    <3> QED  BY <1>3, <2>1, <3>1 DEF Descriptions
  <2>3. InProgress(m)  BY <2>1 DEF GlareResolves, EntryIsAnAttempt, HasConnection
  <2>4. sig[n].desc # k  BY <2>1 DEF Descriptions
  <2>5. PICK t \in net : \/ t.type = "offer" /\ t.desc = k
                         \/ t.type = "answer" /\ t.to = m
    BY <1>2, <1>8, <1>9, <2>1, <2>2, <2>3, <2>4 DEF InProgress
  <2>6. ~(t.type = "answer" /\ t.to = m)
    <3>1. t.type = "answer" /\ t.to = m => FromOther(t.desc, m, "answer") /\ t.desc \in Conn
      BY <1>1 DEF Descriptions
    <3> QED  BY <1>4, <3>1 DEF FromOther
  <2>7. owner[k] = Other(t.to) /\ t.to \in Node
    BY <1>1, <2>5, <2>6 DEF Descriptions, FromOther
  <2>8. t.to = n  BY <1>2, <2>1, <2>7, TwoNodes
  <2> QED  BY <1>8, <2>5, <2>6, <2>8
<1> QED  BY <1>8, <1>9

LEMMA GlareStep ==
    TypeOK /\ OneDials /\ EntryOfNode /\ InHand /\ NewIsHeld /\ EventsTell /\ Descriptions
    /\ ChannelIsCurrent /\ CleanEntries /\ CleanOffers /\ GlareResolves /\ [Next]_vars
    => GlareResolves'
<1> SUFFICES ASSUME TypeOK, OneDials, EntryOfNode, InHand, NewIsHeld, EventsTell,
                    Descriptions, ChannelIsCurrent, CleanEntries, CleanOffers, GlareResolves,
                    [Next]_vars, clean' = "yes", NEW n \in Node, conn'[n] # 0,
                    remote'[conn'[n]] = 0, role'[conn'[n]] # "answer",
                    ~Dialing(n)', hand'[n] = "idle"
             PROVE  \/ sig'[Other(n)].desc = conn'[n]
                    \/ \E s \in net' : \/ s.type = "offer" /\ s.desc = conn'[n]
                                       \/ s.type = "answer" /\ s.to = n
                    \/ /\ n > Other(n)
                       /\ Dialing(Other(n))' \/ \E s \in net' : s.type = "offer" /\ s.to = n
  BY DEF GlareResolves, EntryIsAnAttempt, InProgress, HasConnection
<1> DEFINE m == Other(n)
           j == conn[n]
           Here == \/ sig'[m].desc = j
                   \/ \E s \in net' : \/ s.type = "offer" /\ s.desc = j
                                      \/ s.type = "answer" /\ s.to = n
                   \/ /\ n > m
                      /\ Dialing(m)' \/ \E s \in net' : s.type = "offer" /\ s.to = n
<1>1. /\ MemoryTypes /\ PionTypes /\ clean = "yes"
      /\ \A t \in net : t.desc \in Conn /\ t.to \in Node
  BY TypeParts, CleanStays DEF NetTypes, Signal
<1>2. m \in Node /\ m # n /\ Other(m) = n /\ m \in Int /\ n \in Int
  <2>1. m \in Node /\ m # n  BY TwoNodes
  <2>2. Other(m) = n  BY <2>1, TwoNodes
  <2>3. Node \subseteq Int  BY SignalingAssumption
  <2> HIDE DEF m
  <2>4. m \in Int /\ n \in Int  BY <2>1, <2>3
  <2> QED  BY <2>1, <2>2, <2>4
\* The entry is the one that was there, an offer without an answer.
<1>3. conn'[n] = conn[n] /\ j \in Conn /\ st[j] # "none" /\ owner[j] = n
  <2>1. ~Made(n, conn'[n], "answer")  BY DEF Made
  <2>2. ~\E c \in Caller : dial'[<<n, c>>] = "made"  BY DEF Dialing
  <2>3. conn'[n] = conn[n]  BY <2>1, <2>2, EntryChange
  <2> QED  BY <1>1, <2>3 DEF EntryOfNode, MemoryTypes, Conn
<1>4. role[j] = "offer" /\ remote[j] = 0
  <2>1. role'[j] = role[j]  BY <1>3, UsedStays
  <2>2. role[j] = "offer"  BY <1>1, <1>3, <2>1 DEF PionTypes
  <2> QED  BY <1>3, <2>2, RemoteStep
<1>5. \A i \in Conn : owner[i] = n /\ st[i] # "none" => i = j
  BY <1>1, <1>3, <1>4 DEF CleanEntries, Conn
<1>6. hand[n] = "idle"
  <2> SUFFICES ASSUME hand[n] # "idle" PROVE FALSE  OBVIOUS
  <2>1. hand[n] = "made"  BY LoopEnds
  <2>2. made[n] \in Conn /\ owner[made[n]] = n /\ role[made[n]] = "answer"
        /\ st[made[n]] # "none"
    BY <2>1 DEF InHand
  <2> QED  BY <1>4, <1>5, <2>2
<1>7. CASE Dialing(n)
  <2>1. PICK c \in Caller : dial[<<n, c>>] \in Marked  BY <1>7 DEF Dialing, Marked
  <2>2. dial'[<<n, c>>] \notin Marked  BY DEF Dialing, Marked
  <2>3. dial[<<n, c>>] = "send" /\ \E s \in net' : s.type = "offer" /\ s.desc = mine[<<n, c>>]
    BY <2>1, <2>2, DialEnds
  <2>4. mine[<<n, c>>] = j  BY <1>5, <2>3 DEF InHand
  <2> QED  BY <1>3, <2>3, <2>4
\* What was to end the attempt before the step.
<1>8. CASE ~Dialing(n)
  <2>0. \/ sig[m].desc = j
        \/ \E s \in net : \/ s.type = "offer" /\ s.desc = j
                          \/ s.type = "answer" /\ s.to = n
        \/ n > m /\ Dialing(m)
        \/ n > m /\ \E s \in net : s.type = "offer" /\ s.to = n
    <3>1. InProgress(n)  BY <1>1, <1>3 DEF GlareResolves, EntryIsAnAttempt, HasConnection, Conn
    <3> QED  BY <1>4, <1>6, <1>8, <3>1 DEF InProgress
  <2>1. st[j] \in {"live", "up"}
    <3>1. st[j] \in {"new", "live", "up"}  BY <1>1, <1>3 DEF CleanEntries, Conn
    <3>2. st[j] # "new"  BY <1>3, <1>6, <1>8 DEF NewIsHeld, Dialing
    <3> QED  BY <3>1, <3>2
  <2>2. st[j] = "live"  BY <1>3, <1>4, <2>1 DEF Descriptions
  <2>3. ASSUME sig[m].desc = j PROVE Here
    <3>1. hand[m] # "idle"  BY <1>2, <1>3, <2>3 DEF Descriptions, Conn
    <3>2. CASE hand'[m] = "idle"
      <4>1. \E s \in net' : s.to = Other(m) /\ s.type = "answer"
        BY <1>2, <3>1, <3>2, LoopEnds
      <4> QED  BY <1>2, <4>1
    <3>3. CASE hand'[m] # "idle"
      <4>1. sig'[m] = sig[m]  BY <1>2, <3>1, <3>3, SigStep
      <4> QED  BY <1>3, <2>3, <4>1
    <3> QED  BY <3>2, <3>3
  <2>4. ASSUME NEW s \in net, s.type = "offer", s.desc = j PROVE Here
    <3>1. CASE s \in net'  BY <2>4, <3>1
    <3>2. CASE s \notin net'
      <4>1. s.to = m
        BY ZenonT(30), <1>1, <1>2, <1>3, <2>4, TwoNodes DEF Descriptions, FromOther
      <4>2. /\ net' = net \ {s} /\ hand[m] = "idle" /\ UNCHANGED dial
            /\ IsConnected(m) \/ Colliding(m) \/ sig'[m] = s
        BY <2>4, <3>2, <4>1, Taken
      <4>3. CASE IsConnected(m) \/ Colliding(m)
        <5>1. /\ m < n
              /\ Dialing(m) \/ \E t \in net : t.to = n /\ t.type = "offer"
          BY <1>1, <1>2, <1>3, <1>4, <1>6, <2>4, <4>2, <4>3, Dropped
        <5>2. Dialing(m) => Dialing(m)'  BY <4>2 DEF Dialing
        <5>3. \A t \in net : t.to = n => t \in net'  BY <1>2, <4>1, <4>2
        <5> QED  BY <1>2, <5>1, <5>2, <5>3
      <4> QED  BY <2>4, <4>2, <4>3
    <3> QED  BY <3>1, <3>2
  <2>5. ASSUME NEW s \in net, s.type = "answer", s.to = n PROVE Here
    <3>1. CASE s \in net'  BY <2>5, <3>1
    <3>2. CASE s \notin net'
      <4>1. remote'[j] = s.desc  BY <1>3, <1>4, <2>2, <2>5, <3>2, Taken DEF Conn
      <4> QED  BY <1>1, <1>3, <4>1 DEF Conn
    <3> QED  BY <3>1, <3>2
  <2>6. ASSUME n > m, Dialing(m) PROVE Here
    <3>1. CASE Dialing(m)'  BY <2>6, <3>1
    <3>2. CASE ~Dialing(m)'
      <4>1. PICK c \in Caller : dial[<<m, c>>] \in Marked  BY <2>6 DEF Dialing, Marked
      <4>2. dial'[<<m, c>>] \notin Marked  BY <3>2 DEF Dialing, Marked
      <4>3. \E s \in net' : s.to = Other(m) /\ s.type = "offer"
        BY <1>2, <4>1, <4>2, DialEnds
      <4> QED  BY <1>2, <2>6, <4>3
    <3> QED  BY <3>1, <3>2
  <2>7. ASSUME n > m, NEW s \in net, s.type = "offer", s.to = n PROVE Here
    <3>1. CASE s \in net'  BY <2>7, <3>1
    <3>2. CASE s \notin net'
      <4>1. IsConnected(n) \/ Colliding(n)  BY <2>7, <3>2, Taken
      <4>2. ~Colliding(n)  BY <1>2, <2>7 DEF Colliding
      <4>3. ~IsConnected(n)  BY <2>2 DEF IsConnected, ChannelIsCurrent
      <4> QED  BY <4>1, <4>2, <4>3
    <3> QED  BY <3>1, <3>2
  <2>8. Here  BY <2>0, <2>3, <2>4, <2>5, <2>6, <2>7
  <2> QED  BY <1>3, <2>8
<1> QED  BY <1>7, <1>8
-----------------------------------------------------------------------------
(* The inductive invariant, and what it says of the program.               *)

LEMMA RestInit ==
    Init => /\ OneDials /\ EntryOfNode /\ InHand /\ NewIsHeld /\ EventsTell /\ Descriptions
            /\ ChannelIsCurrent /\ NoStrayConnection /\ CleanEntries /\ CleanOffers
            /\ GlareResolves
<1> SUFFICES ASSUME Init
             PROVE  /\ OneDials /\ EntryOfNode /\ InHand /\ NewIsHeld /\ EventsTell
                    /\ Descriptions /\ ChannelIsCurrent /\ NoStrayConnection /\ CleanEntries
                    /\ CleanOffers /\ GlareResolves
  OBVIOUS
<1> USE DEF Init
<1>1. OneDials /\ EntryOfNode /\ InHand /\ NewIsHeld
  BY DEF OneDials, EntryOfNode, InHand, NewIsHeld, Marked
<1>2. EventsTell /\ Descriptions
  BY DEF EventsTell, Descriptions
<1>3. ChannelIsCurrent /\ NoStrayConnection
  BY DEF ChannelIsCurrent, NoStrayConnection
<1>4. CleanEntries /\ CleanOffers
  BY DEF CleanEntries, CleanOffers
<1>5. GlareResolves
  BY DEF GlareResolves, EntryIsAnAttempt, HasConnection
<1> QED  BY <1>1, <1>2, <1>3, <1>4, <1>5

LEMMA Inductive == Spec => []IInv
<1>1. Init => IInv  BY TypeInit, RestInit DEF IInv
<1>2. IInv /\ [Next]_vars => IInv'
  BY TypeStep, DialsStep, EntryStep, HandStep, HeldStep, EventsStep, DescriptionStep,
     ChannelStep, StrayStep, CleanEntriesStep, CleanOffersStep, GlareStep
  DEF IInv
<1> QED  BY <1>1, <1>2, PTL DEF Spec

\* The variables keep their types, and the negotiation lock of a node is held by the
\* signal loop or by a dialing goroutine exactly while one of them is between the
\* removal of the old entry and the local description (webrtc.go: CreateOffer,
\* HandleOffer).
THEOREM TypeCorrect == Spec => []TypeOK
<1>1. IInv => TypeOK  BY DEF IInv
<1> QED  BY <1>1, Inductive, PTL

\* Whatever callback of pion comes late, dataChans holds the channel of the
\* connection in connections or none (webrtc.go: OnDataChannel,
\* OnConnectionStateChange, Close).
THEOREM ChannelIsCurrentAlways == Spec => []ChannelIsCurrent
<1>1. IInv => ChannelIsCurrent  BY DEF IInv
<1> QED  BY <1>1, Inductive, PTL

\* No two goroutines register connections over each other: a connection that is made,
\* not closed, and of which pion has reported nothing bad, is the entry of its node.
\* One that is reported disconnected is forgotten without being closed, so of these
\* nothing is said (webrtc.go: CreateOffer, HandleOffer, NewPeerConnection,
\* OnConnectionStateChange).
THEOREM NoStrayConnectionAlways == Spec => []NoStrayConnection
<1>1. IInv => NoStrayConnection  BY DEF IInv
<1> QED  BY <1>1, Inductive, PTL

\* Offers that cross leave neither node waiting for ever as long as nothing fails and
\* no dial replaces an entry made since it looked: an entry is an attempt that will
\* end (signals.go: handleSignal; peers.go: ConnectPeer).
THEOREM GlareResolvesAlways == Spec => []GlareResolves
<1>1. IInv => GlareResolves  BY DEF IInv
<1> QED  BY <1>1, Inductive, PTL
=============================================================================
