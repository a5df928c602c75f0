--------------------------- MODULE DeliveryProofs ---------------------------
(***************************************************************************)
(* Safety of Delivery for every set of peers, messages and chunks, every   *)
(* TTL, batch size and number of faults: the inductive invariant and the   *)
(* theorems that follow from it.                                           *)
(***************************************************************************)
EXTENDS Delivery, TLAPS

Accepted == {c \in Chunk : MsgOf[c] \in history}

\* Everything that mentions a chunk mentions one of an accepted message, so a
\* new message never moves a deadline that some row, batch or run relies on.
OnlyAccepted ==
    /\ \A c \in Chunk : c \notin Accepted => deadline[c] = 0 /\ pend[c] = "none"
    /\ jobs \subseteq history
    /\ loaded \subseteq Accepted
    /\ work \subseteq Accepted
    /\ group \subseteq Accepted
    /\ \A msg \in net : msg.type = "batch" => msg.chunks \subseteq Accepted
    /\ \A p \in Peer, c \in Chunk : stored[p][c] # 0 => c \in Accepted
    /\ \A n \in Peer \cup {Self}, c \in Chunk : dir[n][c] # 0 => c \in Accepted

\* A queue row is there as long as its chunk lives.
QueueComplete ==
    \A c \in Accepted : ~Expired(c) => pend[c] # "none"

\* Every directory row lasts to the last whole second of the chunk's life.
RowsLast ==
    \A n \in Peer \cup {Self}, c \in Chunk : dir[n][c] # 0 => Listed(n, c)

\* Every copy at a peer lasts as long as the chunk, and is listed.
CopiesLast ==
    \A p \in Peer, c \in Chunk :
        stored[p][c] # 0 => stored[p][c] >= deadline[c] /\ Listed(p, c)

\* Only the sender's own devices and the group's members have its messages.
LearnedByReaders == \A e \in learned : e[1] \in Replica \cup Member(e[2])

\* The run works on chunks of one recipient, and never on that recipient's node.
RunShape ==
    /\ parts \subseteq group
    /\ batch \subseteq group
    /\ \A p \in peers : \A c \in group : KeyOf[p] # Recipient(c)
    /\ pc = "self" => parts = {} /\ batch = {} /\ peers = {}
    /\ pc # "self" /\ (files # {} \/ parts # {} \/ batch # {}) =>
         peer \in Peer /\ \A c \in group : KeyOf[peer] # Recipient(c)
    /\ pc = "wait" <=> req # NoReq
    /\ pc # "wait" => batch = {}
    /\ holder = "none" => pc = "next"

\* What is sent to a peer was registered there while it was alive.
RunListed ==
    /\ \A c \in parts : peer \in Peer => Expired(c) \/ Listed(peer, c)
    /\ \A c \in batch : peer \in Peer => Listed(peer, c)

\* A batch in flight carries lifetimes that reach the deadlines.
BatchesLast ==
    \A msg \in net : msg.type = "batch" =>
        \A c \in msg.chunks : /\ msg.ttl[c] > 0
                              /\ now + 2 * msg.ttl[c] >= deadline[c]
                              /\ Listed(msg.peer, c)

Kept(p, c) == Held(p, c) \/ HasRead(p, c) \/ Expired(c)

\* The request that is waited for is in flight as it was sent, and a positive
\* answer to it means that its peer keeps every chunk of the batch, or has read it.
AnswersTrue ==
    /\ \A msg \in net : msg.req = req =>
         /\ msg.type = "batch" => msg.peer = peer /\ msg.chunks = batch
         /\ msg.type = "ack" /\ msg.ok => \A c \in batch : Kept(peer, c)
    /\ result = "ok" => \A c \in batch : Kept(peer, c)

IInv ==
    /\ TypeOK
    /\ OnlyAccepted
    /\ QueueComplete
    /\ RowsLast
    /\ CopiesLast
    /\ LearnedByReaders
    /\ RunShape
    /\ RunListed
    /\ BatchesLast
    /\ AnswersTrue
    /\ PlacedIsHeld

-----------------------------------------------------------------------------
(* Type correctness.                                                       *)

LEMMA SecondsType ==
    ASSUME NEW t \in Int
    PROVE  /\ CeilSeconds(t) \in Int /\ FloorSeconds(t) \in Int
           /\ t > 0 => CeilSeconds(t) > 0
           /\ t >= 0 => FloorSeconds(t) >= 0
           /\ 2 * CeilSeconds(t) >= t
BY DEF CeilSeconds, FloorSeconds

LEMMA EffectiveTTLType ==
    ASSUME NEW ttl \in Int
    PROVE  EffectiveTTL(ttl) \in Nat \ {0}
BY DeliveryAssumption DEF EffectiveTTL

\* What WithRows returns: rows only get better, and only for the chunks of S.
LEMMA WithRowsType ==
    ASSUME TypeOK, NEW loc \in Peer \cup {Self}, NEW S
    PROVE  /\ WithRows(loc, S) \in [Peer \cup {Self} -> [Chunk -> Nat]]
           /\ \A n \in Peer \cup {Self}, c \in Chunk :
                WithRows(loc, S)[n][c] >= dir[n][c]
<1> DEFINE expiry(c) == FloorSeconds(now) + remainingChunkTTL(c)
           row == [c \in Chunk |-> IF c \in S /\ expiry(c) > dir[loc][c]
                                   THEN expiry(c) ELSE dir[loc][c]]
<1>1. \A c \in Chunk : expiry(c) \in Int /\ dir[loc][c] \in Nat
  <2> TAKE c \in Chunk
  <2>1. deadline[c] - now \in Int /\ now \in Int  BY DEF TypeOK
  <2> QED  BY <2>1, SecondsType DEF TypeOK, remainingChunkTTL
<1>2. row \in [Chunk -> Nat] /\ \A c \in Chunk : row[c] >= dir[loc][c]
  BY <1>1
<1>3. WithRows(loc, S) = [dir EXCEPT ![loc] = row]  BY DEF WithRows
<1> HIDE DEF row
<1> QED  BY <1>2, <1>3 DEF TypeOK

\* registerChunkLocation leaves a well-formed directory whose rows only improve.
LEMMA RegisterType ==
    ASSUME TypeOK, NEW f, NEW loc \in Peer \cup {Self}, NEW ok,
           registerChunkLocation(f, loc, ok)
    PROVE  /\ dir' \in [Peer \cup {Self} -> [Chunk -> Nat]]
           /\ \A n \in Peer \cup {Self}, c \in Chunk : dir'[n][c] >= dir[n][c]
           /\ faults' \in Nat
<1>1. faults' \in Nat
  BY DEF registerChunkLocation, FaultIf, Fault, TypeOK
<1>2. \/ dir' = dir
      \/ \E found \in BOOLEAN : dir' = WithRows(loc, Missing(f, loc, found))
  BY DEF registerChunkLocation
<1>3. CASE dir' = dir  BY <1>1, <1>3 DEF TypeOK
<1>4. CASE \E found \in BOOLEAN : dir' = WithRows(loc, Missing(f, loc, found))
  BY <1>1, <1>4, WithRowsType
<1> QED  BY <1>2, <1>3, <1>4

LEMMA TypeInit == Init => TypeOK
BY DeliveryAssumption DEF Init, TypeOK

LEMMA TypeStep == TypeOK /\ [Next]_vars => TypeOK'
<1> SUFFICES ASSUME TypeOK, [Next]_vars PROVE TypeOK'  OBVIOUS
<1> USE DEF storeVars, runVars, waitVars, remoteVars
<1>1. ASSUME NEW m \in Message, NEW ttl \in TTLs, SendMessage(m, ttl) PROVE TypeOK'
  <2>1. EffectiveTTL(ttl) \in Nat  BY EffectiveTTLType, DeliveryAssumption
  <2>2. deadline' \in [Chunk -> Nat]  BY <1>1, <2>1 DEF SendMessage,
       prepareOutgoing, QueueOutgoing, TypeOK
  <2> QED  BY <1>1, <2>2 DEF SendMessage, prepareOutgoing, QueueOutgoing, TypeOK,
       PartsOf
<1>2. ASSUME NEW m \in Message, deliverOutgoing(m) PROVE TypeOK'
  BY <1>2 DEF deliverOutgoing, TypeOK, Lock, PartsOf
<1>3. CASE GetUnplacedChunks  BY <1>3 DEF GetUnplacedChunks, TypeOK
<1>4. CASE distributePendingChunks
  BY <1>4 DEF distributePendingChunks, TypeOK, Lock
<1>5. CASE NextRecipient
  BY <1>5, DeliveryAssumption DEF NextRecipient, NoPeerLeft, TypeOK
<1>6. CASE Unlock  BY <1>6 DEF Unlock, EndRun, TypeOK
<1>7. CASE RegisterSelf
  BY <1>7, RegisterType DEF RegisterSelf, TypeOK
<1>8. CASE GetBestPeers
  BY <1>8 DEF GetBestPeers, FaultIf, Fault, TypeOK
<1>9. CASE NextPeer
  BY <1>9, DeliveryAssumption DEF NextPeer, TypeOK
<1>10. CASE SkipPeer  BY <1>10 DEF SkipPeer, TypeOK
<1>11. CASE RegisterPeer
  BY <1>11, RegisterType DEF RegisterPeer, ChunksOf, TypeOK
<1>12. CASE SendBatch
  <2>1. PICK S \in SUBSET parts :
           /\ parts' = parts \ S
           /\ \/ UNCHANGED <<pc, waitVars, net>>
              \/ /\ peer \in online
                 /\ \E r \in ReqId :
                      /\ net' = net \cup
                           {[type |-> "batch", req |-> r, peer |-> peer,
                             chunks |-> {c \in S : ~Expired(c)},
                             ttl |-> [c \in Chunk |-> remainingChunkTTL(c)]]}
                      /\ req' = r
                      /\ batch' = {c \in S : ~Expired(c)}
                      /\ result' = "none"
                      /\ pc' = "wait"
    BY <1>12 DEF SendBatch
  <2>2. \A c \in Chunk : remainingChunkTTL(c) \in Int
    BY SecondsType DEF TypeOK, remainingChunkTTL
  <2>3. net' \subseteq BatchMsg \cup AckMsg
    BY <2>1, <2>2 DEF TypeOK, BatchMsg
  <2> QED  BY <1>12, <2>1, <2>3 DEF SendBatch, TypeOK
<1>13. CASE MarkChunkPlaced
  BY <1>13 DEF MarkChunkPlaced, DeleteWaiter, FaultIf, Fault, TypeOK
<1>14. CASE BatchFailed
  BY <1>14 DEF BatchFailed, DeleteWaiter, FaultIf, Fault, TypeOK
<1>15. ASSUME NEW msg \in net, acceptChunkStoreAck(msg) PROVE TypeOK'
  BY <1>15 DEF acceptChunkStoreAck, TypeOK
<1>16. ASSUME NEW msg \in net, storeChunkBatch(msg) PROVE TypeOK'
  <2>1. msg \in BatchMsg  BY <1>16 DEF storeChunkBatch, handleChunkStore, TypeOK,
       AckMsg
  <2>2. \A c \in Chunk : now + 2 * EffectiveTTL(msg.ttl[c]) \in Nat
    BY <2>1, EffectiveTTLType DEF BatchMsg, TypeOK
  <2>3. stored' \in [Peer -> [Chunk -> Nat]]
    BY <1>16, <2>1, <2>2 DEF storeChunkBatch, handleChunkStore, BatchMsg, TypeOK
  <2>4. net' \subseteq BatchMsg \cup AckMsg
    <3>1. PICK done : net' = (net \ {msg}) \cup
                        IF msg.peer \in Legacy THEN {}
                        ELSE {[type |-> "ack", req |-> msg.req, peer |-> msg.peer,
                               ok |-> done = msg.chunks]}
      BY <1>16 DEF storeChunkBatch, handleChunkStore
    <3>2. \A b \in BOOLEAN :
            [type |-> "ack", req |-> msg.req, peer |-> msg.peer, ok |-> b] \in AckMsg
      BY <2>1 DEF BatchMsg, AckMsg
    <3>3. (done = msg.chunks) \in BOOLEAN  OBVIOUS
    <3> QED  BY <3>1, <3>2, <3>3 DEF TypeOK
  <2> QED  BY <1>16, <2>3, <2>4 DEF storeChunkBatch, handleChunkStore, FaultIf,
       Fault, TypeOK
<1>17. ASSUME NEW p \in Peer, PeerCleanup(p) PROVE TypeOK'
  BY <1>17 DEF PeerCleanup, TypeOK
<1>18. ASSUME NEW p \in Peer, NEW m \in Message, Learns(p, m) PROVE TypeOK'
  BY <1>18 DEF Learns, TypeOK
<1>19. CASE Cleanup  BY <1>19 DEF Cleanup, DeleteChunksWithMessage, TypeOK
<1>20. ASSUME NEW p \in Peer, Disconnect(p) PROVE TypeOK'
  BY <1>20 DEF Disconnect, Fault, TypeOK
<1>21. ASSUME NEW p \in Peer, Reconnect(p) PROVE TypeOK'
  BY <1>21 DEF Reconnect, TypeOK
<1>22. CASE Crash  BY <1>22 DEF Crash, Fault, EndRun, DeleteWaiter, TypeOK
<1>23. CASE Tick  BY <1>23 DEF Tick, TypeOK
<1>24. CASE UNCHANGED vars  BY <1>24 DEF vars, TypeOK
<1> QED
  BY <1>1, <1>2, <1>3, <1>4, <1>5, <1>6, <1>7, <1>8, <1>9, <1>10, <1>11, <1>12,
     <1>13, <1>14, <1>15, <1>16, <1>17, <1>18, <1>19, <1>20, <1>21, <1>22, <1>23,
     <1>24 DEF Next, Run, ReplicaLearns, MemberCollects

\* The program's tables and the run's variables keep their types.
THEOREM TypeCorrect == Spec => []TypeOK
BY TypeInit, TypeStep, PTL DEF Spec

-----------------------------------------------------------------------------
(* The inductive invariant.                                                *)

LEMMA IInvInit == Init => IInv
<1> SUFFICES ASSUME Init PROVE IInv  OBVIOUS
<1>1. TypeOK  BY TypeInit
<1> QED
  BY <1>1, DeliveryAssumption
  DEF Init, IInv, OnlyAccepted, QueueComplete, RowsLast, CopiesLast,
      LearnedByReaders, RunShape, RunListed, BatchesLast, AnswersTrue,
      PlacedIsHeld, Accepted

\* What speaks only of tables, copies and rows survives a step that leaves them.
LEMMA TablesFrame ==
    ASSUME IInv, UNCHANGED <<now, storeVars, remoteVars, dir>>
    PROVE  /\ QueueComplete' /\ RowsLast' /\ CopiesLast'
           /\ LearnedByReaders' /\ PlacedIsHeld'
<1>1. QueueComplete'
  BY DEF IInv, QueueComplete, Accepted, Expired, storeVars
<1>2. RowsLast'
  BY DEF IInv, RowsLast, Listed, storeVars
<1>3. CopiesLast'
  BY DEF IInv, CopiesLast, Listed, storeVars, remoteVars
<1>4. LearnedByReaders'
  BY DEF IInv, LearnedByReaders, Replica, Member, remoteVars
<1>5. PlacedIsHeld'
  BY DEF IInv, PlacedIsHeld, Held, HasRead, Listed, Expired, Recipient,
         storeVars, remoteVars
<1> QED  BY <1>1, <1>2, <1>3, <1>4, <1>5

\* The same for what the run, the waiter and the network rely on.
LEMMA RunFrame ==
    ASSUME IInv, UNCHANGED <<now, storeVars, remoteVars, dir, runVars, waitVars>>,
           net' \subseteq net
    PROVE  RunShape' /\ RunListed' /\ BatchesLast' /\ AnswersTrue'
<1>1. RunShape'
  BY DEF IInv, RunShape, Recipient, runVars, waitVars
<1>2. RunListed'
  BY DEF IInv, RunListed, Listed, Expired, runVars, waitVars, storeVars
<1>3. BatchesLast'
  BY DEF IInv, BatchesLast, Listed, storeVars
<1>4. AnswersTrue'
  BY DEF IInv, AnswersTrue, Kept, Held, HasRead, Expired, runVars, waitVars,
         storeVars, remoteVars
<1> QED  BY <1>1, <1>2, <1>3, <1>4

LEMMA SendMessageStep ==
    ASSUME IInv, TypeOK', NEW m \in Message, NEW ttl \in TTLs, SendMessage(m, ttl)
    PROVE  IInv'
<1> USE DEF storeVars, runVars, waitVars, remoteVars
<1>1. Accepted \subseteq Accepted' /\ PartsOf(m) \subseteq Accepted'
  BY DEF SendMessage, prepareOutgoing, QueueOutgoing, Accepted, PartsOf
<1>2. \A c \in Accepted : deadline'[c] = deadline[c] /\ pend'[c] = pend[c]
  BY DEF SendMessage, prepareOutgoing, QueueOutgoing, Accepted, PartsOf, IInv, TypeOK
<1>3. \A c \in Chunk : c \in Accepted' => c \in Accepted \/ c \in PartsOf(m)
  BY DEF SendMessage, prepareOutgoing, QueueOutgoing, Accepted, PartsOf
<1>4. OnlyAccepted'
  <2>1. \A c \in Chunk : c \notin Accepted' => deadline'[c] = 0 /\ pend'[c] = "none"
    BY <1>1 DEF SendMessage, prepareOutgoing, QueueOutgoing, IInv, OnlyAccepted
  <2>2. jobs' \subseteq history'  BY DEF SendMessage, prepareOutgoing,
       QueueOutgoing, IInv, OnlyAccepted
  <2> QED  BY <1>1, <2>1, <2>2 DEF SendMessage, prepareOutgoing, QueueOutgoing,
       IInv, OnlyAccepted
<1>5. QueueComplete'
  BY <1>2, <1>3 DEF SendMessage, prepareOutgoing, QueueOutgoing, IInv,
       QueueComplete, Expired, Accepted
<1>6. RowsLast'
  BY <1>2 DEF SendMessage, prepareOutgoing, QueueOutgoing, IInv, RowsLast,
       OnlyAccepted, Listed
<1>7. CopiesLast'
  BY <1>2 DEF SendMessage, prepareOutgoing, QueueOutgoing, IInv, CopiesLast,
       OnlyAccepted, Listed
<1>8. LearnedByReaders'
  BY DEF SendMessage, prepareOutgoing, QueueOutgoing, IInv, LearnedByReaders, Replica, Member
<1>9. RunShape'
  BY DEF SendMessage, prepareOutgoing, QueueOutgoing, IInv, RunShape, Recipient
<1>10. RunListed'
  BY <1>2 DEF SendMessage, prepareOutgoing, QueueOutgoing, IInv, RunListed,
       RunShape, OnlyAccepted, Listed, Expired
<1>11. BatchesLast'
  BY <1>2 DEF SendMessage, prepareOutgoing, QueueOutgoing, IInv, BatchesLast,
       OnlyAccepted, Listed
<1>12. AnswersTrue'
  BY ZenonT(30), <1>2 DEF SendMessage, prepareOutgoing, QueueOutgoing, IInv, AnswersTrue,
       RunShape, OnlyAccepted, Kept, Held, HasRead,
              Expired
<1>13. PlacedIsHeld'
  <2> SUFFICES ASSUME NEW c \in Chunk, pend'[c] = "placed", ~Expired(c)'
               PROVE  \E p \in Peer : /\ KeyOf[p] # Recipient(c) /\ Listed(p, c)'
                                      /\ Held(p, c)' \/ HasRead(p, c)'
    BY DEF PlacedIsHeld, Recipient
  <2>1. c \in Accepted /\ pend[c] = "placed"
    BY <1>1 DEF SendMessage, prepareOutgoing, QueueOutgoing, IInv, OnlyAccepted,
         TypeOK
  <2>2. ~Expired(c)  BY <1>2, <2>1 DEF SendMessage, prepareOutgoing, QueueOutgoing,
       Expired
  <2>3. PICK p \in Peer : /\ KeyOf[p] # Recipient(c) /\ Listed(p, c)
                          /\ Held(p, c) \/ HasRead(p, c)
    BY <2>1, <2>2 DEF IInv, PlacedIsHeld
  <2> QED  BY <1>2, <2>1, <2>3 DEF SendMessage, prepareOutgoing, QueueOutgoing,
       Held, HasRead, Listed
<1> QED
  BY <1>4, <1>5, <1>6, <1>7, <1>8, <1>9, <1>10, <1>11, <1>12, <1>13 DEF IInv

LEMMA StartStep ==
    ASSUME IInv, TypeOK',
           (\E m \in Message : deliverOutgoing(m)) \/ GetUnplacedChunks
             \/ distributePendingChunks
    PROVE  IInv'
<1> USE DEF storeVars, runVars, waitVars, remoteVars
<1>1. /\ UNCHANGED <<now, storeVars, waitVars, net, remoteVars, dir, group, files,
                     peers, peer, parts>>
      /\ jobs' \subseteq jobs
      /\ loaded' \subseteq Accepted
      /\ work' \subseteq Accepted
      /\ \/ UNCHANGED <<holder, pc>>
         \/ holder = "none" /\ holder' # "none" /\ pc' = "next"
  BY DEF deliverOutgoing, GetUnplacedChunks, distributePendingChunks, Lock,
         IInv, OnlyAccepted, Accepted, PartsOf
<1>2. UNCHANGED pc  BY <1>1 DEF IInv, RunShape
<1>3. OnlyAccepted'  BY <1>1 DEF IInv, OnlyAccepted, Accepted
<1>4. RunShape'  BY <1>1, <1>2 DEF IInv, RunShape, Recipient
<1>5. RunListed' /\ BatchesLast' /\ AnswersTrue'
  BY <1>1 DEF IInv, RunListed, BatchesLast, AnswersTrue, Listed, Kept, Held, HasRead,
              Expired
<1> QED  BY <1>1, <1>3, <1>4, <1>5, TablesFrame DEF IInv

\* Steps of the run that send, register and mark nothing.
LEMMA LoopStep ==
    ASSUME IInv, TypeOK', NextRecipient \/ Unlock \/ GetBestPeers \/ NextPeer \/ SkipPeer
    PROVE  IInv'
<1> USE DEF storeVars, runVars, waitVars, remoteVars, NoPeerLeft, NoFileLeft,
            NoBatchLeft
<1>1. /\ UNCHANGED <<now, storeVars, jobs, loaded, waitVars, net, remoteVars, dir>>
      /\ batch = {} /\ parts' = {} /\ req = NoReq /\ pc' # "wait"
      /\ work' \subseteq work
      /\ group' \subseteq group \cup work
  BY DEF NextRecipient, Unlock, GetBestPeers, NextPeer, SkipPeer, EndRun, IInv,
         RunShape
<1>2. OnlyAccepted'  BY <1>1 DEF IInv, OnlyAccepted, Accepted
<1>3. RunShape'
  <2>1. CASE NextRecipient
    BY <1>1, <2>1 DEF NextRecipient, IInv, RunShape, Recipient
  <2>2. CASE Unlock  BY <1>1, <2>2 DEF Unlock, EndRun, IInv, RunShape, Recipient
  <2>3. CASE GetBestPeers
    BY <1>1, <2>3 DEF GetBestPeers, IInv, RunShape, Recipient
  <2>4. CASE NextPeer
    BY <1>1, <2>4 DEF NextPeer, IInv, TypeOK, RunShape, Recipient
  <2>5. CASE SkipPeer  BY <1>1, <2>5 DEF SkipPeer, IInv, RunShape, Recipient
  <2> QED  BY <2>1, <2>2, <2>3, <2>4, <2>5
<1>4. RunListed'  BY <1>1 DEF RunListed
<1>5. BatchesLast'  BY <1>1 DEF IInv, BatchesLast, Listed
<1>6. AnswersTrue'
  BY <1>1, DeliveryAssumption DEF IInv, AnswersTrue, TypeOK, BatchMsg, AckMsg
<1> QED  BY <1>1, <1>2, <1>3, <1>4, <1>5, <1>6, TablesFrame DEF IInv

-----------------------------------------------------------------------------
(* Registration.                                                           *)

\* A row that starts in the current second with the remaining lifetime rounded
\* up lasts to the last whole second before the deadline.
LEMMA RowReaches ==
    ASSUME NEW t \in Int, NEW d \in Int
    PROVE  FloorSeconds(t) + CeilSeconds(d - t) >= FloorSeconds(d)
BY DEF FloorSeconds, CeilSeconds

LEMMA WithRowsLast ==
    ASSUME IInv, NEW loc \in Peer \cup {Self}, NEW S \in SUBSET Accepted
    PROVE  /\ \A n \in Peer \cup {Self}, c \in Chunk :
                WithRows(loc, S)[n][c] # 0 =>
                    /\ WithRows(loc, S)[n][c] >= FloorSeconds(deadline[c])
                    /\ c \in Accepted
           /\ \A c \in S : WithRows(loc, S)[loc][c] >= FloorSeconds(deadline[c])
<1> DEFINE expiry(c) == FloorSeconds(now) + remainingChunkTTL(c)
           row == [c \in Chunk |-> IF c \in S /\ expiry(c) > dir[loc][c]
                                   THEN expiry(c) ELSE dir[loc][c]]
<1>1. \A c \in Chunk : /\ expiry(c) \in Int
                       /\ expiry(c) >= FloorSeconds(deadline[c])
                       /\ FloorSeconds(deadline[c]) \in Int
                       /\ dir[loc][c] \in Nat
  <2> TAKE c \in Chunk
  <2>1. deadline[c] \in Int /\ now \in Int /\ deadline[c] - now \in Int
    BY DEF IInv, TypeOK
  <2>2. FloorSeconds(now) + CeilSeconds(deadline[c] - now) >= FloorSeconds(deadline[c])
    BY <2>1, RowReaches
  <2>3. /\ FloorSeconds(now) \in Int /\ CeilSeconds(deadline[c] - now) \in Int
        /\ FloorSeconds(deadline[c]) \in Int
    BY <2>1, SecondsType
  <2>4. dir[loc][c] \in Nat  BY DEF IInv, TypeOK
  <2> QED  BY <2>2, <2>3, <2>4 DEF remainingChunkTTL
<1>2. \A c \in Chunk :
        dir[loc][c] # 0 => dir[loc][c] >= FloorSeconds(deadline[c]) /\ c \in Accepted
  BY DEF IInv, RowsLast, Listed, OnlyAccepted
<1> HIDE DEF expiry
<1>3. \A c \in Chunk : row[c] # 0 =>
          row[c] >= FloorSeconds(deadline[c]) /\ c \in Accepted
  BY <1>1, <1>2
<1>4. \A c \in S : row[c] >= FloorSeconds(deadline[c])
  BY <1>1 DEF Accepted
<1>5. WithRows(loc, S) = [dir EXCEPT ![loc] = row]  BY DEF WithRows, expiry
<1> HIDE DEF row
<1> QED
  BY <1>3, <1>4, <1>5 DEF IInv, TypeOK, RowsLast, Listed, OnlyAccepted

\* After a successful registration every live chunk of the file is listed at the
\* location; a failed one leaves only rows that last.
LEMMA RegisterEffect ==
    ASSUME IInv, NEW f, NEW loc \in Peer \cup {Self}, NEW ok \in BOOLEAN,
           registerChunkLocation(f, loc, ok)
    PROVE  /\ \A n \in Peer \cup {Self}, c \in Chunk :
                dir'[n][c] # 0 => dir'[n][c] >= FloorSeconds(deadline[c])
                                  /\ c \in Accepted
           /\ ok => \A c \in ChunksOf(f, group) :
                      Expired(c) \/ dir'[loc][c] >= FloorSeconds(deadline[c])
<1>1. PICK found \in BOOLEAN :
        \/ ok /\ Missing(f, loc, found) = {} /\ dir' = dir
        \/ ok /\ dir' = WithRows(loc, Missing(f, loc, found))
        \/ ~ok /\ dir' \in {dir, WithRows(loc, Missing(f, loc, found))}
  BY DEF registerChunkLocation
<1> DEFINE missing == Missing(f, loc, found)
<1>2. missing \in SUBSET Accepted
  BY DEF Missing, ChunksOf, IInv, OnlyAccepted, Accepted
<1>3. \A c \in ChunksOf(f, group) :
        c \in missing \/ Expired(c) \/ dir[loc][c] > FloorSeconds(now)
  BY DEF Missing
<1>4. \A c \in ChunksOf(f, group) :
        dir[loc][c] > FloorSeconds(now) => dir[loc][c] >= FloorSeconds(deadline[c])
  <2> TAKE c \in ChunksOf(f, group)
  <2> HAVE dir[loc][c] > FloorSeconds(now)
  <2>1. c \in Chunk  BY DEF ChunksOf, IInv, TypeOK
  <2>2. FloorSeconds(now) >= 0 /\ FloorSeconds(now) \in Int
    BY SecondsType DEF IInv, TypeOK
  <2>3. dir[loc][c] # 0  BY <2>1, <2>2 DEF IInv, TypeOK
  <2> QED  BY <2>1, <2>3 DEF IInv, RowsLast, Listed
<1>5. CASE dir' = dir
  <2>1. \A n \in Peer \cup {Self}, c \in Chunk :
          dir'[n][c] # 0 => dir'[n][c] >= FloorSeconds(deadline[c]) /\ c \in Accepted
    BY <1>5 DEF IInv, RowsLast, Listed, OnlyAccepted
  <2>2. ok => missing = {} \/ dir' = WithRows(loc, missing)  BY <1>1
  <2>3. \A c \in missing : WithRows(loc, missing)[loc][c] >= FloorSeconds(deadline[c])
    BY <1>2, WithRowsLast
  <2> HIDE DEF missing
  <2> QED  BY <1>3, <1>4, <1>5, <2>1, <2>2, <2>3
<1>6. CASE dir' = WithRows(loc, missing)
  <2>1. /\ \A n \in Peer \cup {Self}, c \in Chunk :
             dir'[n][c] # 0 => dir'[n][c] >= FloorSeconds(deadline[c])
                               /\ c \in Accepted
        /\ \A c \in missing : dir'[loc][c] >= FloorSeconds(deadline[c])
    <3> HIDE DEF missing
    <3>1. /\ \A n \in Peer \cup {Self}, c \in Chunk :
               WithRows(loc, missing)[n][c] # 0 =>
                   /\ WithRows(loc, missing)[n][c] >= FloorSeconds(deadline[c])
                   /\ c \in Accepted
          /\ \A c \in missing :
               WithRows(loc, missing)[loc][c] >= FloorSeconds(deadline[c])
      BY <1>2, WithRowsLast
    <3> QED  BY <1>6, <3>1
  <2>2. \A c \in Chunk : dir'[loc][c] >= dir[loc][c] /\ dir'[loc][c] \in Nat
                         /\ dir[loc][c] \in Nat
    <3> HIDE DEF missing
    <3>1. TypeOK  BY DEF IInv
    <3>2. /\ WithRows(loc, missing) \in [Peer \cup {Self} -> [Chunk -> Nat]]
          /\ \A c \in Chunk : WithRows(loc, missing)[loc][c] >= dir[loc][c]
      BY <3>1, WithRowsType
    <3>3. dir \in [Peer \cup {Self} -> [Chunk -> Nat]]  BY <3>1 DEF TypeOK
    <3> QED  BY <1>6, <3>2, <3>3
  <2>3. \A c \in Chunk : FloorSeconds(deadline[c]) \in Int
    BY SecondsType DEF IInv, TypeOK
  <2>4. \A c \in ChunksOf(f, group) : c \in Chunk
    BY DEF ChunksOf, IInv, TypeOK
  <2> HIDE DEF missing
  <2> QED  BY <1>3, <1>4, <2>1, <2>2, <2>3, <2>4
<1> QED  BY <1>1, <1>5, <1>6

\* The effect on the invariant common to both registrations.
LEMMA RegisterFrame ==
    ASSUME IInv, TypeOK', NEW f, NEW loc \in Peer \cup {Self}, NEW ok \in BOOLEAN,
           registerChunkLocation(f, loc, ok),
           UNCHANGED <<now, storeVars, jobs, loaded, work, group, net, remoteVars>>
    PROVE  /\ OnlyAccepted' /\ QueueComplete' /\ RowsLast' /\ CopiesLast'
           /\ LearnedByReaders' /\ BatchesLast' /\ PlacedIsHeld'
           /\ \A n \in Peer \cup {Self}, c \in Chunk : Listed(n, c) => Listed(n, c)'
<1> USE DEF storeVars, remoteVars
<1>1. \A n \in Peer \cup {Self}, c \in Chunk :
        dir'[n][c] # 0 => dir'[n][c] >= FloorSeconds(deadline[c]) /\ c \in Accepted
  BY RegisterEffect
<1>2. \A n \in Peer \cup {Self}, c \in Chunk : Listed(n, c) => Listed(n, c)'
  <2> TAKE n \in Peer \cup {Self}, c \in Chunk
  <2>1. dir'[n][c] >= dir[n][c] /\ dir'[n][c] \in Nat /\ dir[n][c] \in Nat
    BY RegisterType DEF IInv, TypeOK
  <2>2. FloorSeconds(deadline[c]) \in Int  BY SecondsType DEF IInv, TypeOK
  <2> QED  BY <2>1, <2>2 DEF Listed
<1>3. OnlyAccepted'  BY <1>1 DEF IInv, OnlyAccepted, Accepted
<1>4. QueueComplete'  BY DEF IInv, QueueComplete, Accepted, Expired
<1>5. RowsLast'  BY <1>1 DEF RowsLast, Listed
<1>6. CopiesLast'  BY <1>2 DEF IInv, CopiesLast
<1>7. LearnedByReaders'  BY DEF IInv, LearnedByReaders, Replica, Member
<1>8. BatchesLast'
  BY <1>2 DEF IInv, BatchesLast, OnlyAccepted, Accepted, TypeOK, BatchMsg, AckMsg
<1>9. PlacedIsHeld'
  BY <1>2 DEF IInv, PlacedIsHeld, Held, HasRead, Expired, Recipient
<1> QED  BY <1>2, <1>3, <1>4, <1>5, <1>6, <1>7, <1>8, <1>9

LEMMA RegisterSelfStep ==
    ASSUME IInv, TypeOK', RegisterSelf PROVE IInv'
<1> USE DEF storeVars, runVars, waitVars, remoteVars
<1>1. PICK f \in files, ok \in BOOLEAN :
        registerChunkLocation(f, Self, ok) /\ files' = files \ {f}
  BY DEF RegisterSelf
<1>2. /\ UNCHANGED <<now, storeVars, jobs, loaded, holder, pc, work, group, peers,
                     peer, parts, waitVars, net, remoteVars>>
      /\ pc = "self"
  BY DEF RegisterSelf
<1>3. /\ OnlyAccepted' /\ QueueComplete' /\ RowsLast' /\ CopiesLast'
      /\ LearnedByReaders' /\ BatchesLast' /\ PlacedIsHeld'
  BY <1>1, <1>2, RegisterFrame
<1>4. RunShape'  BY <1>2 DEF IInv, RunShape, Recipient
<1>5. RunListed'  BY <1>2 DEF IInv, RunShape, RunListed
<1>6. AnswersTrue'
  BY <1>2 DEF IInv, AnswersTrue, Kept, Held, HasRead, Expired
<1> QED  BY <1>3, <1>4, <1>5, <1>6 DEF IInv

LEMMA RegisterPeerStep ==
    ASSUME IInv, TypeOK', RegisterPeer PROVE IInv'
<1> USE DEF storeVars, runVars, waitVars, remoteVars
<1>1. PICK f \in files, ok \in BOOLEAN :
        /\ registerChunkLocation(f, peer, ok)
        /\ files' = files \ {f}
        /\ parts' = IF ok THEN ChunksOf(f, group) ELSE {}
  BY DEF RegisterPeer
<1>2. /\ UNCHANGED <<now, storeVars, jobs, loaded, holder, pc, work, group, peers,
                     peer, waitVars, net, remoteVars>>
      /\ pc = "next" /\ files # {} /\ batch = {}
  BY DEF RegisterPeer, NoBatchLeft, IInv, RunShape
<1>3. peer \in Peer /\ \A c \in group : KeyOf[peer] # Recipient(c)
  BY <1>2 DEF IInv, RunShape
<1>4. /\ OnlyAccepted' /\ QueueComplete' /\ RowsLast' /\ CopiesLast'
      /\ LearnedByReaders' /\ BatchesLast' /\ PlacedIsHeld'
  BY <1>1, <1>2, <1>3, RegisterFrame
<1>5. RunShape'
  BY <1>1, <1>2, <1>3 DEF IInv, RunShape, ChunksOf, Recipient
<1>6. RunListed'
  <2>1. ok => \A c \in ChunksOf(f, group) :
                Expired(c) \/ dir'[peer][c] >= FloorSeconds(deadline[c])
    BY <1>1, <1>3, RegisterEffect
  <2> QED  BY <1>1, <1>2, <2>1 DEF RunListed, Listed, Expired
<1>7. AnswersTrue'
  BY <1>2 DEF IInv, AnswersTrue, Kept, Held, HasRead, Expired
<1> QED  BY <1>4, <1>5, <1>6, <1>7 DEF IInv

-----------------------------------------------------------------------------
(* Batches and their confirmation.                                         *)

LEMMA SendBatchStep ==
    ASSUME IInv, TypeOK', SendBatch PROVE IInv'
<1> USE DEF storeVars, runVars, waitVars, remoteVars
<1> DEFINE live(S) == {c \in S : ~Expired(c)}
<1> DEFINE msgOf(S, r) == [type |-> "batch", req |-> r, peer |-> peer,
                           chunks |-> live(S),
                           ttl |-> [c \in Chunk |-> remainingChunkTTL(c)]]
<1>1. PICK S \in SUBSET parts :
        /\ parts' = parts \ S
        /\ \/ UNCHANGED <<pc, batch, req, result, net>>
           \/ \E r \in ReqId : /\ \A msg \in net : msg.req # r
                               /\ net' = net \cup {msgOf(S, r)}
                               /\ req' = r /\ batch' = live(S)
                               /\ result' = "none" /\ pc' = "wait"
  BY DEF SendBatch
<1>2. UNCHANGED <<now, storeVars, jobs, loaded, holder, work, group, files, peers,
                  peer, remoteVars, dir>>
  BY DEF SendBatch
<1>3. /\ pc = "next" /\ holder # "none" /\ parts # {}
      /\ peer \in Peer /\ \A c \in group : KeyOf[peer] # Recipient(c)
      /\ parts \subseteq group /\ group \subseteq Accepted /\ batch = {}
  BY DEF SendBatch, IInv, RunShape, OnlyAccepted
<1>4. /\ QueueComplete' /\ RowsLast' /\ CopiesLast' /\ LearnedByReaders'
      /\ PlacedIsHeld'
  BY <1>2, TablesFrame
<1>5. CASE UNCHANGED <<pc, batch, req, result, net>>
  <2>1. OnlyAccepted'  BY <1>1, <1>2, <1>5 DEF IInv, OnlyAccepted, Accepted
  <2>2. RunShape'  BY <1>1, <1>2, <1>3, <1>5 DEF IInv, RunShape, Recipient
  <2>3. RunListed'
    BY <1>1, <1>2, <1>5 DEF IInv, RunListed, Listed, Expired
  <2>4. BatchesLast'  BY <1>2, <1>5 DEF IInv, BatchesLast, Listed
  <2>5. AnswersTrue'
    BY <1>2, <1>5 DEF IInv, AnswersTrue, Kept, Held, HasRead, Expired
  <2> QED  BY <1>4, <2>1, <2>2, <2>3, <2>4, <2>5 DEF IInv
<1>6. ASSUME NEW r \in ReqId, \A msg \in net : msg.req # r,
             net' = net \cup {msgOf(S, r)}, req' = r, batch' = live(S),
             result' = "none", pc' = "wait"
      PROVE  IInv'
  <2>1. live(S) \subseteq parts /\ \A c \in live(S) : ~Expired(c) /\ c \in Accepted
    BY <1>1, <1>3
  <2>2. \A c \in live(S) : Listed(peer, c)
    BY <2>1, <1>3 DEF IInv, RunListed
  <2>3. \A c \in live(S) : /\ remainingChunkTTL(c) > 0
                           /\ now + 2 * remainingChunkTTL(c) >= deadline[c]
    <3> TAKE c \in live(S)
    <3>1. deadline[c] \in Int /\ now \in Int /\ deadline[c] - now \in Int
      BY <2>1 DEF Accepted, IInv, TypeOK
    <3>2. deadline[c] - now > 0  BY <2>1, <3>1 DEF Expired
    <3>3. /\ CeilSeconds(deadline[c] - now) \in Int
          /\ CeilSeconds(deadline[c] - now) > 0
          /\ 2 * CeilSeconds(deadline[c] - now) >= deadline[c] - now
      BY <3>1, <3>2, SecondsType
    <3> QED  BY <3>1, <3>3 DEF remainingChunkTTL
  <2> HIDE DEF live
  <2>4. OnlyAccepted'
    BY <1>2, <1>6, <2>1 DEF IInv, OnlyAccepted, Accepted
  <2>5. RunShape'
    BY <1>1, <1>2, <1>3, <1>6, <2>1, DeliveryAssumption
    DEF IInv, RunShape, Recipient
  <2>6. RunListed'
    BY <1>1, <1>2, <1>6, <2>2 DEF IInv, RunListed, Listed, Expired
  <2>7. BatchesLast'
    BY <1>2, <1>6, <2>1, <2>2, <2>3
    DEF IInv, BatchesLast, Listed, Accepted
  <2>8. AnswersTrue'
    BY <1>2, <1>6 DEF AnswersTrue
  <2> QED  BY <1>4, <2>4, <2>5, <2>6, <2>7, <2>8 DEF IInv
<1> QED  BY <1>1, <1>5, <1>6

LEMMA BatchFailedStep ==
    ASSUME IInv, TypeOK', BatchFailed PROVE IInv'
<1> USE DEF storeVars, runVars, waitVars, remoteVars, DeleteWaiter
<1>1. /\ UNCHANGED <<now, storeVars, jobs, loaded, holder, work, group, files,
                     peers, peer, parts, net, remoteVars, dir>>
      /\ batch' = {} /\ req' = NoReq /\ result' = "none" /\ pc' = "next"
      /\ pc = "wait"
  BY DEF BatchFailed
<1>2. OnlyAccepted'  BY <1>1 DEF IInv, OnlyAccepted, Accepted
<1>3. RunShape'  BY <1>1 DEF IInv, RunShape, Recipient
<1>4. RunListed'  BY <1>1 DEF IInv, RunListed, Listed, Expired
<1>5. BatchesLast'  BY <1>1 DEF IInv, BatchesLast, Listed
<1>6. AnswersTrue'
  BY <1>1, DeliveryAssumption DEF IInv, AnswersTrue, TypeOK, BatchMsg, AckMsg
<1> QED  BY <1>1, <1>2, <1>3, <1>4, <1>5, <1>6, TablesFrame DEF IInv

\* The heart of the matter: what is marked is kept and listed at the peer.
LEMMA MarkStep ==
    ASSUME IInv, TypeOK', MarkChunkPlaced PROVE IInv'
<1> USE DEF storeVars, runVars, waitVars, remoteVars, DeleteWaiter
<1>1. PICK marked \in SUBSET batch :
        pend' = [c \in Chunk |-> IF c \in marked /\ pend[c] # "none"
                                 THEN "placed" ELSE pend[c]]
  BY DEF MarkChunkPlaced
<1>2. /\ UNCHANGED <<now, history, own, deadline, jobs, loaded, holder, work, group,
                     files, peers, peer, parts, net, remoteVars, dir>>
      /\ batch' = {} /\ req' = NoReq /\ result' = "none" /\ pc' = "next"
      /\ pc = "wait" /\ result = "ok"
  BY DEF MarkChunkPlaced
<1>3. OnlyAccepted'  BY <1>1, <1>2 DEF IInv, OnlyAccepted, Accepted
<1>4. QueueComplete'
  BY <1>1, <1>2 DEF IInv, QueueComplete, Accepted, Expired
<1>5. RowsLast' /\ CopiesLast' /\ LearnedByReaders'
  BY <1>2 DEF IInv, RowsLast, CopiesLast, LearnedByReaders, Listed, Replica, Member
<1>6. RunShape'  BY <1>2 DEF IInv, RunShape, Recipient
<1>7. RunListed'  BY <1>2 DEF IInv, RunListed, Listed, Expired
<1>8. BatchesLast'  BY <1>2 DEF IInv, BatchesLast, Listed
<1>9. AnswersTrue'
  BY <1>2, DeliveryAssumption DEF IInv, AnswersTrue, TypeOK, BatchMsg, AckMsg
<1>10. PlacedIsHeld'
  <2> SUFFICES ASSUME NEW c \in Chunk, pend'[c] = "placed", ~Expired(c)
               PROVE  \E p \in Peer : /\ KeyOf[p] # Recipient(c) /\ Listed(p, c)
                                      /\ Held(p, c) \/ HasRead(p, c)
    BY <1>2 DEF PlacedIsHeld, Recipient, Held, HasRead, Listed, Expired
  <2>1. CASE c \in batch
    <3>1. peer \in Peer /\ KeyOf[peer] # Recipient(c)
      BY <1>2, <2>1 DEF IInv, RunShape
    <3>2. Held(peer, c) \/ HasRead(peer, c)  BY <1>2, <2>1 DEF IInv, AnswersTrue, Kept
    <3>3. Listed(peer, c)  BY <2>1, <3>1 DEF IInv, RunListed
    <3> QED  BY <3>1, <3>2, <3>3
  <2>2. CASE c \notin batch
    BY <1>1, <2>2 DEF IInv, PlacedIsHeld
  <2> QED  BY <2>1, <2>2
<1> QED
  BY <1>3, <1>4, <1>5, <1>6, <1>7, <1>8, <1>9, <1>10 DEF IInv

LEMMA AcceptAckStep ==
    ASSUME IInv, TypeOK', NEW msg \in net, acceptChunkStoreAck(msg) PROVE IInv'
<1> USE DEF storeVars, runVars, waitVars, remoteVars
<1>1. /\ UNCHANGED <<now, storeVars, jobs, loaded, runVars, batch, req, remoteVars,
                     dir>>
      /\ net' \subseteq net /\ msg.type = "ack"
      /\ result' = "ok" => result = "ok" \/ (msg.req = req /\ msg.ok)
  BY DEF acceptChunkStoreAck, Waiting
<1>2. OnlyAccepted'  BY <1>1 DEF IInv, OnlyAccepted, Accepted
<1>3. RunShape'  BY <1>1 DEF IInv, RunShape, Recipient
<1>4. RunListed'  BY <1>1 DEF IInv, RunListed, Listed, Expired
<1>5. BatchesLast'  BY <1>1 DEF IInv, BatchesLast, Listed
<1>6. AnswersTrue'
  BY <1>1 DEF IInv, AnswersTrue, Kept, Held, HasRead, Expired
<1> QED  BY <1>1, <1>2, <1>3, <1>4, <1>5, <1>6, TablesFrame DEF IInv

\* A copy kept before a batch is stored, or a peer cleans up, is kept after it.
LEMMA KeptStays ==
    ASSUME IInv, NEW p \in Peer, NEW c \in Chunk,
           UNCHANGED <<now, deadline>>, learned \subseteq learned',
           \/ stored'[p][c] = stored[p][c]
           \/ stored'[p][c] >= deadline[c]
           \/ stored[p][c] <= now
           \/ HasRead(p, c),
           Kept(p, c)
    PROVE  Kept(p, c)'
<1>1. stored[p][c] <= now /\ stored[p][c] >= deadline[c] => Expired(c)
  BY DEF IInv, TypeOK, Expired
<1> QED  BY <1>1 DEF Kept, Held, HasRead, Expired

LEMMA StoreBatchStep ==
    ASSUME IInv, TypeOK', NEW msg \in net, storeChunkBatch(msg) PROVE IInv'
<1> USE DEF storeVars, runVars, waitVars, remoteVars
<1>1. msg \in BatchMsg /\ msg.type = "batch"
  BY DEF storeChunkBatch, handleChunkStore, IInv, TypeOK, AckMsg
<1> DEFINE ack(d) == [type |-> "ack", req |-> msg.req, peer |-> msg.peer,
                      ok |-> d = msg.chunks]
<1>2. PICK done \in SUBSET msg.chunks :
        /\ stored' = [stored EXCEPT ![msg.peer] = [c \in Chunk |->
                         IF c \in done THEN now + 2 * EffectiveTTL(msg.ttl[c])
                         ELSE stored[msg.peer][c]]]
        /\ \/ net' = net \ {msg}
           \/ net' = (net \ {msg}) \cup {ack(done)}
  BY DEF storeChunkBatch, handleChunkStore
<1>3. UNCHANGED <<now, storeVars, jobs, loaded, runVars, waitVars, learned, dir>>
  BY DEF storeChunkBatch, handleChunkStore
<1>4. msg.peer \in Peer /\ msg.chunks \subseteq Chunk /\ done \subseteq Chunk
  BY <1>1 DEF BatchMsg
<1>5. \A c \in done : /\ c \in Accepted
                      /\ now + 2 * EffectiveTTL(msg.ttl[c]) >= deadline[c]
                      /\ Listed(msg.peer, c)
  <2> TAKE c \in done
  <2>1. /\ c \in Accepted /\ Listed(msg.peer, c) /\ msg.ttl[c] > 0
        /\ now + 2 * msg.ttl[c] >= deadline[c]
    BY <1>1, <1>2 DEF IInv, OnlyAccepted, BatchesLast
  <2>2. msg.ttl[c] \in Int  BY <1>1, <1>4 DEF BatchMsg
  <2> QED  BY <2>1, <2>2 DEF EffectiveTTL
<1>6. \A p \in Peer, c \in Chunk :
        \/ stored'[p][c] = stored[p][c]
        \/ p = msg.peer /\ c \in done /\ stored'[p][c] >= deadline[c]
  BY <1>2, <1>4, <1>5 DEF IInv, TypeOK
<1>7. \A p \in Peer, c \in Chunk : Kept(p, c) => Kept(p, c)'
  BY <1>3, <1>6, KeptStays
<1>8. \A c \in done : Kept(msg.peer, c)'
  BY <1>2, <1>3, <1>4, <1>5 DEF Kept, Held, HasRead, IInv, TypeOK
<1>9. OnlyAccepted'
  BY <1>2, <1>3, <1>5, <1>6 DEF IInv, OnlyAccepted, Accepted
<1>10. QueueComplete' /\ RowsLast' /\ LearnedByReaders'
  BY <1>3 DEF IInv, QueueComplete, RowsLast, LearnedByReaders, Accepted, Expired,
              Listed, Replica, Member
<1>11. CopiesLast'
  BY <1>3, <1>5, <1>6 DEF IInv, CopiesLast, Listed
<1>12. RunShape' /\ RunListed'
  BY <1>3 DEF IInv, RunShape, RunListed, Recipient, Listed, Expired
<1>13. BatchesLast'  BY <1>2, <1>3 DEF IInv, BatchesLast, Listed
<1>14. AnswersTrue'
  <2>1. batch # {} => peer \in Peer  BY DEF IInv, RunShape
  <2>2. \A c \in batch : Kept(peer, c) => Kept(peer, c)'
    BY <1>3, <1>7, <2>1 DEF IInv, TypeOK, Kept, Held, HasRead, Expired
  <2>3. result' = "ok" => \A c \in batch' : Kept(peer, c)'
    BY <1>3, <2>2 DEF IInv, AnswersTrue
  <2>4. ASSUME NEW a \in net', a.req = req'
        PROVE  /\ a.type = "batch" => a.peer = peer' /\ a.chunks = batch'
               /\ a.type = "ack" /\ a.ok => \A c \in batch' : Kept(peer, c)'
    <3>1. CASE a \in net
      BY <1>3, <2>2, <2>4, <3>1 DEF IInv, AnswersTrue
    <3>2. CASE a = ack(done)
      <4>1. a.type = "ack" /\ a.req = msg.req /\ (a.ok => done = msg.chunks)
        BY <3>2
      <4>2. msg.peer = peer /\ msg.chunks = batch
        BY <1>1, <1>3, <2>4, <4>1 DEF IInv, AnswersTrue
      <4>3. \A c \in done : Kept(peer, c)'
        BY <1>3, <1>8, <4>2 DEF Kept, Held, HasRead, Expired
      <4> QED  BY <1>3, <4>1, <4>2, <4>3
    <3> QED  BY <1>2, <2>4, <3>1, <3>2
  <2> QED  BY <2>3, <2>4 DEF AnswersTrue
<1>15. PlacedIsHeld'
  <2> SUFFICES ASSUME NEW c \in Chunk, pend[c] = "placed", ~Expired(c)
               PROVE  \E p \in Peer : /\ KeyOf[p] # Recipient(c) /\ Listed(p, c)
                                      /\ Held(p, c)' \/ HasRead(p, c)'
    BY <1>3 DEF PlacedIsHeld, Recipient, Held, HasRead, Listed, Expired
  <2>1. PICK p \in Peer : /\ KeyOf[p] # Recipient(c) /\ Listed(p, c)
                          /\ Held(p, c) \/ HasRead(p, c)
    BY DEF IInv, PlacedIsHeld
  <2>2. Held(p, c)' \/ HasRead(p, c)'  BY <1>3, <1>7, <2>1 DEF Kept, Expired
  <2> QED  BY <2>1, <2>2
<1> QED
  BY <1>9, <1>10, <1>11, <1>12, <1>13, <1>14, <1>15 DEF IInv

-----------------------------------------------------------------------------
(* Housekeeping and the environment.                                       *)

LEMMA PeerCleanupStep ==
    ASSUME IInv, TypeOK', NEW p \in Peer, PeerCleanup(p) PROVE IInv'
<1> USE DEF storeVars, runVars, waitVars, remoteVars
<1>1. UNCHANGED <<now, storeVars, jobs, loaded, runVars, waitVars, net, learned, dir>>
  BY DEF PeerCleanup
<1>2. \A q \in Peer, c \in Chunk :
        \/ stored'[q][c] = stored[q][c]
        \/ /\ stored'[q][c] = 0
           /\ stored[q][c] <= now \/ HasRead(q, c)
  BY DEF PeerCleanup, IInv, TypeOK
<1>3. \A q \in Peer, c \in Chunk : Kept(q, c) => Kept(q, c)'
  BY <1>1, <1>2, KeptStays
<1>4. OnlyAccepted'  BY ZenonT(30), <1>1, <1>2 DEF IInv, OnlyAccepted, Accepted
<1>5. QueueComplete' /\ RowsLast' /\ LearnedByReaders'
  BY <1>1 DEF IInv, QueueComplete, RowsLast, LearnedByReaders, Accepted, Expired,
              Listed, Replica, Member
<1>6. CopiesLast'  BY <1>1, <1>2 DEF IInv, CopiesLast, Listed
<1>7. RunShape' /\ RunListed' /\ BatchesLast'
  BY <1>1 DEF IInv, RunShape, RunListed, BatchesLast, Recipient, Listed, Expired
<1>8. AnswersTrue'
  <2>1. batch # {} => peer \in Peer  BY DEF IInv, RunShape
  <2>2. \A c \in batch : Kept(peer, c) => Kept(peer, c)'
    BY <1>1, <1>3, <2>1 DEF IInv, TypeOK, Kept, Held, HasRead, Expired
  <2> QED  BY <1>1, <2>2 DEF IInv, AnswersTrue
<1>9. PlacedIsHeld'
  <2> SUFFICES ASSUME NEW c \in Chunk, pend[c] = "placed", ~Expired(c)
               PROVE  \E q \in Peer : /\ KeyOf[q] # Recipient(c) /\ Listed(q, c)
                                      /\ Held(q, c)' \/ HasRead(q, c)'
    BY <1>1 DEF PlacedIsHeld, Recipient, Held, HasRead, Listed, Expired
  <2>1. PICK q \in Peer : /\ KeyOf[q] # Recipient(c) /\ Listed(q, c)
                          /\ Held(q, c) \/ HasRead(q, c)
    BY DEF IInv, PlacedIsHeld
  <2>2. Held(q, c)' \/ HasRead(q, c)'  BY <1>1, <1>3, <2>1 DEF Kept, Expired
  <2> QED  BY <2>1, <2>2
<1> QED  BY <1>4, <1>5, <1>6, <1>7, <1>8, <1>9 DEF IInv

LEMMA LearnsStep ==
    ASSUME IInv, TypeOK', NEW p \in Peer, NEW m \in Message,
           ReplicaLearns(p, m) \/ MemberCollects(p, m)
    PROVE  IInv'
<1> USE DEF storeVars, runVars, waitVars, remoteVars
<1>1. /\ UNCHANGED <<now, storeVars, jobs, loaded, runVars, waitVars, net, stored, dir>>
      /\ learned' = learned \cup {<<p, m>>} /\ p \in Replica \cup Member(m)
  <2>1. learned' = learned \cup {<<p, m>>}
        /\ UNCHANGED <<now, storeVars, jobs, loaded, runVars, waitVars, net, stored, dir>>
    BY DEF ReplicaLearns, MemberCollects, Learns
  <2>2. CASE MemberCollects(p, m)  BY <2>1, <2>2 DEF MemberCollects
  <2>3. CASE ReplicaLearns(p, m)
    <3>1. CASE KeyOf[p] = SelfKey  BY <2>1, <3>1 DEF Replica
    <3>2. CASE \E q \in Peer : KeyOf[q] = KeyOf[p] /\ <<q, m>> \in learned
      <4>1. PICK q \in Peer : KeyOf[q] = KeyOf[p] /\ <<q, m>> \in learned  BY <3>2
      <4>2. q \in Replica \cup Member(m)  BY <4>1 DEF IInv, LearnedByReaders
      <4> QED  BY <2>1, <4>1, <4>2 DEF Replica, Member
    <3> QED  BY <2>3, <3>1, <3>2 DEF ReplicaLearns, KnownTo
  <2> QED  BY <2>2, <2>3
<1>2. OnlyAccepted' /\ QueueComplete' /\ RowsLast' /\ CopiesLast'
  BY <1>1 DEF IInv, OnlyAccepted, QueueComplete, RowsLast, CopiesLast, Accepted,
              Expired, Listed
<1>3. LearnedByReaders'  BY <1>1 DEF IInv, LearnedByReaders, Replica, Member
<1>4. RunShape' /\ RunListed' /\ BatchesLast'
  BY <1>1 DEF IInv, RunShape, RunListed, BatchesLast, Recipient, Listed, Expired
<1>5. AnswersTrue'
  BY <1>1 DEF IInv, AnswersTrue, Kept, Held, HasRead, Expired
<1>6. PlacedIsHeld'
  BY <1>1 DEF IInv, PlacedIsHeld, Held, HasRead, Listed, Expired, Recipient
<1> QED  BY <1>2, <1>3, <1>4, <1>5, <1>6 DEF IInv

LEMMA CleanupStep ==
    ASSUME IInv, TypeOK', Cleanup PROVE IInv'
<1> USE DEF storeVars, runVars, waitVars, remoteVars
<1>1. /\ UNCHANGED <<now, history, deadline, jobs, loaded, runVars, waitVars, net,
                     remoteVars, dir>>
      /\ pend' = [c \in Chunk |-> IF Expired(c) THEN "none" ELSE pend[c]]
  BY DEF Cleanup, DeleteChunksWithMessage
<1>2. OnlyAccepted'  BY <1>1 DEF IInv, OnlyAccepted, Accepted
<1>3. QueueComplete'  BY <1>1 DEF IInv, QueueComplete, Accepted, Expired
<1>4. RowsLast' /\ CopiesLast' /\ LearnedByReaders'
  BY <1>1 DEF IInv, RowsLast, CopiesLast, LearnedByReaders, Listed, Replica, Member
<1>5. RunShape' /\ RunListed' /\ BatchesLast'
  BY <1>1 DEF IInv, RunShape, RunListed, BatchesLast, Recipient, Listed, Expired
<1>6. AnswersTrue'
  BY <1>1 DEF IInv, AnswersTrue, Kept, Held, HasRead, Expired
<1>7. PlacedIsHeld'
  BY <1>1 DEF IInv, PlacedIsHeld, Held, HasRead, Listed, Expired, Recipient
<1> QED  BY <1>2, <1>3, <1>4, <1>5, <1>6, <1>7 DEF IInv

LEMMA ChannelStep ==
    ASSUME IInv, TypeOK', NEW p \in Peer, Disconnect(p) \/ Reconnect(p) PROVE IInv'
<1> USE DEF storeVars, runVars, waitVars, remoteVars
<1>1. /\ UNCHANGED <<now, storeVars, jobs, loaded, runVars, waitVars, remoteVars, dir>>
      /\ net' \subseteq net
  BY DEF Disconnect, Reconnect
<1>2. OnlyAccepted'  BY <1>1 DEF IInv, OnlyAccepted, Accepted
<1> QED  BY <1>1, <1>2, TablesFrame, RunFrame DEF IInv

LEMMA CrashStep ==
    ASSUME IInv, TypeOK', Crash PROVE IInv'
<1> USE DEF storeVars, runVars, waitVars, remoteVars
<1>1. /\ UNCHANGED <<now, storeVars, remoteVars, dir>>
      /\ jobs' = {} /\ loaded' = {} /\ work' = {} /\ group' = {} /\ files' = {}
      /\ peers' = {} /\ parts' = {} /\ batch' = {} /\ net' = {}
      /\ holder' = "none" /\ pc' = "next" /\ req' = NoReq /\ result' = "none"
  BY DEF Crash, EndRun, DeleteWaiter
<1>2. OnlyAccepted'  BY <1>1 DEF IInv, OnlyAccepted, Accepted
<1>3. RunShape' /\ RunListed' /\ BatchesLast' /\ AnswersTrue'
  BY <1>1 DEF RunShape, RunListed, BatchesLast, AnswersTrue
<1> QED  BY <1>1, <1>2, <1>3, TablesFrame DEF IInv

LEMMA TickStep ==
    ASSUME IInv, TypeOK', Tick PROVE IInv'
<1> USE DEF storeVars, runVars, waitVars, remoteVars
<1>1. /\ UNCHANGED <<storeVars, jobs, loaded, runVars, waitVars, net, remoteVars, dir>>
      /\ now' = now + 1 /\ now \in Nat
  BY DEF Tick, IInv, TypeOK
<1>2. \A c \in Chunk : Expired(c) => Expired(c)'
  BY <1>1 DEF Expired, IInv, TypeOK
<1>3. \A p \in Peer, c \in Chunk : /\ Kept(p, c) => Kept(p, c)'
                                   /\ Held(p, c) => Held(p, c)'
                                   /\ HasRead(p, c) => HasRead(p, c)'
                                   /\ Listed(p, c) => Listed(p, c)'
  BY <1>1, <1>2 DEF Kept, Held, HasRead, Listed
<1>4. OnlyAccepted'  BY <1>1 DEF IInv, OnlyAccepted, Accepted
<1>5. QueueComplete'  BY <1>1, <1>2 DEF IInv, QueueComplete, Accepted
<1>6. RowsLast' /\ CopiesLast' /\ LearnedByReaders'
  BY <1>1 DEF IInv, RowsLast, CopiesLast, LearnedByReaders, Listed, Replica, Member
<1>7. RunShape'  BY <1>1 DEF IInv, RunShape, Recipient
<1>8. RunListed'
  BY <1>1, <1>2 DEF IInv, RunListed, TypeOK, Listed
<1>9. BatchesLast'
  <2> SUFFICES ASSUME NEW msg \in net, msg.type = "batch", NEW c \in msg.chunks
               PROVE  /\ msg.ttl[c] > 0 /\ now' + 2 * msg.ttl[c] >= deadline[c]
                      /\ Listed(msg.peer, c)
    BY <1>1 DEF BatchesLast, Listed
  <2>1. msg \in BatchMsg  BY DEF IInv, TypeOK, AckMsg
  <2>2. c \in Chunk /\ msg.ttl[c] \in Int /\ deadline[c] \in Int
    BY <2>1 DEF BatchMsg, IInv, TypeOK
  <2>3. /\ msg.ttl[c] > 0 /\ now + 2 * msg.ttl[c] >= deadline[c]
        /\ Listed(msg.peer, c)
    BY DEF IInv, BatchesLast
  <2> QED  BY <1>1, <2>2, <2>3
<1>10. AnswersTrue'
  <2>1. \A c \in batch : Kept(peer, c) => Kept(peer, c)'
    BY <1>1, <1>2 DEF IInv, TypeOK, Kept, Held, HasRead
  <2> QED  BY <1>1, <2>1 DEF IInv, AnswersTrue
<1>11. PlacedIsHeld'
  BY <1>1, <1>2, <1>3 DEF IInv, PlacedIsHeld, Recipient
<1> QED
  BY <1>4, <1>5, <1>6, <1>7, <1>8, <1>9, <1>10, <1>11 DEF IInv

LEMMA IInvStep == IInv /\ [Next]_vars => IInv'
<1> SUFFICES ASSUME IInv, [Next]_vars PROVE IInv'  OBVIOUS
<1>1. TypeOK'  BY TypeStep DEF IInv
<1>2. CASE UNCHANGED vars
  <2>1. OnlyAccepted'
    BY <1>2 DEF IInv, OnlyAccepted, Accepted, vars, storeVars, runVars, remoteVars
  <2>2. UNCHANGED <<now, storeVars, remoteVars, dir, runVars, waitVars, net>>
    BY <1>2 DEF vars
  <2> QED  BY <1>1, <2>1, <2>2, TablesFrame, RunFrame DEF IInv
<1>3. CASE Run
  BY <1>1, <1>3, LoopStep, RegisterSelfStep, RegisterPeerStep, SendBatchStep,
     MarkStep, BatchFailedStep DEF Run
<1> QED
  BY <1>1, <1>2, <1>3, SendMessageStep, StartStep, AcceptAckStep, StoreBatchStep,
     PeerCleanupStep, LearnsStep, CleanupStep, ChannelStep, CrashStep,
     TickStep DEF Next

-----------------------------------------------------------------------------
(* The theorems.                                                           *)

\* The inductive invariant holds in every state of every behaviour: what a queued,
\* sent, stored or acknowledged chunk implies about the tables and the directory.
THEOREM Invariance == Spec => []IInv
BY IInvInit, IInvStep, PTL DEF Spec

\* A chunk is marked placed only when a node other than the recipient's committed
\* a copy to the end of its TTL and Muninn lists it there, for any number of peers,
\* chunks, faults and crashes; the node drops it before only when it has the text
\* in its own history.
THEOREM PlacedChunksAreHeld == Spec => []PlacedIsHeld
<1>1. IInv => PlacedIsHeld  BY DEF IInv
<1> QED  BY <1>1, Invariance, PTL

\* No peer holds a copy that the directory does not list.
THEOREM CopiesAreListed == Spec => []EveryCopyIsListed
<1>1. IInv => EveryCopyIsListed  BY DEF IInv, CopiesLast, EveryCopyIsListed
<1> QED  BY <1>1, Invariance, PTL

\* The sender can serve every accepted chunk until its TTL ends.
THEOREM SenderAlwaysServes == Spec => []SenderServes
<1>1. IInv => SenderServes
  BY DEF IInv, QueueComplete, SenderServes, GetChunk, Accepted
<1> QED  BY <1>1, Invariance, PTL

\* Queue rows only move forward and deadlines never move.
THEOREM QueueForward == Spec => QueueMovesForward
<1> DEFINE Forward ==
      \A c \in Chunk :
        /\ pend[c] # "none" /\ pend'[c] = "none" => Expired(c)
        /\ pend[c] = "placed" => pend'[c] # "unplaced"
        /\ deadline[c] # 0 => deadline'[c] = deadline[c]
<1>1. IInv /\ [Next]_vars => [Forward]_vars
  <2> SUFFICES ASSUME IInv, Next PROVE Forward  OBVIOUS
  <2> USE DEF storeVars, runVars
  <2>1. ASSUME NEW m \in Message, NEW ttl \in TTLs, SendMessage(m, ttl) PROVE Forward
    BY <2>1 DEF SendMessage, prepareOutgoing, QueueOutgoing, PartsOf, IInv,
         OnlyAccepted, Accepted, TypeOK
  <2>2. CASE Cleanup  BY <2>2 DEF Cleanup, DeleteChunksWithMessage, IInv, TypeOK
  <2>3. CASE MarkChunkPlaced  BY <2>3 DEF MarkChunkPlaced, IInv, TypeOK
  <2>4. CASE UNCHANGED <<pend, deadline>>  BY <2>4 DEF IInv, TypeOK
  <2>5. (Run /\ ~MarkChunkPlaced) => UNCHANGED <<pend, deadline>>
    BY DEF Run, NextRecipient, Unlock, RegisterSelf, GetBestPeers, NextPeer,
           SkipPeer, RegisterPeer, SendBatch, BatchFailed
  <2>6. /\ \A m \in Message : deliverOutgoing(m) => UNCHANGED <<pend, deadline>>
        /\ GetUnplacedChunks \/ distributePendingChunks \/ Crash \/ Tick =>
             UNCHANGED <<pend, deadline>>
        /\ \A msg \in net : acceptChunkStoreAck(msg) \/ storeChunkBatch(msg) =>
             UNCHANGED <<pend, deadline>>
        /\ \A p \in Peer : PeerCleanup(p) \/ Disconnect(p) \/ Reconnect(p) =>
             UNCHANGED <<pend, deadline>>
        /\ \A p \in Peer, m \in Message : ReplicaLearns(p, m) \/ MemberCollects(p, m) =>
             UNCHANGED <<pend, deadline>>
    BY DEF deliverOutgoing, GetUnplacedChunks, distributePendingChunks, Crash, Tick,
           acceptChunkStoreAck, storeChunkBatch, handleChunkStore, PeerCleanup,
           Disconnect, Reconnect,
           ReplicaLearns, MemberCollects, Learns
  <2> HIDE DEF Forward
  <2> QED  BY <2>1, <2>2, <2>3, <2>4, <2>5, <2>6 DEF Next
<1> QED  BY <1>1, Invariance, PTL DEF Spec, QueueMovesForward

-----------------------------------------------------------------------------
(* The outbox keeps its promise: Delivery implements Outbox.               *)

\* A chunk with a queue row is one of the two live states.
LEMMA StatusCases ==
    ASSUME IInv, NEW c \in Chunk
    PROVE  /\ deadline[c] = 0 => OutboxStatus[c] = "new"
           /\ deadline[c] # 0 /\ Expired(c) => OutboxStatus[c] = "over"
           /\ Alive(c) => /\ pend[c] \in {"unplaced", "placed"}
                          /\ pend[c] = "unplaced" => OutboxStatus[c] = "kept"
                          /\ pend[c] = "placed" => OutboxStatus[c] = "shared"
           /\ Alive(c) <=> Promise!Live(c)
           /\ Alive(c) => OutboxCopies[c] = {p \in StorageFor[c] : Held(p, c) /\ Listed(p, c)}
           /\ ~Alive(c) => OutboxCopies[c] = {}
<1>1. Alive(c) => pend[c] \in {"unplaced", "placed"}
  BY DEF Alive, IInv, TypeOK, OnlyAccepted, QueueComplete
<1>2. /\ deadline[c] = 0 => OutboxStatus[c] = "new"
      /\ deadline[c] # 0 /\ Expired(c) => OutboxStatus[c] = "over"
      /\ Alive(c) /\ pend[c] = "unplaced" => OutboxStatus[c] = "kept"
      /\ Alive(c) /\ pend[c] = "placed" => OutboxStatus[c] = "shared"
  BY DEF OutboxStatus, Alive
<1>3. Alive(c) <=> Promise!Live(c)
  BY <1>1, <1>2 DEF Promise!Live, Alive
<1>4. /\ Alive(c) => OutboxCopies[c] = {p \in StorageFor[c] : Held(p, c) /\ Listed(p, c)}
      /\ ~Alive(c) => OutboxCopies[c] = {}
  BY DEF OutboxCopies
<1> QED  BY <1>1, <1>2, <1>3, <1>4

\* Chunks whose life and queue row are what they were look the same.
LEMMA SameStatus ==
    ASSUME UNCHANGED deadline, NEW c \in Chunk, Expired(c)' = Expired(c),
           Alive(c) => pend'[c] = pend[c]
    PROVE  OutboxStatus'[c] = OutboxStatus[c] /\ Alive(c)' = Alive(c)
  BY DEF OutboxStatus, Alive

\* Nobody reads a message.
LEMMA SameRead ==
    ASSUME UNCHANGED learned PROVE UNCHANGED OutboxRead
BY DEF OutboxRead, OutboxReaders, HasRead, Replica, Member

\* A step at whose end one peer may hold more of the chunks that live.
LEMMA CopyRefines ==
    ASSUME IInv, UNCHANGED <<now, pend, deadline, learned>>, NEW p \in Peer,
           \A c \in Chunk : Alive(c) =>
             /\ \A q \in Peer : Held(q, c) /\ Listed(q, c) => Held(q, c)' /\ Listed(q, c)'
             /\ \A q \in Peer \ {p} : Held(q, c)' /\ Listed(q, c)' => Held(q, c) /\ Listed(q, c)
    PROVE  Promise!Copy(p)
<1> DEFINE S == {c \in Chunk : Alive(c) /\ p \in StorageFor[c] /\ Held(p, c)' /\ Listed(p, c)'}
<1>1. \A c \in Chunk : Expired(c)' = Expired(c) /\ Alive(c)' = Alive(c)
  BY DEF Expired, Alive
<1>2. UNCHANGED OutboxStatus
  BY <1>1, SameStatus DEF OutboxStatus, Alive
<1>3. ASSUME NEW c \in Chunk
      PROVE  OutboxCopies'[c] = IF c \in S THEN OutboxCopies[c] \cup {p} ELSE OutboxCopies[c]
  <2>1. CASE ~Alive(c)  BY <1>1, <2>1 DEF OutboxCopies
  <2>2. CASE Alive(c)
    <3>1. /\ OutboxCopies[c] = {q \in StorageFor[c] : Held(q, c) /\ Listed(q, c)}
          /\ OutboxCopies'[c] = {q \in StorageFor[c] : Held(q, c)' /\ Listed(q, c)'}
      BY <1>1, <2>2 DEF OutboxCopies, StorageFor, Recipient
    <3>2. StorageFor[c] \subseteq Peer  BY DEF StorageFor
    <3> QED  BY <2>2, <3>1, <3>2
  <2> QED  BY <2>1, <2>2
<1>4. OutboxCopies' = [c \in Chunk |-> IF c \in S THEN OutboxCopies[c] \cup {p} ELSE OutboxCopies[c]]
  BY <1>3 DEF OutboxCopies
<1>5. S \in SUBSET {c \in Chunk : Promise!Live(c) /\ p \in StorageFor[c]}
  BY StatusCases
<1> HIDE DEF S
<1> QED  BY <1>2, <1>4, <1>5, SameRead DEF Promise!Copy

\* Advertising the sender's own copy is no copy at a peer.
LEMMA StutterRefines ==
    ASSUME UNCHANGED <<now, pend, deadline, stored, learned>>,
           \A p \in Peer : dir'[p] = dir[p]
    PROVE  UNCHANGED Promise!vars
<1>1. \A c \in Chunk : Expired(c)' = Expired(c) /\ Alive(c)' = Alive(c)
  BY DEF Expired, Alive
<1>2. UNCHANGED OutboxStatus  BY <1>1 DEF OutboxStatus
<1>3. UNCHANGED OutboxCopies
  BY <1>1 DEF OutboxCopies, StorageFor, Recipient, Held, Listed
<1> QED  BY <1>2, <1>3, SameRead DEF Promise!vars

\* All chunks of a message become kept at once, and nobody holds one yet.
LEMMA AcceptRefines ==
    ASSUME IInv, NEW m \in Message, NEW ttl \in TTLs, SendMessage(m, ttl)
    PROVE  Promise!Accept(m)
<1> DEFINE life == EffectiveTTL(ttl)
<1>1. life \in Nat \ {0}  BY EffectiveTTLType, DeliveryAssumption
<1>2. /\ m \notin history /\ now \in Nat
      /\ UNCHANGED <<now, stored, learned, dir>>
      /\ \A c \in Chunk : MsgOf[c] = m => pend'[c] = "unplaced" /\ deadline'[c] = now + 2 * life
      /\ \A c \in Chunk : MsgOf[c] # m => pend'[c] = pend[c] /\ deadline'[c] = deadline[c]
  BY DEF SendMessage, prepareOutgoing, QueueOutgoing, PartsOf, remoteVars, IInv, TypeOK
<1> HIDE DEF life
<1>3. ASSUME NEW c \in Chunk, MsgOf[c] = m
      PROVE  /\ OutboxStatus[c] = "new" /\ OutboxStatus'[c] = "kept"
             /\ OutboxCopies[c] = {} /\ OutboxCopies'[c] = {}
  <2>1. c \notin Accepted /\ deadline[c] = 0  BY <1>2, <1>3 DEF Accepted, IInv, OnlyAccepted
  <2>2. deadline'[c] >= now + 2 /\ deadline'[c] # 0 /\ Alive(c)'
    BY <1>1, <1>2, <1>3 DEF Alive, Expired
  <2>3. OutboxStatus[c] = "new" /\ OutboxCopies[c] = {}
    BY <2>1 DEF OutboxStatus, OutboxCopies, Alive
  <2>4. OutboxStatus'[c] = "kept"
    BY <1>2, <1>3, <2>2 DEF OutboxStatus, Alive
  <2>5. \A p \in Peer : ~Listed(p, c)'
    <3> TAKE p \in Peer
    <3>1. dir'[p][c] = 0  BY <1>2, <2>1 DEF IInv, OnlyAccepted
    <3>2. FloorSeconds(deadline'[c]) \in Nat \ {0}
      BY <1>1, <1>2, <1>3 DEF FloorSeconds
    <3> QED  BY <3>1, <3>2 DEF Listed
  <2>6. OutboxCopies'[c] = {}
    BY <2>2, <2>5 DEF OutboxCopies, StorageFor
  <2> QED  BY <2>3, <2>4, <2>6
<1>4. ASSUME NEW c \in Chunk, MsgOf[c] # m
      PROVE  OutboxStatus'[c] = OutboxStatus[c] /\ OutboxCopies'[c] = OutboxCopies[c]
  <2>1. /\ Expired(c)' = Expired(c) /\ Alive(c)' = Alive(c)
    BY <1>2, <1>4 DEF Expired, Alive
  <2>2. OutboxStatus'[c] = OutboxStatus[c]
    BY <1>2, <1>4, <2>1 DEF OutboxStatus
  <2>3. \A p \in Peer : Held(p, c)' = Held(p, c) /\ Listed(p, c)' = Listed(p, c)
    BY <1>2, <1>4 DEF Held, Listed
  <2>4. OutboxCopies'[c] = OutboxCopies[c]
    BY <2>1, <2>3 DEF OutboxCopies, StorageFor, Recipient
  <2> QED  BY <2>2, <2>4
<1>5. OutboxStatus' = [c \in Chunk |-> IF MsgOf[c] = m THEN "kept" ELSE OutboxStatus[c]]
  BY <1>3, <1>4 DEF OutboxStatus
<1>6. UNCHANGED OutboxCopies
  BY <1>3, <1>4 DEF OutboxCopies
<1>7. UNCHANGED OutboxRead  BY <1>2, SameRead
<1> QED  BY <1>3, <1>5, <1>6, <1>7 DEF Promise!Accept

\* Who has read a chunk is one of those who may.
LEMMA ReadByReaders ==
    ASSUME IInv, NEW p, NEW c \in Chunk, HasRead(p, c)
    PROVE  p \in OutboxRead[c]
<1>1. p \in Replica \cup Member(MsgOf[c]) /\ FileOf[c] = TextFile[MsgOf[c]]
  BY DEF HasRead, IInv, LearnedByReaders
<1> QED  BY <1>1 DEF OutboxRead, OutboxReaders

\* A confirmed batch is kept, and listed, at the peer that confirmed it, unless that
\* peer has read it.
LEMMA MarkRefines ==
    ASSUME IInv, MarkChunkPlaced
    PROVE  Promise!Share
<1>1. PICK marked \in SUBSET batch :
        pend' = [c \in Chunk |-> IF c \in marked /\ pend[c] # "none" THEN "placed" ELSE pend[c]]
  BY DEF MarkChunkPlaced
<1>2. /\ result = "ok" /\ batch \subseteq Chunk
      /\ UNCHANGED <<now, deadline, stored, learned, dir>>
  BY DEF MarkChunkPlaced, remoteVars, IInv, TypeOK
<1> DEFINE S == {c \in Chunk : c \in marked /\ Alive(c)}
<1>3. \A c \in Chunk : Expired(c)' = Expired(c) /\ Alive(c)' = Alive(c)
  BY <1>2 DEF Expired, Alive
<1>4. ASSUME NEW c \in Chunk
      PROVE  OutboxStatus'[c] = IF c \in S THEN "shared" ELSE OutboxStatus[c]
  <2>1. CASE c \in S
    <3>1. Alive(c)' /\ pend'[c] = "placed"  BY <1>1, <1>3, <2>1, StatusCases
    <3> QED  BY <2>1, <3>1 DEF OutboxStatus, Alive
  <2>2. CASE c \notin S
    <3>1. Alive(c) => pend'[c] = pend[c]  BY <1>1, <2>2
    <3> QED  BY <1>2, <1>3, <2>2, <3>1, SameStatus
  <2> QED  BY <2>1, <2>2
<1>5. OutboxStatus' = [c \in Chunk |-> IF c \in S THEN "shared" ELSE OutboxStatus[c]]
  BY <1>4 DEF OutboxStatus
<1>6. UNCHANGED OutboxCopies
  BY <1>2, <1>3 DEF OutboxCopies, StorageFor, Recipient, Held, Listed
<1>7. \A c \in S : /\ Promise!Live(c)
                   /\ peer \in OutboxCopies[c] \cup (OutboxRead[c] \cap StorageFor[c])
  <2> TAKE c \in S
  <2>1. c \in batch /\ Alive(c) /\ c \in Chunk  BY <1>1
  <2>2. peer \in Peer /\ KeyOf[peer] # Recipient(c)
    BY <2>1 DEF IInv, RunShape
  <2>3. (Held(peer, c) \/ HasRead(peer, c)) /\ Listed(peer, c)
    BY <1>2, <2>1, <2>2 DEF IInv, AnswersTrue, RunListed, Kept, Alive
  <2>4. peer \in StorageFor[c]  BY <2>1, <2>2 DEF StorageFor
  <2>5. CASE Held(peer, c)
    <3>1. peer \in OutboxCopies[c]  BY <2>1, <2>3, <2>4, <2>5 DEF OutboxCopies
    <3> QED  BY <2>1, <3>1, StatusCases
  <2>6. CASE HasRead(peer, c)
    <3>1. peer \in OutboxRead[c]  BY <2>1, <2>6, ReadByReaders
    <3> QED  BY <2>1, <2>4, <3>1, StatusCases
  <2> QED  BY <2>3, <2>5, <2>6
<1>8. S \in SUBSET {c \in Chunk : /\ Promise!Live(c)
                                 /\ OutboxCopies[c] \cup (OutboxRead[c] \cap StorageFor[c]) # {}}
  BY <1>7
<1>9. UNCHANGED OutboxRead  BY <1>2, SameRead
<1> HIDE DEF S
<1> QED  BY <1>5, <1>6, <1>8, <1>9 DEF Promise!Share

\* The clock ends chunks and does nothing else.
LEMMA TickRefines ==
    ASSUME IInv, Tick
    PROVE  Promise!Expire
<1> DEFINE S == {c \in Chunk : Alive(c) /\ Expired(c)'}
<1>1. now \in Nat /\ now' = now + 1 /\ UNCHANGED <<pend, deadline, stored, learned, dir>>
  BY DEF Tick, storeVars, remoteVars, IInv, TypeOK
<1>2. \A c \in Chunk : deadline[c] \in Nat /\ (Expired(c) => Expired(c)')
  BY <1>1 DEF Expired, IInv, TypeOK
<1>3. ASSUME NEW c \in Chunk
      PROVE  /\ OutboxStatus'[c] = IF c \in S THEN "over" ELSE OutboxStatus[c]
             /\ OutboxCopies'[c] = IF c \in S THEN {} ELSE OutboxCopies[c]
  <2>1. CASE c \in S
    BY <1>1, <2>1 DEF OutboxStatus, OutboxCopies, Alive
  <2>2. CASE c \notin S
    <3>1. (Alive(c)' <=> Alive(c)) /\ (deadline[c] # 0 => (Expired(c)' <=> Expired(c)))
      BY <1>1, <1>2, <2>2 DEF Alive
    <3>2. OutboxStatus'[c] = OutboxStatus[c]
      BY <1>1, <3>1 DEF OutboxStatus
    <3>3. OutboxCopies'[c] = OutboxCopies[c]
      BY <1>1, <3>1 DEF OutboxCopies, StorageFor, Recipient, Held, Listed
    <3> QED  BY <2>2, <3>2, <3>3
  <2> QED  BY <2>1, <2>2
<1>4. /\ OutboxStatus' = [c \in Chunk |-> IF c \in S THEN "over" ELSE OutboxStatus[c]]
      /\ OutboxCopies' = [c \in Chunk |-> IF c \in S THEN {} ELSE OutboxCopies[c]]
  <2> HIDE DEF S
  <2>1. OutboxStatus' = [c \in Chunk |-> IF c \in S THEN "over" ELSE OutboxStatus[c]]
    BY <1>3 DEF OutboxStatus
  <2>2. OutboxCopies' = [c \in Chunk |-> IF c \in S THEN {} ELSE OutboxCopies[c]]
    BY <1>3 DEF OutboxCopies
  <2> QED  BY <2>1, <2>2
<1>5. S \in SUBSET {c \in Chunk : Promise!Live(c)}  BY StatusCases
<1> HIDE DEF S
<1>6. UNCHANGED OutboxRead  BY <1>1, SameRead
<1> QED  BY <1>4, <1>5, <1>6 DEF Promise!Expire

\* registerChunkLocation touches the rows of one location.
LEMMA RegisterOneLocation ==
    ASSUME TypeOK, NEW f, NEW loc \in Peer \cup {Self}, NEW ok,
           registerChunkLocation(f, loc, ok)
    PROVE  \A n \in (Peer \cup {Self}) \ {loc} : dir'[n] = dir[n]
<1>1. dir' = dir \/ \E found \in BOOLEAN : dir' = WithRows(loc, Missing(f, loc, found))
  BY DEF registerChunkLocation
<1>2. ASSUME NEW S PROVE \A n \in (Peer \cup {Self}) \ {loc} : WithRows(loc, S)[n] = dir[n]
  BY DEF WithRows, TypeOK
<1> QED  BY <1>1, <1>2

\* Registering a location takes no copy away.
LEMMA RegisterPeerRefines ==
    ASSUME IInv, RegisterPeer
    PROVE  \E p \in Peer : Promise!Copy(p)
<1>1. PICK f \in files, ok \in BOOLEAN : registerChunkLocation(f, peer, ok)
  BY DEF RegisterPeer
<1>2. peer \in Peer
  BY DEF RegisterPeer, NoBatchLeft, IInv, RunShape
<1>3. UNCHANGED <<now, pend, deadline, stored, learned>>
  BY DEF RegisterPeer, storeVars, remoteVars
<1>4. /\ \A n \in Peer, c \in Chunk : dir'[n][c] >= dir[n][c] /\ dir[n][c] \in Nat /\ dir'[n][c] \in Nat
      /\ \A n \in Peer \ {peer} : dir'[n] = dir[n]
  <2>1. TypeOK /\ Self \notin Peer  BY DeliveryAssumption DEF IInv
  <2>2. peer \in Peer \cup {Self}  BY <1>2
  <2>3. /\ dir' \in [Peer \cup {Self} -> [Chunk -> Nat]]
        /\ \A n \in Peer \cup {Self}, c \in Chunk : dir'[n][c] >= dir[n][c]
    BY <1>1, <2>1, <2>2, RegisterType
  <2>4. \A n \in (Peer \cup {Self}) \ {peer} : dir'[n] = dir[n]
    BY <1>1, <2>1, <2>2, RegisterOneLocation
  <2>5. dir \in [Peer \cup {Self} -> [Chunk -> Nat]]  BY <2>1 DEF TypeOK
  <2> QED  BY <2>3, <2>4, <2>5
<1>5. \A q \in Peer, c \in Chunk : Held(q, c)' = Held(q, c)
  BY <1>3 DEF Held
<1>6. \A q \in Peer, c \in Chunk : Listed(q, c) => Listed(q, c)'
  <2> TAKE q \in Peer, c \in Chunk
  <2>1. FloorSeconds(deadline[c]) \in Int  BY SecondsType DEF IInv, TypeOK
  <2>2. dir'[q][c] >= dir[q][c] /\ dir[q][c] \in Nat /\ dir'[q][c] \in Nat  BY <1>4
  <2> QED  BY <1>3, <2>1, <2>2 DEF Listed
<1>7. \A q \in Peer \ {peer}, c \in Chunk : Listed(q, c)' = Listed(q, c)
  BY <1>3, <1>4 DEF Listed
<1>8. Promise!Copy(peer)  BY <1>2, <1>3, <1>5, <1>6, <1>7, CopyRefines
<1> QED  BY <1>2, <1>8

LEMMA RegisterSelfRefines ==
    ASSUME IInv, RegisterSelf
    PROVE  UNCHANGED Promise!vars
<1>1. PICK f \in files, ok \in BOOLEAN : registerChunkLocation(f, Self, ok)
  BY DEF RegisterSelf
<1>2. UNCHANGED <<now, pend, deadline, stored, learned>>
  BY DEF RegisterSelf, storeVars, remoteVars
<1>3. \A p \in Peer : dir'[p] = dir[p]
  BY <1>1, RegisterOneLocation, DeliveryAssumption DEF IInv
<1> QED  BY <1>2, <1>3, StutterRefines

\* A batch is stored for as long as it was sent to live.
LEMMA StoreRefines ==
    ASSUME IInv, NEW msg \in net, storeChunkBatch(msg)
    PROVE  \E p \in Peer : Promise!Copy(p)
<1>1. PICK done \in SUBSET msg.chunks : handleChunkStore(msg.peer, done, msg.ttl)
  BY DEF storeChunkBatch
<1>2. msg \in BatchMsg /\ msg.peer \in Peer /\ done \subseteq Chunk
  BY DEF storeChunkBatch, handleChunkStore, IInv, TypeOK, AckMsg, BatchMsg
<1>3. UNCHANGED <<now, pend, deadline, learned, dir>> /\ now \in Nat
  BY DEF storeChunkBatch, handleChunkStore, storeVars, IInv, TypeOK
<1>4. ASSUME NEW q \in Peer, NEW c \in Chunk, Held(q, c) PROVE Held(q, c)'
  <2>1. CASE q = msg.peer /\ c \in done
    <3>1. msg.ttl[c] \in Int /\ msg.ttl[c] > 0 /\ now + 2 * msg.ttl[c] >= deadline[c]
      BY <1>2, <2>1 DEF BatchMsg, IInv, BatchesLast, storeChunkBatch, handleChunkStore
    <3>2. stored'[q][c] = now + 2 * msg.ttl[c]
      BY <1>1, <1>2, <2>1, <3>1 DEF handleChunkStore, EffectiveTTL, IInv, TypeOK
    <3> QED  BY <1>3, <3>1, <3>2 DEF Held
  <2>2. CASE ~(q = msg.peer /\ c \in done)
    <3>1. stored'[q][c] = stored[q][c]
      BY <1>1, <1>2, <2>2 DEF handleChunkStore, IInv, TypeOK
    <3> QED  BY <1>3, <1>4, <3>1 DEF Held
  <2> QED  BY <2>1, <2>2
<1>5. \A q \in Peer \ {msg.peer}, c \in Chunk : Held(q, c)' => Held(q, c)
  <2> TAKE q \in Peer \ {msg.peer}, c \in Chunk
  <2>1. stored'[q][c] = stored[q][c]
    BY <1>1, <1>2 DEF handleChunkStore, IInv, TypeOK
  <2> QED  BY <1>3, <2>1 DEF Held
<1>6. \A q \in Peer, c \in Chunk : Listed(q, c)' = Listed(q, c)
  BY <1>3 DEF Listed
<1>7. Promise!Copy(msg.peer)  BY <1>2, <1>3, <1>4, <1>5, <1>6, CopyRefines
<1> QED  BY <1>2, <1>7

\* A peer drops copies at their end, and those it has read.
LEMMA PeerCleanupRefines ==
    ASSUME IInv, NEW p \in Peer, PeerCleanup(p)
    PROVE  Promise!Drop(p)
<1> DEFINE S == {c \in Chunk : p \in OutboxRead[c] /\ ~Held(p, c)'}
<1>1. UNCHANGED <<now, pend, deadline, learned, dir>>
  BY DEF PeerCleanup, storeVars
<1>2. \A c \in Chunk : Expired(c)' = Expired(c) /\ Alive(c)' = Alive(c)
  BY <1>1 DEF Expired, Alive
<1>3. UNCHANGED OutboxStatus  BY <1>1, <1>2 DEF OutboxStatus
<1>4. \A q \in Peer, c \in Chunk : Listed(q, c)' = Listed(q, c)
  BY <1>1 DEF Listed
<1>5. \A q \in Peer \ {p}, c \in Chunk : Held(q, c)' = Held(q, c)
  BY <1>1 DEF PeerCleanup, Held, IInv, TypeOK
<1>6. \A c \in Chunk : \/ stored'[p][c] = stored[p][c]
                      \/ /\ stored'[p][c] = 0
                         /\ stored[p][c] <= now \/ HasRead(p, c)
  BY DEF PeerCleanup, IInv, TypeOK
<1>7. ASSUME NEW c \in Chunk, Alive(c)
      PROVE  Held(p, c)' <=> Held(p, c) /\ c \notin S
  <2>1. deadline[c] \in Nat /\ stored[p][c] \in Nat /\ now \in Nat /\ deadline[c] > now
    BY <1>7 DEF Alive, Expired, IInv, TypeOK
  <2>2. Held(p, c)' => Held(p, c)
    BY <1>1, <1>6, <2>1 DEF Held
  <2>3. Held(p, c) /\ ~Held(p, c)' => HasRead(p, c)
    BY <1>1, <1>6, <2>1 DEF Held
  <2> QED  BY <2>2, <2>3, ReadByReaders
<1>8. ASSUME NEW c \in Chunk
      PROVE  OutboxCopies'[c] = IF c \in S THEN OutboxCopies[c] \ {p} ELSE OutboxCopies[c]
  <2>1. CASE ~Alive(c)  BY <1>2, <2>1 DEF OutboxCopies
  <2>2. CASE Alive(c)
    <3>1. /\ OutboxCopies[c] = {q \in StorageFor[c] : Held(q, c) /\ Listed(q, c)}
          /\ OutboxCopies'[c] = {q \in StorageFor[c] : Held(q, c)' /\ Listed(q, c)'}
      BY <1>2, <2>2 DEF OutboxCopies, StorageFor, Recipient
    <3>2. StorageFor[c] \subseteq Peer  BY DEF StorageFor
    <3>3. Held(p, c)' <=> Held(p, c) /\ c \notin S  BY <1>7, <2>2
    <3>4. \A q \in Peer : q # p => Held(q, c)' = Held(q, c)  BY <1>5
    <3>5. c \in S => ~Held(p, c)'  OBVIOUS
    <3> HIDE DEF S
    <3> QED  BY <1>4, <3>1, <3>2, <3>3, <3>4, <3>5
  <2> QED  BY <2>1, <2>2
<1>9. OutboxCopies' = [c \in Chunk |-> IF c \in S THEN OutboxCopies[c] \ {p} ELSE OutboxCopies[c]]
  BY <1>8 DEF OutboxCopies
<1>10. S \in SUBSET {c \in Chunk : p \in OutboxRead[c]}  OBVIOUS
<1>11. UNCHANGED OutboxRead  BY <1>1, SameRead
<1> HIDE DEF S
<1> QED  BY <1>3, <1>9, <1>10, <1>11 DEF Promise!Drop

\* A peer reads a message.
LEMMA LearnsRefines ==
    ASSUME NEW p \in Peer, NEW m \in Message, Learns(p, m)
    PROVE  Promise!Read(p)
<1>1. /\ UNCHANGED <<now, pend, deadline, stored, dir>>
      /\ learned' = learned \cup {<<p, m>>}
  BY DEF Learns, storeVars
<1>2. \A c \in Chunk : Expired(c)' = Expired(c) /\ Alive(c)' = Alive(c)
  BY <1>1 DEF Expired, Alive
<1>3. UNCHANGED OutboxStatus  BY <1>1, <1>2 DEF OutboxStatus
<1>4. UNCHANGED OutboxCopies
  BY <1>1, <1>2 DEF OutboxCopies, StorageFor, Recipient, Held, Listed
<1>5. ASSUME NEW c \in Chunk
      PROVE  OutboxRead'[c] = IF MsgOf[c] = m /\ p \in OutboxReaders[c]
                              THEN OutboxRead[c] \cup {p} ELSE OutboxRead[c]
  <2>1. /\ OutboxRead[c] = {q \in OutboxReaders[c] : HasRead(q, c)}
        /\ OutboxRead'[c] = {q \in OutboxReaders[c] : HasRead(q, c)'}
    BY DEF OutboxRead, OutboxReaders, Replica, Member
  <2>2. \A q : HasRead(q, c)' <=> \/ HasRead(q, c)
                                  \/ q = p /\ MsgOf[c] = m /\ FileOf[c] = TextFile[m]
    BY <1>1 DEF HasRead
  <2>3. \A q \in OutboxReaders[c] : FileOf[c] = TextFile[MsgOf[c]]
    BY DEF OutboxReaders
  <2> QED  BY <2>1, <2>2, <2>3
<1>6. OutboxRead' = [c \in Chunk |-> IF MsgOf[c] = m /\ p \in OutboxReaders[c]
                                     THEN OutboxRead[c] \cup {p} ELSE OutboxRead[c]]
  BY <1>5 DEF OutboxRead
<1> QED  BY <1>3, <1>4, <1>6 DEF Promise!Read

\* The cleanup drops only the queue rows of chunks whose life is over.
LEMMA CleanupRefines ==
    ASSUME IInv, Cleanup
    PROVE  UNCHANGED Promise!vars
<1>1. /\ UNCHANGED <<now, deadline, stored, learned, dir>>
      /\ \A c \in Chunk : ~Expired(c) => pend'[c] = pend[c]
  BY DEF Cleanup, remoteVars
<1>2. \A c \in Chunk : Expired(c)' = Expired(c) /\ Alive(c)' = Alive(c)
  BY <1>1 DEF Expired, Alive
<1>3. \A c \in Chunk : OutboxStatus'[c] = OutboxStatus[c]
  BY <1>1, <1>2, SameStatus DEF Alive
<1>4. UNCHANGED OutboxStatus  BY <1>3 DEF OutboxStatus
<1>5. UNCHANGED OutboxCopies
  BY <1>1, <1>2 DEF OutboxCopies, StorageFor, Recipient, Held, Listed
<1> QED  BY <1>1, <1>4, <1>5, SameRead DEF Promise!vars

LEMMA InitKeeps == Init => Promise!Init
<1> SUFFICES ASSUME Init PROVE Promise!Init  OBVIOUS
<1>1. \A c \in Chunk : deadline[c] = 0  BY DEF Init
<1>2. \A c \in Chunk : OutboxStatus[c] = "new" /\ OutboxCopies[c] = {}
  BY <1>1 DEF OutboxStatus, OutboxCopies, Alive
<1>3. \A c \in Chunk : OutboxRead[c] = {}  BY DEF Init, OutboxRead, HasRead
<1> QED  BY <1>2, <1>3 DEF Promise!Init, OutboxStatus, OutboxCopies, OutboxRead

LEMMA StepKeeps == IInv /\ [Next]_vars => [Promise!Next]_(Promise!vars)
<1> SUFFICES ASSUME IInv, [Next]_vars PROVE [Promise!Next]_(Promise!vars)  OBVIOUS
<1> USE DEF storeVars, runVars, remoteVars
<1>1. ASSUME NEW m \in Message, NEW ttl \in TTLs, SendMessage(m, ttl) PROVE Promise!Next
  BY <1>1, AcceptRefines DEF Promise!Next
<1>2. CASE MarkChunkPlaced  BY <1>2, MarkRefines DEF Promise!Next
<1>3. CASE Tick  BY <1>3, TickRefines DEF Promise!Next
<1>4. CASE RegisterPeer  BY <1>4, RegisterPeerRefines DEF Promise!Next
<1>5. ASSUME NEW msg \in net, storeChunkBatch(msg) PROVE Promise!Next
  BY <1>5, StoreRefines DEF Promise!Next
<1>6. ASSUME NEW p \in Peer, PeerCleanup(p) PROVE Promise!Next
  BY <1>6, PeerCleanupRefines DEF Promise!Next
<1>7. ASSUME NEW p \in Peer, NEW m \in Message, ReplicaLearns(p, m) \/ MemberCollects(p, m)
      PROVE  Promise!Next
  BY <1>7, LearnsRefines DEF Promise!Next, ReplicaLearns, MemberCollects
<1>8. CASE RegisterSelf  BY <1>8, RegisterSelfRefines
<1>9. CASE Cleanup  BY <1>9, CleanupRefines
\* The run, the pool and the channels do not touch what is promised.
<1>10. ASSUME UNCHANGED <<now, pend, deadline, stored, learned, dir>> PROVE UNCHANGED Promise!vars
  BY <1>10, StutterRefines
<1>11. CASE NextRecipient \/ Unlock \/ GetBestPeers \/ NextPeer \/ SkipPeer \/ SendBatch
            \/ BatchFailed
  BY <1>10, <1>11
  DEF NextRecipient, Unlock, GetBestPeers, NextPeer, SkipPeer, SendBatch, BatchFailed
<1>12. CASE \/ \E m \in Message : deliverOutgoing(m)
            \/ GetUnplacedChunks \/ distributePendingChunks \/ Crash
            \/ \E msg \in net : acceptChunkStoreAck(msg)
            \/ \E p \in Peer : Disconnect(p) \/ Reconnect(p)
  BY <1>10, <1>12
  DEF deliverOutgoing, GetUnplacedChunks, distributePendingChunks, Crash, acceptChunkStoreAck,
      Disconnect, Reconnect
<1>13. CASE UNCHANGED vars  BY <1>10, <1>13 DEF vars
<1> QED
  BY <1>1, <1>2, <1>3, <1>4, <1>5, <1>6, <1>7, <1>8, <1>9, <1>11, <1>12, <1>13
  DEF Next, Run

\* The durable outbox provides what Outbox promises its users, for any number of
\* peers, chunks, faults and crashes (outgoing.go, chunk_delivery.go).
THEOREM OutboxKept == Spec => KeepsPromise
<1>1. Init => Promise!Init  BY InitKeeps
<1>2. IInv /\ [Next]_vars => [Promise!Next]_(Promise!vars)  BY StepKeeps
<1> QED  BY <1>1, <1>2, Invariance, PTL DEF Spec, KeepsPromise, Promise!Spec
=============================================================================
