---------------------------- MODULE InboxProofs ----------------------------
(***************************************************************************)
(* Safety of Inbox for every set of messages, chunks and concurrent        *)
(* checks, every lifetime a sender may give and every number of failures   *)
(* and restarts.                                                           *)
(***************************************************************************)
EXTENDS Inbox, TLAPS

Collecting == {"track", "assemble", "save", "publish"}

\* processingMsg: a check collects a message exactly while it is between
\* tryProcessMsg and releaseProcessMsg, and no two collect the same one.
OneCollector ==
    /\ \A c \in Checker : cur[c] # NoMsg <=> pc[c] \in Collecting
    /\ \A c \in Checker : cur[c] # NoMsg => cur[c] \in processing
    /\ \A c, d \in Checker : cur[c] # NoMsg /\ cur[c] = cur[d] => c = d

\* Between SaveMessage and the subscribers a message is in the history and
\* nobody has published it.
SavedFirst ==
    \A c \in Checker : pc[c] = "publish" =>
        cur[c] \in saved /\ published[cur[c]] = 0

\* Nothing is ahead of the clock, and a message with rows has a deadline.
InThePast ==
    /\ \A r \in dir : r[2] <= now /\ deadline[MsgOf[r[1]]] # 0
    /\ cursor <= now
    /\ \A c \in Checker : last[c] <= now /\ new[c] <= now

\* What a check works on are rows of the directory; those that are not yet
\* tracked are rows of its message.
RowsOfDir ==
    \A c \in Checker :
        /\ work[c] \subseteq dir
        /\ left[c] \subseteq dir
        /\ left[c] # {} => pc[c] = "track"
        /\ \A r \in left[c] : MsgOf[r[1]] = cur[c]

\* A row of failed_chunks outlives the message it is for.
TrackedLong ==
    \A x \in Chunk : tracked[x] # 0 =>
        deadline[MsgOf[x]] # 0 /\ tracked[x] >= deadline[MsgOf[x]]

\* As Handled, but without a look at the clock: while TrackedLong holds they
\* are the same.
Kept(r) == MsgOf[r[1]] \in saved \/ tracked[r[1]] # 0 \/ Expired(MsgOf[r[1]])

\* Every row before the cursor is kept; every row before the cursor a check has
\* read; and every row before the cursor a check may set is kept, or is still
\* among the rows the check has to track, or the check will not set it.
Covered ==
    /\ \A r \in dir : r[2] < cursor => Kept(r)
    /\ \A c \in Checker : \A r \in dir : r[2] < last[c] => Kept(r)
    /\ \A c \in Checker : safe[c] = "yes" =>
         \A r \in dir : r[2] < new[c] => Kept(r) \/ r \in work[c] \/ r \in left[c]

IInv ==
    /\ TypeOK
    /\ OneCollector
    /\ SavedFirst
    /\ PublishedOnce
    /\ InThePast
    /\ RowsOfDir
    /\ TrackedLong
    /\ Covered
Base == TypeOK /\ OneCollector /\ InThePast /\ RowsOfDir

-----------------------------------------------------------------------------
(* Type correctness, and what is in the past.                              *)

LEMMA BaseInit == Init => Base
BY InboxAssumption
DEF Init, Base, TypeOK, OneCollector, Collecting, InThePast, RowsOfDir, Row

LEMMA TypeStep == Base /\ [Next]_vars => TypeOK'
<1> SUFFICES ASSUME Base, [Next]_vars PROVE TypeOK'  OBVIOUS
<1> USE InboxAssumption DEF sendVars, storeVars, scanVars, curVars, checkVars, Go, Fault
<1> TypeOK /\ OneCollector /\ InThePast /\ RowsOfDir  BY DEF Base
<1>1. ASSUME NEW x \in Chunk, RegisterChunk(x) PROVE TypeOK'
  <2>1. dir' \subseteq Row  BY <1>1 DEF RegisterChunk, TypeOK, Row
  <2>2. deadline' \in [Message -> Nat]  BY <1>1 DEF RegisterChunk, TypeOK
  <2> QED  BY <1>1, <2>1, <2>2 DEF RegisterChunk, TypeOK
<1>2. ASSUME NEW x \in Chunk, ChunkData(x) \/ storeChunkBatch(x) PROVE TypeOK'
  BY <1>2 DEF ChunkData, storeChunkBatch, TypeOK
<1>3. ASSUME NEW m \in Message, DirectMessage(m) PROVE TypeOK'
  BY <1>3 DEF DirectMessage, TypeOK
<1>4. ASSUME NEW m \in Message, processRTCMessages(m) PROVE TypeOK'
  BY <1>4 DEF processRTCMessages, TypeOK
<1>5. ASSUME NEW c \in Checker, GetLastChunkCheck(c) PROVE TypeOK'
  BY <1>5 DEF GetLastChunkCheck, TypeOK
<1>6. ASSUME NEW c \in Checker, Query(c) PROVE TypeOK'
  <2> DEFINE rows == GetChunksByRecipient(DateFrom(c))
  <2>1. rows \subseteq Row /\ \A r \in rows : r[2] \in Nat
    BY DEF GetChunksByRecipient, TypeOK, Row
  <2>2. CASE rows # {} /\ pc' = [pc EXCEPT ![c] = "scan"]
    <3>1. PICK t \in {last[c]} \cup {r[2] : r \in rows} : new' = [new EXCEPT ![c] = t]
      BY <1>6, <2>2 DEF Query, Forget, TypeOK
    <3>2. t \in Nat  BY <2>1, <3>1 DEF TypeOK
    <3>3. work' \in [Checker -> SUBSET Row] /\ faults' \in Nat /\ last' \in [Checker -> Nat]
          /\ safe' \in [Checker -> {"yes", "no"}]
      BY <1>6, <2>1, <2>2 DEF Query, Forget, TypeOK
    <3> QED  BY <1>6, <2>2, <3>1, <3>2, <3>3 DEF Query, TypeOK
  <2>3. CASE Forget(c) /\ UNCHANGED work
    BY <1>6, <2>3 DEF Query, Forget, TypeOK
  <2> QED  BY <1>6, <2>2, <2>3 DEF Query
<1>7. ASSUME NEW c \in Checker, Scan(c) PROVE TypeOK'
  BY <1>7 DEF Scan, TypeOK
<1>8. ASSUME NEW c \in Checker, SetLastChunkCheck(c) PROVE TypeOK'
  BY <1>8 DEF SetLastChunkCheck, Forget, TypeOK
<1>9. ASSUME NEW c \in Checker, NEW m \in Message, CollectNext(c, m) PROVE TypeOK'
  <2> DEFINE rows == RowsOf(m, work[c])
  <2>1. rows \subseteq Row  BY DEF RowsOf, TypeOK
  <2>2. work' \in [Checker -> SUBSET Row]  BY <1>9 DEF CollectNext, TypeOK
  <2>3. CASE m \in processing /\ Busy(c)
    BY <1>9, <2>2, <2>3 DEF CollectNext, Busy, Unsafe, TypeOK
  <2>4. CASE DeleteFailedMessage(m) /\ m \in saved /\ m \notin processing
    BY <1>9, <2>2, <2>4 DEF CollectNext, DeleteFailedMessage, TypeOK
  <2>5. CASE Begin(c, m, rows) /\ m \notin saved /\ m \notin processing
    BY <1>9, <2>1, <2>2, <2>5 DEF CollectNext, Begin, TypeOK
  <2> QED  BY <1>9, <2>3, <2>4, <2>5 DEF CollectNext
<1>10. ASSUME NEW c \in Checker, NEW m \in Message, RetryNext(c, m) PROVE TypeOK'
  <2> DEFINE rows == GetChunksByFileID(m)
  <2>1. rows \subseteq Row  BY DEF GetChunksByFileID, RowsOf, TypeOK
  <2>2. CASE Begin(c, m, rows) /\ UNCHANGED <<retry, tracked, faults>>
    BY <1>10, <2>1, <2>2 DEF RetryNext, Begin, TypeOK
  <2>3. CASE DeleteFailedMessage(m) /\ retry' = [retry EXCEPT ![c] = @ \ {m}]
             /\ UNCHANGED <<processing, pc, cur, recs, left, faults>>
    BY <1>10, <2>3 DEF RetryNext, DeleteFailedMessage, TypeOK
  <2>4. CASE retry' = [retry EXCEPT ![c] = @ \ {m}]
             /\ UNCHANGED <<processing, tracked, pc, cur, recs, left>>
    BY <1>10, <2>4 DEF RetryNext, TypeOK
  <2> QED  BY <1>10, <2>2, <2>3, <2>4 DEF RetryNext
<1>11. ASSUME NEW c \in Checker, StoreFailedChunk(c) PROVE TypeOK'
  <2>1. cur[c] \in Message  BY <1>11 DEF StoreFailedChunk, OneCollector, Collecting, TypeOK
  <2>2. PICK r \in left[c] :
          \/ /\ tracked' = [tracked EXCEPT ![r[1]] =
                              IF @ = 0 THEN now + (deadline[cur[c]] - r[2]) ELSE @]
             /\ left' = [left EXCEPT ![c] = @ \ {r}]
             /\ Go(c, IF left'[c] = {} THEN "assemble" ELSE "track")
             /\ UNCHANGED <<processing, safe, cur, recs, retry, faults>>
          \/ Fault /\ Unsafe(c) /\ Release(c) /\ UNCHANGED tracked
    BY <1>11 DEF StoreFailedChunk
  <2>3. r \in dir /\ r[1] \in Chunk /\ r[2] \in Nat /\ r[2] <= now
    BY <2>2 DEF RowsOfDir, InThePast, TypeOK, Row
  <2>4. now + (deadline[cur[c]] - r[2]) \in Nat  BY <2>1, <2>3 DEF TypeOK
  <2>5. CASE Fault /\ Unsafe(c) /\ Release(c) /\ UNCHANGED tracked
    BY <1>11, <2>5 DEF StoreFailedChunk, Unsafe, Release, TypeOK
  <2>6. CASE ~ (Fault /\ Unsafe(c) /\ Release(c) /\ UNCHANGED tracked)
    <3>1. tracked' \in [Chunk -> Nat]  BY <2>2, <2>3, <2>4, <2>6 DEF TypeOK
    <3>2. left' = [left EXCEPT ![c] = @ \ {r}] /\ left' \in [Checker -> SUBSET Row]
      BY <2>2, <2>6 DEF TypeOK
    <3> QED  BY <1>11, <2>2, <2>6, <3>1, <3>2 DEF StoreFailedChunk, TypeOK
  <2> QED  BY <2>5, <2>6
<1>12. ASSUME NEW c \in Checker, Assemble(c) PROVE TypeOK'
  <2>1. asked' \subseteq Chunk /\ local' \in [Chunk -> {"none", "good", "bad"}]
    BY <1>12 DEF Assemble, TypeOK, Row
  <2>2. CASE /\ pc' = [pc EXCEPT ![c] = "save"]
             /\ UNCHANGED <<processing, cur, recs, left, retry, faults>>
    BY <1>12, <2>1, <2>2 DEF Assemble, TypeOK
  <2>3. CASE Release(c) /\ faults' \in {faults, faults + 1}
    BY <1>12, <2>1, <2>3 DEF Assemble, Release, TypeOK
  <2> QED  BY <1>12, <2>2, <2>3 DEF Assemble
<1>13. ASSUME NEW c \in Checker, SaveMessage(c) PROVE TypeOK'
  <2>1. cur[c] \in Message  BY <1>13 DEF SaveMessage, OneCollector, Collecting, TypeOK
  <2>2. CASE /\ saved' = saved \cup {cur[c]} /\ Go(c, "publish")
             /\ UNCHANGED <<processing, cur, recs, left, retry, faults>>
    BY <1>13, <2>1, <2>2 DEF SaveMessage, TypeOK
  <2>3. CASE Release(c) /\ UNCHANGED saved /\ faults' \in {faults, faults + 1}
    BY <1>13, <2>3 DEF SaveMessage, Release, TypeOK
  <2> QED  BY <1>13, <2>2, <2>3 DEF SaveMessage
<1>14. ASSUME NEW c \in Checker, Publish(c) PROVE TypeOK'
  <2>1. cur[c] \in Message  BY <1>14 DEF Publish, OneCollector, Collecting, TypeOK
  <2> QED  BY <1>14, <2>1 DEF Publish, Release, DeleteFailedMessage, TypeOK
<1>15. ASSUME NEW c \in Checker, ListFailedChunks(c) PROVE TypeOK'
  BY <1>15 DEF ListFailedChunks, TypeOK
<1>16. ASSUME NEW c \in Checker, CheckDone(c) PROVE TypeOK'
  BY <1>16 DEF CheckDone, TypeOK
<1>17. CASE chunkCleanupLoop  BY <1>17 DEF chunkCleanupLoop, TypeOK
<1>18. CASE Crash  BY <1>18 DEF Crash, TypeOK
<1>19. CASE Tick  BY <1>19 DEF Tick, TypeOK
<1>20. CASE UNCHANGED vars  BY <1>20 DEF vars, TypeOK
<1> QED
  BY <1>1, <1>2, <1>3, <1>4, <1>5, <1>6, <1>7, <1>8, <1>9, <1>10, <1>11, <1>12, <1>13,
     <1>14, <1>15, <1>16, <1>17, <1>18, <1>19, <1>20 DEF Next, Step
-----------------------------------------------------------------------------
(* Who collects what.                                                      *)

LEMMA ReleaseKeepsOne ==
    ASSUME TypeOK, OneCollector, NEW c \in Checker, pc[c] \in Collecting, Release(c)
    PROVE  OneCollector'
<1>1. /\ cur' = [cur EXCEPT ![c] = NoMsg]
      /\ processing' = processing \ {cur[c]}
      /\ pc' = [pc EXCEPT ![c] = pc'[c]] /\ pc'[c] \notin Collecting
  BY DEF Release, Go, TypeOK, Collecting
<1> HIDE DEF Collecting
<1>2. \A d \in Checker : d # c => cur'[d] = cur[d] /\ pc'[d] = pc[d]
  BY <1>1 DEF TypeOK
<1>3. cur'[c] = NoMsg  BY <1>1 DEF TypeOK
<1>4. \A d \in Checker : d # c /\ cur[d] # NoMsg => cur[d] # cur[c]
  BY DEF OneCollector
<1> QED  BY <1>1, <1>2, <1>3, <1>4 DEF OneCollector

LEMMA BeginKeepsOne ==
    ASSUME TypeOK, OneCollector, NEW c \in Checker, pc[c] \notin Collecting,
           NEW m \in Message, m \notin processing, NEW rows, Begin(c, m, rows)
    PROVE  OneCollector'
<1>1. /\ cur' = [cur EXCEPT ![c] = m] /\ processing' = processing \cup {m}
      /\ pc' = [pc EXCEPT ![c] = "track"]
  BY DEF Begin, Go
<1>2. cur'[c] = m /\ pc'[c] = "track" /\ m # NoMsg
  BY <1>1, InboxAssumption DEF TypeOK
<1>3. \A d \in Checker : d # c => cur'[d] = cur[d] /\ pc'[d] = pc[d] /\ cur[d] # m
  BY <1>1, <1>2 DEF TypeOK, OneCollector
<1> QED  BY <1>1, <1>2, <1>3 DEF OneCollector, Collecting

\* A check that goes from one step to another without a message in hand.
LEMMA MoveKeepsOne ==
    ASSUME TypeOK, OneCollector, NEW c \in Checker, UNCHANGED <<cur, processing>>,
           NEW l, pc' = [pc EXCEPT ![c] = l], l \in Collecting <=> pc[c] \in Collecting
    PROVE  OneCollector'
BY DEF TypeOK, OneCollector

LEMMA OwnStep ==
    Base /\ SavedFirst /\ PublishedOnce /\ [Next]_vars
        => OneCollector' /\ SavedFirst' /\ PublishedOnce'
<1> SUFFICES ASSUME Base, SavedFirst, PublishedOnce, [Next]_vars
             PROVE  OneCollector' /\ SavedFirst' /\ PublishedOnce'
  OBVIOUS
<1> DEFINE Own == OneCollector /\ SavedFirst /\ PublishedOnce
<1> USE DEF sendVars, storeVars, scanVars, curVars, checkVars, Go
<1> TypeOK /\ OneCollector  BY DEF Base
<1>1. ASSUME UNCHANGED <<pc, cur, processing, saved, published>> PROVE Own'
  BY <1>1 DEF OneCollector, SavedFirst, PublishedOnce
<1>2. ASSUME NEW m \in Message, processRTCMessages(m) PROVE Own'
  <2>1. OneCollector'  BY <1>2 DEF processRTCMessages, OneCollector
  <2>2. \A c \in Checker : pc[c] = "publish" => cur[c] # m \/ m \in saved
    BY DEF SavedFirst
  <2>3. SavedFirst'  BY <1>2, <2>2 DEF processRTCMessages, SavedFirst, TypeOK
  <2>4. PublishedOnce'  BY <1>2 DEF processRTCMessages, PublishedOnce, TypeOK
  <2> QED  BY <2>1, <2>3, <2>4
<1>3. ASSUME NEW c \in Checker,
             GetLastChunkCheck(c) \/ Query(c) \/ Scan(c) \/ SetLastChunkCheck(c)
               \/ ListFailedChunks(c) \/ CheckDone(c)
      PROVE  Own'
  <2>1. PICK l : /\ pc' = [pc EXCEPT ![c] = l] /\ l \notin Collecting
                 /\ pc[c] \notin Collecting
    BY <1>3 DEF GetLastChunkCheck, Query, Scan, SetLastChunkCheck, ListFailedChunks,
                CheckDone, Collecting
  <2>2. UNCHANGED <<cur, processing, saved, published>>
    BY <1>3 DEF GetLastChunkCheck, Query, Scan, SetLastChunkCheck, ListFailedChunks,
                CheckDone
  <2>3. OneCollector'  BY <2>1, <2>2, MoveKeepsOne
  <2>4. SavedFirst'  BY <2>1, <2>2 DEF SavedFirst, TypeOK, Collecting
  <2> QED  BY <2>2, <2>3, <2>4 DEF PublishedOnce
<1>4. ASSUME NEW c \in Checker, NEW m \in Message, CollectNext(c, m) \/ RetryNext(c, m)
      PROVE  Own'
  <2>1. UNCHANGED <<saved, published>> /\ pc[c] \notin Collecting
    BY <1>4 DEF CollectNext, RetryNext, Collecting
  <2>2. CASE UNCHANGED <<pc, cur, processing>>
    BY <1>1, <2>1, <2>2
  <2>3. ASSUME NEW rows, m \notin processing, Begin(c, m, rows) PROVE Own'
    <3>1. OneCollector'  BY <2>1, <2>3, BeginKeepsOne
    <3>2. SavedFirst'  BY <2>1, <2>3 DEF Begin, SavedFirst, TypeOK
    <3> QED  BY <2>1, <3>1, <3>2 DEF PublishedOnce
  <2> QED  BY <1>4, <2>2, <2>3 DEF CollectNext, RetryNext
<1>5. ASSUME NEW c \in Checker, pc[c] \in Collecting, Release(c), UNCHANGED <<saved, published>>
      PROVE  Own'
  <2>1. OneCollector'  BY <1>5, ReleaseKeepsOne
  <2>2. SavedFirst'  BY <1>5 DEF Release, SavedFirst, TypeOK
  <2> QED  BY <1>5, <2>1, <2>2 DEF PublishedOnce
<1>6. ASSUME NEW c \in Checker, StoreFailedChunk(c) PROVE Own'
  <2>1. pc[c] \in Collecting /\ UNCHANGED <<saved, published>>
    BY <1>6 DEF StoreFailedChunk, Collecting
  <2>2. CASE Release(c)  BY <1>5, <2>1, <2>2
  <2>3. CASE UNCHANGED <<processing, cur>>
             /\ Go(c, IF left'[c] = {} THEN "assemble" ELSE "track")
    <3>1. OneCollector'
      BY <2>1, <2>3, MoveKeepsOne DEF Collecting
    <3>2. SavedFirst'  BY <2>1, <2>3 DEF SavedFirst, TypeOK
    <3> QED  BY <2>1, <3>1, <3>2 DEF PublishedOnce
  <2> QED  BY <1>6, <2>2, <2>3 DEF StoreFailedChunk
<1>7. ASSUME NEW c \in Checker, Assemble(c) PROVE Own'
  <2>1. pc[c] \in Collecting /\ UNCHANGED <<saved, published>>
    BY <1>7 DEF Assemble, Collecting
  <2>2. CASE Release(c)  BY <1>5, <2>1, <2>2
  <2>3. CASE UNCHANGED <<processing, cur>> /\ Go(c, "save")
    <3>1. OneCollector'  BY <2>1, <2>3, MoveKeepsOne DEF Collecting
    <3>2. SavedFirst'  BY <2>1, <2>3 DEF SavedFirst, TypeOK
    <3> QED  BY <2>1, <3>1, <3>2 DEF PublishedOnce
  <2> QED  BY <1>7, <2>2, <2>3 DEF Assemble
<1>8. ASSUME NEW c \in Checker, SaveMessage(c) PROVE Own'
  <2>1. pc[c] \in Collecting /\ UNCHANGED published /\ cur[c] \in Message
    BY <1>8 DEF SaveMessage, Collecting, OneCollector, TypeOK
  <2>2. CASE Release(c) /\ UNCHANGED saved  BY <1>5, <2>1, <2>2
  <2>3. CASE /\ cur[c] \notin saved /\ saved' = saved \cup {cur[c]}
             /\ UNCHANGED <<processing, cur>> /\ Go(c, "publish")
    <3>1. OneCollector'  BY <2>1, <2>3, MoveKeepsOne DEF Collecting
    <3>2. published[cur[c]] = 0  BY <2>1, <2>3 DEF PublishedOnce, TypeOK
    <3>3. SavedFirst'  BY <2>1, <2>3, <3>2 DEF SavedFirst, TypeOK
    <3>4. PublishedOnce'  BY <2>1, <2>3 DEF PublishedOnce
    <3> QED  BY <3>1, <3>3, <3>4
  <2> QED  BY <1>8, <2>2, <2>3 DEF SaveMessage
<1>9. ASSUME NEW c \in Checker, Publish(c) PROVE Own'
  <2>1. pc[c] = "publish" /\ cur[c] \in Message
    BY <1>9 DEF Publish, Collecting, OneCollector, TypeOK
  <2>2. cur[c] \in saved /\ published[cur[c]] = 0  BY <2>1 DEF SavedFirst
  <2>3. /\ published' = [published EXCEPT ![cur[c]] = @ + 1] /\ saved' = saved
        /\ Release(c)
    BY <1>9 DEF Publish
  <2>4. OneCollector'  BY <2>1, <2>3, ReleaseKeepsOne DEF Collecting
  <2>5. PublishedOnce'  BY <2>1, <2>2, <2>3 DEF PublishedOnce, TypeOK
  <2>6. \A d \in Checker : pc'[d] = "publish" =>
          pc[d] = "publish" /\ cur'[d] = cur[d] /\ cur[d] # cur[c]
    <3>1. \A d \in Checker : d # c /\ pc[d] = "publish" => cur[d] # cur[c]
      BY <2>1, InboxAssumption DEF OneCollector
    <3>2. pc'[c] # "publish"  BY <2>3 DEF Release, TypeOK
    <3>3. \A d \in Checker : d # c => pc'[d] = pc[d] /\ cur'[d] = cur[d]
      BY <2>3 DEF Release, TypeOK
    <3> QED  BY <3>1, <3>2, <3>3
  <2>7. SavedFirst'  BY <2>1, <2>3, <2>6 DEF SavedFirst, TypeOK
  <2> QED  BY <2>4, <2>5, <2>7
<1>10. CASE Crash
  BY <1>10 DEF Crash, OneCollector, SavedFirst, PublishedOnce, Collecting
<1> QED
  BY <1>1, <1>2, <1>3, <1>4, <1>6, <1>7, <1>8, <1>9, <1>10
  DEF Next, Step, vars, RegisterChunk, ChunkData, storeChunkBatch, DirectMessage,
      chunkCleanupLoop, Tick
-----------------------------------------------------------------------------
(* The past, and the rows a check works on.                                *)

LEMMA PastStep == Base /\ [Next]_vars => InThePast'
<1> SUFFICES ASSUME Base, [Next]_vars PROVE InThePast'  OBVIOUS
<1> USE InboxAssumption DEF sendVars, storeVars, scanVars, curVars, checkVars
<1> TypeOK /\ OneCollector /\ InThePast /\ RowsOfDir  BY DEF Base
<1>1. ASSUME NEW x \in Chunk, RegisterChunk(x) PROVE InThePast'
  <2>1. \A m \in Message : deadline[m] # 0 => deadline'[m] = deadline[m]
    BY <1>1 DEF RegisterChunk, TypeOK
  <2>2. deadline'[MsgOf[x]] # 0
    <3>1. CASE ~ Expired(MsgOf[x]) /\ UNCHANGED deadline
      BY <3>1 DEF Expired, TypeOK
    <3>2. CASE \E ttl \in TTLs : deadline' = [deadline EXCEPT ![MsgOf[x]] = now + ttl]
      BY <3>2 DEF TypeOK
    <3> QED  BY <1>1, <3>1, <3>2 DEF RegisterChunk
  <2>3. dir' = dir \cup {<<x, now>>} /\ UNCHANGED <<now, cursor, last, new>>
    BY <1>1 DEF RegisterChunk
  <2>4. \A r \in dir : r[1] \in Chunk  BY DEF TypeOK, Row
  <2> QED  BY <2>1, <2>2, <2>3, <2>4 DEF InThePast, TypeOK
<1>2. ASSUME NEW c \in Checker, GetLastChunkCheck(c) PROVE InThePast'
  BY <1>2 DEF GetLastChunkCheck, InThePast, TypeOK
<1>3. ASSUME NEW c \in Checker, Query(c) PROVE InThePast'
  <2>1. UNCHANGED <<now, cursor, dir, deadline>>  BY <1>3 DEF Query
  <2>2. CASE Forget(c)
    BY <2>1, <2>2 DEF Forget, InThePast, TypeOK
  <2>3. CASE ~ Forget(c)
    <3>1. /\ UNCHANGED last
          /\ \E t \in {last[c]} \cup {r[2] : r \in GetChunksByRecipient(DateFrom(c))} :
               new' = [new EXCEPT ![c] = t]
      BY <1>3, <2>3 DEF Query
    <3>2. PICK t \in {last[c]} \cup {r[2] : r \in GetChunksByRecipient(DateFrom(c))} :
               new' = [new EXCEPT ![c] = t]
      BY <3>1
    <3>3. t <= now  BY DEF GetChunksByRecipient, InThePast
    <3> QED  BY <2>1, <3>1, <3>2, <3>3 DEF InThePast, TypeOK
  <2> QED  BY <2>2, <2>3
<1>4. ASSUME NEW c \in Checker, SetLastChunkCheck(c) PROVE InThePast'
  BY <1>4 DEF SetLastChunkCheck, Forget, InThePast, TypeOK
<1>5. CASE Crash  BY <1>5 DEF Crash, InThePast, TypeOK
<1>6. CASE Tick  BY <1>6 DEF Tick, InThePast, TypeOK, Row
<1>7. CASE UNCHANGED <<now, deadline, dir, cursor, last, new>>
  BY <1>7 DEF InThePast
<1> QED
  BY <1>1, <1>2, <1>3, <1>4, <1>5, <1>6, <1>7
  DEF Next, Step, vars, ChunkData, storeChunkBatch, DirectMessage, processRTCMessages,
      Scan, CollectNext, RetryNext, StoreFailedChunk, Assemble, SaveMessage, Publish,
      ListFailedChunks, CheckDone, chunkCleanupLoop

LEMMA RowsStep == Base /\ [Next]_vars => RowsOfDir'
<1> SUFFICES ASSUME Base, [Next]_vars PROVE RowsOfDir'  OBVIOUS
<1> USE InboxAssumption DEF sendVars, storeVars, scanVars, curVars, checkVars, Go
<1> TypeOK /\ OneCollector /\ RowsOfDir  BY DEF Base
<1>1. ASSUME NEW x \in Chunk, RegisterChunk(x) PROVE RowsOfDir'
  BY <1>1 DEF RegisterChunk, RowsOfDir
<1>2. ASSUME NEW c \in Checker, pc[c] # "track", NEW l, pc' = [pc EXCEPT ![c] = l],
             UNCHANGED <<dir, work, cur, left>>
      PROVE  RowsOfDir'
  BY <1>2 DEF RowsOfDir, TypeOK
<1>3. ASSUME NEW c \in Checker, Query(c) PROVE RowsOfDir'
  <2>1. CASE UNCHANGED work
    BY <1>2, <1>3, <2>1 DEF Query
  <2>2. CASE work' = [work EXCEPT ![c] = GetChunksByRecipient(DateFrom(c))]
    <3>1. GetChunksByRecipient(DateFrom(c)) \subseteq dir
      BY DEF GetChunksByRecipient
    <3> QED  BY <1>3, <2>2, <3>1 DEF Query, RowsOfDir, TypeOK
  <2> QED  BY <1>3, <2>1, <2>2 DEF Query
<1>4. ASSUME NEW c \in Checker, Scan(c) PROVE RowsOfDir'
  BY <1>4 DEF Scan, RowsOfDir, TypeOK
<1>5. ASSUME NEW c \in Checker, pc[c] # "track", NEW m \in Message, NEW rows \in SUBSET dir,
             \A r \in rows : MsgOf[r[1]] = m, Begin(c, m, rows), UNCHANGED dir,
             \A d \in Checker : work'[d] \subseteq work[d]
      PROVE  RowsOfDir'
  BY <1>5 DEF Begin, RowsOfDir, TypeOK
<1>6. ASSUME NEW c \in Checker, NEW m \in Message, CollectNext(c, m) PROVE RowsOfDir'
  <2>1. /\ pc[c] # "track" /\ UNCHANGED dir
        /\ \A d \in Checker : work'[d] \subseteq work[d]
    BY <1>6 DEF CollectNext, TypeOK
  <2>2. RowsOf(m, work[c]) \in SUBSET dir /\ \A r \in RowsOf(m, work[c]) : MsgOf[r[1]] = m
    BY DEF RowsOf, RowsOfDir
  <2>3. CASE Begin(c, m, RowsOf(m, work[c]))  BY <1>5, <2>1, <2>2, <2>3
  <2>4. CASE UNCHANGED <<pc, cur, left>>
    BY <2>1, <2>4 DEF RowsOfDir
  <2> QED  BY <1>6, <2>3, <2>4 DEF CollectNext
<1>7. ASSUME NEW c \in Checker, NEW m \in Message, RetryNext(c, m) PROVE RowsOfDir'
  <2>1. pc[c] # "track" /\ UNCHANGED <<dir, work>>
    BY <1>7 DEF RetryNext
  <2>2. GetChunksByFileID(m) \in SUBSET dir /\ \A r \in GetChunksByFileID(m) : MsgOf[r[1]] = m
    BY DEF GetChunksByFileID, RowsOf
  <2>3. CASE Begin(c, m, GetChunksByFileID(m))  BY <1>5, <2>1, <2>2, <2>3
  <2>4. CASE UNCHANGED <<pc, cur, left>>
    BY <2>1, <2>4 DEF RowsOfDir
  <2> QED  BY <1>7, <2>3, <2>4 DEF RetryNext
<1>8. ASSUME NEW c \in Checker, Release(c), UNCHANGED <<dir, work>> PROVE RowsOfDir'
  BY <1>8 DEF Release, RowsOfDir, TypeOK
<1>9. ASSUME NEW c \in Checker, StoreFailedChunk(c) PROVE RowsOfDir'
  <2>1. UNCHANGED <<dir, work>>  BY <1>9 DEF StoreFailedChunk
  <2>2. CASE Release(c)  BY <1>8, <2>1, <2>2
  <2>3. CASE \E r \in left[c] :
               /\ left' = [left EXCEPT ![c] = @ \ {r}] /\ UNCHANGED cur
               /\ Go(c, IF left'[c] = {} THEN "assemble" ELSE "track")
    BY <2>1, <2>3 DEF RowsOfDir, TypeOK
  <2> QED  BY <1>9, <2>2, <2>3 DEF StoreFailedChunk
<1>10. ASSUME NEW c \in Checker, Assemble(c) \/ SaveMessage(c) \/ Publish(c)
       PROVE  RowsOfDir'
  <2>1. pc[c] # "track" /\ UNCHANGED <<dir, work>>
    BY <1>10 DEF Assemble, SaveMessage, Publish
  <2>2. CASE Release(c)  BY <1>8, <2>1, <2>2
  <2>3. CASE UNCHANGED <<cur, left>> /\ \E l : pc' = [pc EXCEPT ![c] = l]
    BY <1>2, <2>1, <2>3
  <2> QED  BY <1>10, <2>2, <2>3 DEF Assemble, SaveMessage, Publish
<1>11. ASSUME NEW c \in Checker,
              GetLastChunkCheck(c) \/ SetLastChunkCheck(c) \/ ListFailedChunks(c) \/ CheckDone(c)
       PROVE  RowsOfDir'
  BY <1>2, <1>11 DEF GetLastChunkCheck, SetLastChunkCheck, ListFailedChunks, CheckDone
<1>12. CASE Crash  BY <1>12 DEF Crash, RowsOfDir
<1>13. CASE UNCHANGED <<dir, work, pc, cur, left>>
  BY <1>13 DEF RowsOfDir
<1> QED
  BY <1>1, <1>3, <1>4, <1>6, <1>7, <1>9, <1>10, <1>11, <1>12, <1>13
  DEF Next, Step, vars, ChunkData, storeChunkBatch, DirectMessage, processRTCMessages,
      chunkCleanupLoop, Tick
-----------------------------------------------------------------------------
(* failed_chunks: a row goes only when its message is saved or its time is *)
(* over, and that is not before the message's.                             *)

LEMMA RowGoes ==
    Base /\ SavedFirst /\ [Next]_vars =>
        \A x \in Chunk : tracked[x] # 0 /\ tracked'[x] = 0 =>
            MsgOf[x] \in saved \/ ~ Live(x)
<1> SUFFICES ASSUME Base, SavedFirst, [Next]_vars,
                    NEW x \in Chunk, tracked[x] # 0, tracked'[x] = 0
             PROVE  MsgOf[x] \in saved \/ ~ Live(x)
  OBVIOUS
<1> USE InboxAssumption DEF sendVars, storeVars
<1> TypeOK /\ OneCollector /\ InThePast /\ RowsOfDir  BY DEF Base
<1>1. ASSUME NEW c \in Checker, NEW m \in Message, CollectNext(c, m) \/ RetryNext(c, m)
      PROVE  MsgOf[x] \in saved
  BY <1>1 DEF CollectNext, RetryNext, DeleteFailedMessage, Begin
<1>2. ASSUME NEW c \in Checker, StoreFailedChunk(c) PROVE FALSE
  <2>1. PICK r \in left[c] : \/ UNCHANGED tracked
                            \/ tracked' = [tracked EXCEPT ![r[1]] =
                                 IF @ = 0 THEN now + (deadline[cur[c]] - r[2]) ELSE @]
    BY <1>2 DEF StoreFailedChunk
  <2> QED  BY <2>1 DEF TypeOK
<1>3. ASSUME NEW c \in Checker, Publish(c) PROVE MsgOf[x] \in saved
  BY <1>3 DEF Publish, DeleteFailedMessage, SavedFirst
<1>4. ASSUME NEW c \in Checker, ListFailedChunks(c) PROVE ~ Live(x)
  BY <1>4 DEF ListFailedChunks
<1>5. CASE chunkCleanupLoop  BY <1>5 DEF chunkCleanupLoop
<1>6. CASE UNCHANGED tracked  BY <1>6
<1> QED
  BY <1>1, <1>2, <1>3, <1>4, <1>5, <1>6
  DEF Next, Step, vars, RegisterChunk, ChunkData, storeChunkBatch, DirectMessage,
      processRTCMessages, GetLastChunkCheck, Query, Scan, SetLastChunkCheck, Assemble,
      SaveMessage, CheckDone, Crash, Tick

\* The clock goes on, a deadline is set once, the history only grows.
LEMMA TimeGoesOn ==
    Base /\ [Next]_vars =>
        /\ now' >= now
        /\ \A m \in Message : deadline[m] # 0 => deadline'[m] = deadline[m]
        /\ saved \subseteq saved'
        /\ dir \subseteq dir'
<1> SUFFICES ASSUME Base, [Next]_vars
             PROVE  /\ now' >= now
                    /\ \A m \in Message : deadline[m] # 0 => deadline'[m] = deadline[m]
                    /\ saved \subseteq saved'
                    /\ dir \subseteq dir'
  OBVIOUS
<1> TypeOK  BY DEF Base
<1>1. ASSUME NEW x \in Chunk, RegisterChunk(x)
      PROVE  \A m \in Message : deadline[m] # 0 => deadline'[m] = deadline[m]
  BY <1>1 DEF RegisterChunk, TypeOK
<1> QED
  BY <1>1 DEF TypeOK, Next, Step, vars, sendVars, storeVars, RegisterChunk, ChunkData,
      storeChunkBatch, DirectMessage, processRTCMessages, GetLastChunkCheck, Query, Scan,
      SetLastChunkCheck, CollectNext, RetryNext, StoreFailedChunk, Assemble, SaveMessage,
      Publish, ListFailedChunks, CheckDone, chunkCleanupLoop, Crash, Tick

LEMMA TrackedStep == Base /\ TrackedLong /\ [Next]_vars => TrackedLong'
<1> SUFFICES ASSUME Base, TrackedLong, [Next]_vars PROVE TrackedLong'  OBVIOUS
<1> USE InboxAssumption DEF sendVars, storeVars
<1> TypeOK /\ OneCollector /\ InThePast /\ RowsOfDir  BY DEF Base
<1>1. \A m \in Message : deadline[m] # 0 => deadline'[m] = deadline[m]
  BY TimeGoesOn
<1>2. ASSUME \A x \in Chunk : tracked'[x] \in {0, tracked[x]} PROVE TrackedLong'
  BY <1>1, <1>2 DEF TrackedLong
<1>3. ASSUME NEW c \in Checker, StoreFailedChunk(c) PROVE TrackedLong'
  <2>1. PICK r \in left[c] : \/ UNCHANGED tracked
                            \/ tracked' = [tracked EXCEPT ![r[1]] =
                                 IF @ = 0 THEN now + (deadline[cur[c]] - r[2]) ELSE @]
    BY <1>3 DEF StoreFailedChunk
  <2>2. /\ r[1] \in Chunk /\ r[2] \in Nat /\ r[2] <= now
        /\ MsgOf[r[1]] = cur[c] /\ deadline[cur[c]] # 0 /\ deadline[cur[c]] \in Nat
    BY DEF RowsOfDir, InThePast, TypeOK, Row
  <2>3. now + (deadline[cur[c]] - r[2]) >= deadline[cur[c]]
    BY <2>2 DEF TypeOK
  <2> QED  BY <1>1, <2>1, <2>2, <2>3 DEF TrackedLong, TypeOK
<1>4. ASSUME NEW c \in Checker, NEW m \in Message, CollectNext(c, m) \/ RetryNext(c, m)
      PROVE  \A x \in Chunk : tracked'[x] \in {0, tracked[x]}
  BY <1>4 DEF CollectNext, RetryNext, DeleteFailedMessage, Begin
<1>5. ASSUME NEW c \in Checker, Publish(c) \/ ListFailedChunks(c)
      PROVE  \A x \in Chunk : tracked'[x] \in {0, tracked[x]}
  BY <1>5 DEF Publish, ListFailedChunks, DeleteFailedMessage
<1>6. CASE chunkCleanupLoop
  BY <1>2, <1>6 DEF chunkCleanupLoop
<1>7. CASE UNCHANGED tracked  BY <1>2, <1>7
<1> QED
  BY <1>2, <1>3, <1>4, <1>5, <1>6, <1>7
  DEF Next, Step, vars, RegisterChunk, ChunkData, storeChunkBatch, DirectMessage,
      processRTCMessages, GetLastChunkCheck, Query, Scan, SetLastChunkCheck, Assemble,
      SaveMessage, CheckDone, Crash, Tick

-----------------------------------------------------------------------------
(* The cursor.                                                             *)

\* What is kept stays kept: no step gives up a row of the directory.
LEMMA KeptStays ==
    ASSUME Base, SavedFirst, TrackedLong, [Next]_vars, NEW r \in dir, Kept(r)
    PROVE  Kept(r)'
<1> TypeOK /\ InThePast  BY DEF Base
<1>1. r[1] \in Chunk /\ MsgOf[r[1]] \in Message /\ deadline[MsgOf[r[1]]] # 0
  BY InboxAssumption DEF TypeOK, Row, InThePast
<1>2. /\ now' >= now /\ saved \subseteq saved'
      /\ deadline'[MsgOf[r[1]]] = deadline[MsgOf[r[1]]]
  BY <1>1, TimeGoesOn
<1>3. now \in Nat /\ now' \in Nat /\ deadline[MsgOf[r[1]]] \in Nat
  BY <1>1, TypeStep DEF TypeOK
<1>4. CASE MsgOf[r[1]] \in saved  BY <1>2, <1>4 DEF Kept
<1>5. CASE Expired(MsgOf[r[1]])  BY <1>2, <1>3, <1>5 DEF Kept, Expired
<1>6. CASE tracked[r[1]] # 0
  <2>1. CASE tracked'[r[1]] # 0  BY <2>1 DEF Kept
  <2>2. CASE tracked'[r[1]] = 0
    <3>1. MsgOf[r[1]] \in saved \/ ~ Live(r[1])  BY <1>1, <1>6, <2>2, RowGoes
    <3>2. tracked[r[1]] >= deadline[MsgOf[r[1]]] /\ tracked[r[1]] \in Nat
      BY <1>1, <1>6 DEF TrackedLong, TypeOK
    <3>3. ~ Live(r[1]) => Expired(MsgOf[r[1]])  BY <1>3, <3>2 DEF Live, Expired
    <3> QED  BY <1>4, <1>5, <3>1, <3>3
  <2> QED  BY <2>1, <2>2
<1> QED  BY <1>4, <1>5, <1>6 DEF Kept
LEMMA CoveredStep ==
    Base /\ SavedFirst /\ TrackedLong /\ Covered /\ [Next]_vars => Covered'
<1> SUFFICES ASSUME Base, SavedFirst, TrackedLong, Covered, [Next]_vars PROVE Covered'
  OBVIOUS
<1> USE InboxAssumption DEF sendVars, storeVars, scanVars, curVars, checkVars
<1> TypeOK /\ OneCollector /\ InThePast /\ RowsOfDir  BY DEF Base
<1>1. \A r \in dir' : r \in dir \/ r[2] = now
  <2>1. ASSUME NEW x \in Chunk, RegisterChunk(x) PROVE dir' = dir \cup {<<x, now>>}
    BY <2>1 DEF RegisterChunk
  <2>2. dir' = dir \/ \E x \in Chunk : dir' = dir \cup {<<x, now>>}
    BY <2>1 DEF Next, Step, vars, ChunkData, storeChunkBatch, DirectMessage,
        processRTCMessages, GetLastChunkCheck, Query, Scan, SetLastChunkCheck, CollectNext,
        RetryNext, StoreFailedChunk, Assemble, SaveMessage, Publish, ListFailedChunks,
        CheckDone, chunkCleanupLoop, Crash, Tick
  <2> QED  BY <2>2
<1>2. \A r \in dir : Kept(r) => Kept(r)'
  BY KeptStays
<1>3. ASSUME NEW t \in Nat, t <= now, \A r \in dir : r[2] < t => Kept(r)
      PROVE  \A r \in dir' : r[2] < t => Kept(r)'
  BY <1>1, <1>2, <1>3 DEF TypeOK
<1> DEFINE Due(d) == safe[d] = "yes" =>
               \A r \in dir : r[2] < new[d] => Kept(r) \/ r \in work[d] \/ r \in left[d]
<1>4. ASSUME NEW d \in Checker, new'[d] = 0
      PROVE  Due(d)'
  <2>1. \A r \in dir' : r[2] \in Nat  BY TypeStep DEF TypeOK, Row
  <2> QED  BY <1>4, <2>1
<1>5. ASSUME NEW d \in Checker, new'[d] = new[d], safe'[d] = "yes" => safe[d] = "yes",
             \A r \in (work[d] \cup left[d]) \ (work'[d] \cup left'[d]) :
               safe'[d] = "yes" => Kept(r)'
      PROVE  Due(d)'
  <2> SUFFICES ASSUME safe'[d] = "yes", NEW r \in dir', r[2] < new[d]
               PROVE  Kept(r)' \/ r \in work'[d] \/ r \in left'[d]
    BY <1>5
  <2>1. r \in dir  BY <1>1 DEF InThePast, TypeOK
  <2>2. Kept(r) \/ r \in work[d] \/ r \in left[d]  BY <1>5, <2>1 DEF Covered
  <2>3. CASE Kept(r)  BY <1>2, <2>1, <2>3
  <2>4. CASE r \in work[d] \cup left[d]  BY <1>5, <2>4
  <2> QED  BY <2>2, <2>3, <2>4
<1> HIDE DEF Due
<1>6. \A d \in Checker : UNCHANGED <<new[d], safe[d], work[d], left[d]>> => Due(d)'
  BY <1>5
<1>7. ASSUME NEW c \in Checker, SetLastChunkCheck(c)
      PROVE  \A r \in dir' : r[2] < cursor' => Kept(r)'
  <2>1. CASE cursor' = cursor
    BY <1>3, <2>1 DEF Covered, InThePast, TypeOK
  <2>2. CASE cursor' # cursor
    <3>1. cursor' = new[c] /\ safe[c] = "yes" /\ work[c] = {} /\ pc[c] = "collect"
      BY <1>7, <2>2 DEF SetLastChunkCheck, Advance
    <3>2. left[c] = {}  BY <3>1 DEF RowsOfDir
    <3>3. \A r \in dir : r[2] < new[c] => Kept(r)  BY <3>1, <3>2 DEF Covered
    <3> QED  BY <1>3, <3>1, <3>3 DEF InThePast, TypeOK
  <2> QED  BY <2>1, <2>2
<1>8. \A r \in dir' : r[2] < cursor' => Kept(r)'
  <2>1. CASE cursor' = cursor
    BY <1>3, <2>1 DEF Covered, InThePast, TypeOK
  <2>2. CASE \E c \in Checker : SetLastChunkCheck(c)
    BY <1>7, <2>2
  <2> QED
    BY <2>1, <2>2 DEF Next, Step, vars, RegisterChunk, ChunkData, storeChunkBatch,
      DirectMessage, processRTCMessages, GetLastChunkCheck, Query, Scan, CollectNext,
      RetryNext, StoreFailedChunk, Assemble, SaveMessage, Publish, ListFailedChunks,
      CheckDone, chunkCleanupLoop, Crash, Tick
<1>9. \A c \in Checker : \A r \in dir' : r[2] < last'[c] => Kept(r)'
  <2> SUFFICES ASSUME NEW c \in Checker PROVE \A r \in dir' : r[2] < last'[c] => Kept(r)'
    OBVIOUS
  <2>1. last'[c] \in {0, last[c], cursor}
    BY DEF TypeOK, Next, Step, vars, Forget, RegisterChunk, ChunkData, storeChunkBatch,
      DirectMessage, processRTCMessages, GetLastChunkCheck, Query, Scan, SetLastChunkCheck,
      CollectNext, RetryNext, StoreFailedChunk, Assemble, SaveMessage, Publish,
      ListFailedChunks, CheckDone, chunkCleanupLoop, Crash, Tick
  <2>2. CASE last'[c] = 0
    <3>1. \A r \in dir' : r[2] \in Nat  BY TypeStep DEF TypeOK, Row
    <3> QED  BY <2>2, <3>1
  <2>3. CASE last'[c] = last[c]  BY <1>3, <2>3 DEF Covered, InThePast, TypeOK
  <2>4. CASE last'[c] = cursor  BY <1>3, <2>4 DEF Covered, InThePast, TypeOK
  <2> QED  BY <2>1, <2>2, <2>3, <2>4
<1>10. \A d \in Checker : Due(d)'
  <2>1. ASSUME NEW c \in Checker, Query(c) PROVE \A d \in Checker : Due(d)'
    <3>1. \A d \in Checker : d # c => Due(d)'
      BY <1>6, <2>1 DEF Query, Forget, TypeOK
    <3>2. CASE Forget(c)
      BY <1>4, <3>1, <3>2 DEF Forget, TypeOK
    <3>3. CASE ~ Forget(c)
      <4> DEFINE rows == GetChunksByRecipient(DateFrom(c))
      <4>1. /\ work' = [work EXCEPT ![c] = rows]
            /\ \E t \in {last[c]} \cup {r[2] : r \in rows} : new' = [new EXCEPT ![c] = t]
            /\ UNCHANGED <<left, now, dir, deadline, saved, tracked>>
        BY <2>1, <3>3 DEF Query
      <4>2. \A r \in dir : Kept(r) \/ r \in rows
        <5> SUFFICES ASSUME NEW r \in dir, r \notin rows PROVE Kept(r)  OBVIOUS
        <5>1. r[2] \in Nat /\ last[c] \in Nat  BY DEF TypeOK, Row
        <5>2. r[2] < last[c] \/ Expired(MsgOf[r[1]])
          BY <5>1 DEF GetChunksByRecipient, DateFrom
        <5> QED  BY <5>2 DEF Covered, Kept
      <4>3. work'[c] = rows  BY <4>1 DEF TypeOK
      <4>4. \A r \in dir : Kept(r)' \/ r \in work'[c]  BY <1>2, <4>2, <4>3
      <4>5. Due(c)'  BY <4>1, <4>4 DEF Due
      <4> QED  BY <3>1, <4>5
    <3> QED  BY <3>2, <3>3
  <2>2. ASSUME NEW c \in Checker, Scan(c) PROVE \A d \in Checker : Due(d)'
    <3>1. \A d \in Checker : d # c => Due(d)'
      BY <1>6, <2>2 DEF Scan, TypeOK
    <3>2. \A r \in work[c] : r \in work'[c] \/ Kept(r)
      BY <2>2 DEF Scan, Kept, TypeOK
    <3>3. UNCHANGED <<new, safe, left>> /\ work[c] \subseteq dir
      BY <2>2 DEF Scan, RowsOfDir
    <3>4. Due(c)'  BY <1>2, <1>5, <3>2, <3>3
    <3> QED  BY <3>1, <3>4
  <2>3. ASSUME NEW c \in Checker, NEW m \in Message, CollectNext(c, m)
        PROVE  \A d \in Checker : Due(d)'
    <3> DEFINE rows == RowsOf(m, work[c])
    <3>1. /\ work' = [work EXCEPT ![c] = @ \ rows] /\ UNCHANGED new /\ left[c] = {}
      BY <2>3 DEF CollectNext, RowsOfDir
    <3>2. CASE Busy(c) /\ UNCHANGED left
      BY <1>5, <1>6, <3>1, <3>2 DEF Busy, Unsafe, TypeOK
    <3>3. CASE m \in saved /\ UNCHANGED <<safe, left>>
      <4>1. \A d \in Checker : d # c => Due(d)'
        BY <1>6, <3>1, <3>3 DEF TypeOK
      <4>2. \A r \in rows : r \in dir /\ Kept(r)
        BY <3>3 DEF RowsOf, Kept, RowsOfDir
      <4>3. \A r \in work[c] : r \in work'[c] \/ Kept(r)'
        BY <1>2, <3>1, <4>2 DEF TypeOK
      <4>4. Due(c)'  BY <1>5, <3>1, <3>3, <4>3
      <4> QED  BY <4>1, <4>4
    <3>4. CASE Begin(c, m, rows) /\ UNCHANGED safe
      <4>1. left' = [left EXCEPT ![c] = rows]  BY <3>4 DEF Begin
      <4>2. \A d \in Checker : d # c => Due(d)'
        BY <1>6, <3>1, <3>4, <4>1 DEF TypeOK
      <4>3. work'[c] \cup left'[c] = work[c]
        BY <3>1, <4>1 DEF TypeOK, RowsOf
      <4>4. Due(c)'  BY <1>5, <3>1, <3>4, <4>3
      <4> QED  BY <4>2, <4>4
    <3> QED  BY <2>3, <3>2, <3>3, <3>4 DEF CollectNext
  <2>4. ASSUME NEW c \in Checker, NEW m \in Message, RetryNext(c, m)
        PROVE  \A d \in Checker : Due(d)'
    <3>1. UNCHANGED <<new, safe, work>> /\ left[c] = {}
      BY <2>4 DEF RetryNext, RowsOfDir
    <3>2. \A d \in Checker : left[d] \subseteq left'[d]
      BY <2>4, <3>1 DEF RetryNext, Begin, TypeOK
    <3> QED  BY <1>5, <3>1, <3>2
  <2>5. ASSUME NEW c \in Checker, StoreFailedChunk(c) PROVE \A d \in Checker : Due(d)'
    <3>1. UNCHANGED <<new, work>>  BY <2>5 DEF StoreFailedChunk
    <3>2. CASE Unsafe(c) /\ Release(c)
      BY <1>5, <1>6, <3>1, <3>2 DEF Unsafe, Release, TypeOK
    <3>3. CASE ~ (Unsafe(c) /\ Release(c))
      <4>1. PICK r \in left[c] :
              /\ tracked' = [tracked EXCEPT ![r[1]] =
                              IF @ = 0 THEN now + (deadline[cur[c]] - r[2]) ELSE @]
              /\ left' = [left EXCEPT ![c] = @ \ {r}] /\ UNCHANGED safe
        BY <2>5, <3>3 DEF StoreFailedChunk
      <4>2. /\ r[1] \in Chunk /\ r[2] \in Nat /\ r[2] <= now
            /\ MsgOf[r[1]] = cur[c] /\ deadline[cur[c]] # 0 /\ deadline[cur[c]] \in Nat
        BY DEF RowsOfDir, InThePast, TypeOK, Row
      <4>3. now + (deadline[cur[c]] - r[2]) # 0
        BY <4>2 DEF TypeOK
      <4>4. tracked'[r[1]] # 0  BY <4>1, <4>2, <4>3 DEF TypeOK
      <4>5. \A d \in Checker : d # c => Due(d)'
        BY <1>6, <3>1, <4>1 DEF TypeOK
      <4>6. left'[c] = left[c] \ {r} /\ Kept(r)'  BY <4>1, <4>4 DEF TypeOK, Kept
      <4>7. Due(c)'  BY <1>5, <3>1, <4>1, <4>6
      <4> QED  BY <4>5, <4>7
    <3> QED  BY <3>2, <3>3
  <2>6. ASSUME NEW c \in Checker, Assemble(c) \/ SaveMessage(c) \/ Publish(c)
        PROVE  \A d \in Checker : Due(d)'
    <3>1. UNCHANGED <<new, work, safe>> /\ left[c] = {}
      BY <2>6 DEF Assemble, SaveMessage, Publish, RowsOfDir
    <3>2. CASE UNCHANGED left  BY <1>6, <3>1, <3>2
    <3>3. CASE Release(c)
      BY <1>6, <3>1, <3>3 DEF Release, TypeOK
    <3> QED  BY <2>6, <3>2, <3>3 DEF Assemble, SaveMessage, Publish
  <2>7. ASSUME NEW c \in Checker, SetLastChunkCheck(c) PROVE \A d \in Checker : Due(d)'
    BY <1>4, <1>6, <2>7 DEF SetLastChunkCheck, Forget, TypeOK
  <2>8. CASE Crash  BY <1>4, <2>8 DEF Crash
  <2>9. CASE UNCHANGED <<new, safe, work, left>>  BY <1>6, <2>9
  <2> QED
    BY <2>1, <2>2, <2>3, <2>4, <2>5, <2>6, <2>7, <2>8, <2>9
    DEF Next, Step, vars, RegisterChunk, ChunkData, storeChunkBatch, DirectMessage,
      processRTCMessages, GetLastChunkCheck, ListFailedChunks, CheckDone, chunkCleanupLoop,
      Tick
<1> QED  BY <1>8, <1>9, <1>10 DEF Covered, Due

-----------------------------------------------------------------------------
LEMMA Inductive == Spec => []IInv
<1>1. Init => IInv
  <2> SUFFICES ASSUME Init PROVE IInv  OBVIOUS
  <2>1. TypeOK /\ OneCollector /\ InThePast /\ RowsOfDir  BY BaseInit DEF Base
  <2>2. SavedFirst /\ PublishedOnce /\ TrackedLong /\ Covered
    BY InboxAssumption DEF Init, SavedFirst, PublishedOnce, TrackedLong, Covered
  <2> QED  BY <2>1, <2>2 DEF IInv
<1>2. IInv /\ [Next]_vars => IInv'
  BY TypeStep, OwnStep, PastStep, RowsStep, TrackedStep, CoveredStep DEF IInv, Base
<1> QED  BY <1>1, <1>2, PTL DEF Spec

(* Every variable keeps its type: in particular a row of failed_chunks     *)
(* never gets a lifetime below zero (StoreFailedChunk's ttl - age).        *)
THEOREM TypeCorrect == Spec => []TypeOK
<1>1. IInv => TypeOK  BY DEF IInv
<1> QED  BY <1>1, Inductive, PTL

(* The cursor passes nothing: checkRecipientMessages may move last_check   *)
(* over a chunk only when the message is saved, its row of failed_chunks   *)
(* brings the node back to it, or it has expired, however many checks run  *)
(* at the same time and wherever each of them fails or the node restarts.  *)
THEOREM NothingSkippedAlways == Spec => []NothingSkipped
<1>1. ASSUME IInv, NEW r \in dir, Kept(r) PROVE Handled(r)
  <2>1. r[1] \in Chunk /\ MsgOf[r[1]] \in Message
    BY <1>1, InboxAssumption DEF IInv, TypeOK, Row
  <2> QED  BY <1>1, <2>1 DEF IInv, TypeOK, TrackedLong, Kept, Handled, Live, Expired
<1>2. IInv => NothingSkipped  BY <1>1 DEF IInv, Covered, NothingSkipped
<1> QED  BY <1>2, Inductive, PTL

(* collectAndProcessMessage and processRTCMessages hand a message to the   *)
(* subscribers at most once between them, and only after SaveMessage.      *)
THEOREM PublishedOnceAlways == Spec => []PublishedOnce
<1>1. IInv => PublishedOnce  BY DEF IInv
<1> QED  BY <1>1, Inductive, PTL

(* A row of failed_chunks is deleted only for a message that is saved or   *)
(* when its own time is over: no failure between tracking and saving loses *)
(* a chunk (DeleteFailedMessage, DeleteExpiredFailedChunks).               *)
THEOREM RetryKeptAlways == Spec => RetryKept
<1>1. IInv /\ [Next]_vars =>
        [\A x \in Chunk : tracked[x] # 0 /\ tracked'[x] = 0 =>
            MsgOf[x] \in saved \/ ~ Live(x)]_vars
  BY RowGoes DEF IInv, Base
<1> QED  BY <1>1, Inductive, PTL DEF Spec, RetryKept
=============================================================================
