--------------------------- MODULE StateSyncProofs ---------------------------
(***************************************************************************)
(* Safety of StateSync for every set of messages and transfers, every      *)
(* number of chunks, channels, failures and restarts.                      *)
(***************************************************************************)
EXTENDS StateSync, TLAPS

\* A checkpoint is never ahead of the clock, and a transfer starts at a cursor
\* that is not ahead of today's.
Clocks ==
    /\ cursor <= clock
    /\ \A t \in TransferID : check[t] <= clock /\ since[t] <= cursor

\* The manifest was sent: the delta is final.
Announced(t) == next[t] > 0

\* Nothing is sent before the export, and nothing after the last chunk.
SendOrder ==
    \A t \in TransferID : /\ step[t] \in {"free", "started"} => next[t] = 0
                          /\ step[t] = "exported" => next[t] <= Parts

\* An exported delta misses nothing older than its checkpoint, except what the
\* importer already has.
Covers(t) ==
    \A m \in Message : rows[m] # 0 /\ rows[m] < check[t] => m \in delta[t] \cup have

DeltasCover ==
    \A t \in TransferID : step[t] = "exported" \/ Announced(t) => Covers(t)

\* What is in flight or being received belongs to an announced transfer.
OnlyAnnounced ==
    /\ \A i \in 1..Len(toB) : toB[i].type # "error" => Announced(toB[i].id)
    /\ incoming # None => Announced(incoming)
    /\ \A t \in TransferID : importing[t] # "none" => Announced(t)

Imported(t) == Announced(t) /\ delta[t] \subseteq have

\* A positive acknowledgement, wherever it is, was preceded by the import.
AcksTrue ==
    /\ \A t \in TransferID : importing[t] = "committed" => Imported(t)
    /\ \A a \in ackNet \cup ackJobs : a.error = "none" => Imported(a.id)
    /\ \A t \in acking : Imported(t)

\* Without a channel, whatever is kept for the peer is about to be removed.
DownClean ==
    ~Connected =>
        /\ toB = <<>>
        /\ requested = "yes" => asking > 0 \/ dropB > 0 \/ clearB > 0
        /\ incoming # None => dropB > 0 \/ clearB > 0
        /\ outgoing # None =>
             dropA > 0 \/ clearA > 0 \/ step[outgoing] = "exported"

IInv ==
    /\ TypeOK
    /\ Clocks
    /\ SendOrder
    /\ DeltasCover
    /\ OnlyAnnounced
    /\ AcksTrue
    /\ CursorSafe
    /\ DownClean

-----------------------------------------------------------------------------
(* Type correctness.                                                       *)

LEMMA TypeInit == Init => TypeOK /\ SendOrder
<1>1. Init => TypeOK  BY StateSyncAssumption DEF Init, TypeOK
<1>2. Init => SendOrder  BY StateSyncAssumption DEF Init, SendOrder
<1> QED  BY <1>1, <1>2

\* What the channel carries stays a sequence of messages.
LEMMA QueueType ==
    ASSUME toB \in Seq(Msg)
    PROVE  /\ \A m \in Msg : SendToB(m) => toB' \in Seq(Msg)
           /\ ChannelLost => toB' \in Seq(Msg)
           /\ Receive => toB' \in Seq(Msg) /\ Head(toB) \in Msg
<1>1. \A m \in Msg : Append(toB, m) \in Seq(Msg)  OBVIOUS
<1>2. toB # <<>> => Tail(toB) \in Seq(Msg) /\ Head(toB) \in Msg  OBVIOUS
<1>3. <<>> \in Seq(Msg)  OBVIOUS
<1> QED  BY <1>1, <1>2, <1>3 DEF SendToB, ChannelLost, Receive

\* The queue after a step: what was appended, or one message fewer.
LEMMA QueueShape ==
    ASSUME toB \in Seq(Msg)
    PROVE  /\ \A m \in Msg : SendToB(m) /\ Connected =>
                /\ Len(toB') = Len(toB) + 1
                /\ \A i \in 1..Len(toB') :
                     toB'[i] = IF i <= Len(toB) THEN toB[i] ELSE m
           /\ Receive => /\ Head(toB) = toB[1] /\ Len(toB) >= 1
                         /\ Len(toB') = Len(toB) - 1
                         /\ \A i \in 1..Len(toB') : toB'[i] = toB[i + 1]
<1>1. ASSUME NEW m \in Msg, SendToB(m), Connected
      PROVE  /\ Len(toB') = Len(toB) + 1
             /\ \A i \in 1..Len(toB') :
                  toB'[i] = IF i <= Len(toB) THEN toB[i] ELSE m
  <2>1. toB' = Append(toB, m)  BY <1>1 DEF SendToB
  <2> QED  BY <2>1
<1>2. ASSUME Receive
      PROVE  /\ Head(toB) = toB[1] /\ Len(toB) >= 1
             /\ Len(toB') = Len(toB) - 1
             /\ \A i \in 1..Len(toB') : toB'[i] = toB[i + 1]
  <2>1. toB # <<>> /\ toB' = Tail(toB)  BY <1>2 DEF Receive
  <2> QED  BY <2>1
<1> QED  BY <1>1, <1>2

\* What an acknowledgement and the end of a reception leave.
LEMMA AckType ==
    ASSUME TypeOK, NEW t \in TransferID, NEW error \in {"none", "import"},
           SendAck(t, error)
    PROVE  ackNet' \subseteq Acks
BY DEF TypeOK, SendAck, Acks

LEMMA ClearType ==
    ASSUME TypeOK, NEW t \in TransferID, clearIncomingStateSync(t)
    PROVE  /\ requested' \in {"no", "yes"}
           /\ incoming' \in TransferID \cup {None}
           /\ got' \subseteq 1..Parts
BY DEF TypeOK, clearIncomingStateSync, recvVars

LEMMA TypeStep == TypeOK /\ SendOrder /\ [Next]_vars => TypeOK'
<1> SUFFICES ASSUME TypeOK, SendOrder, [Next]_vars PROVE TypeOK'  OBVIOUS
<1> USE StateSyncAssumption
<1> USE DEF storeVars, sendVars, jobVarsA, exportVars, recvVars, jobVarsB,
            importVars, netVars, vars, Fault
<1>1. CASE UNCHANGED vars  BY <1>1 DEF TypeOK
<1>2. CASE Tick  BY <1>2 DEF Tick, TypeOK
<1>3. ASSUME NEW m \in Message, SaveMessage(m) PROVE TypeOK'
  BY <1>3 DEF SaveMessage, TypeOK
<1>4. ASSUME NEW m \in Message, SaveMessageAtImporter(m) PROVE TypeOK'
  BY <1>4 DEF SaveMessageAtImporter, TypeOK
<1>5. ASSUME NEW M \in SUBSET Message, ImportReplicationSnapshot(M) PROVE TypeOK'
  BY <1>5 DEF ImportReplicationSnapshot, TypeOK
<1>6. CASE handlePeerConnected
  <2>1. CASE Ask /\ known' = "replica" /\ UNCHANGED faults
    BY <1>6, <2>1 DEF handlePeerConnected, Ask, TypeOK
  <2>2. CASE Fault /\ UNCHANGED <<known, recvVars, asking>>
    BY <1>6, <2>2 DEF handlePeerConnected, TypeOK
  <2> QED  BY <1>6, <2>1, <2>2 DEF handlePeerConnected
<1>7. CASE refreshReplicaConnections
  <2>1. CASE Connected /\ Ask
    BY <1>7, <2>1 DEF refreshReplicaConnections, Ask, TypeOK
  <2>2. CASE UNCHANGED <<recvVars, asking>>
    BY <1>7, <2>2 DEF refreshReplicaConnections, TypeOK
  <2> QED  BY <1>7, <2>1, <2>2 DEF refreshReplicaConnections
<1>8. CASE SendStateSyncRequest  BY <1>8 DEF SendStateSyncRequest, TypeOK
<1>9. CASE DeliverRequest  BY <1>9 DEF DeliverRequest, TypeOK
<1>10. CASE handleStateSyncRequest
  <2>1. ASSUME NEW t \in TransferID,
               step' = [step EXCEPT ![t] = "started"],
               since' = [since EXCEPT ![t] = cursor],
               check' = [check EXCEPT ![t] = clock],
               trusted' = "replica", UNCHANGED <<next, delta, faults>>
        PROVE  TypeOK'
    BY SMTT(20), <1>10, <2>1 DEF handleStateSyncRequest, TypeOK
  <2>2. CASE Fault /\ UNCHANGED <<trusted, sendVars>>
    BY <1>10, <2>2 DEF handleStateSyncRequest, TypeOK
  <2> QED  BY <1>10, <2>1, <2>2 DEF handleStateSyncRequest
<1>11. ASSUME NEW t \in TransferID, sendStateSync(t) PROVE TypeOK'
  <2>1. ExportMessagesForStateSync(t) \in SUBSET Message
    BY DEF ExportMessagesForStateSync
  <2>2. CASE Fault /\ step' = [step EXCEPT ![t] = "failed"]
               /\ UNCHANGED <<delta, outgoing>>
    BY <1>11, <2>2 DEF sendStateSync, TypeOK
  <2>3. CASE /\ delta' = [delta EXCEPT ![t] = ExportMessagesForStateSync(t)]
             /\ step' = [step EXCEPT ![t] = "exported"]
             /\ outgoing' = t /\ UNCHANGED faults
    BY <1>11, <2>1, <2>3 DEF sendStateSync, TypeOK
  <2> QED  BY <1>11, <2>2, <2>3 DEF sendStateSync
<1>12. ASSUME NEW t \in TransferID, SendNext(t) PROVE TypeOK'
  <2> DEFINE m == [type |-> IF next[t] = 0 THEN "manifest" ELSE "chunk",
                   id |-> t, index |-> next[t]]
  <2>1. CASE Connected
    <3>1. next[t] \in 0..Parts  BY <1>12 DEF SendNext, SendOrder, TypeOK
    <3>2. m \in Msg  BY <3>1 DEF Msg
    <3>3. toB' \in Seq(Msg)
      <4>1. SendToB(m)  BY <1>12, <2>1 DEF SendNext
      <4> HIDE DEF m
      <4> QED  BY <3>2, <4>1, QueueType DEF TypeOK
    <3>4. /\ next' = [next EXCEPT ![t] = @ + 1]
          /\ step' = [step EXCEPT ![t] = IF next[t] = LastPart THEN "done" ELSE @]
          /\ UNCHANGED outgoing
      BY <1>12, <2>1 DEF SendNext
    <3>5. next' \in [TransferID -> 0..Parts + 1]  BY <3>1, <3>4 DEF TypeOK
    <3> QED  BY <1>12, <3>3, <3>4, <3>5 DEF SendNext, TypeOK
  <2>2. CASE ~Connected
    BY <1>12, <2>2 DEF SendNext, ClearTransfer, TypeOK
  <2> QED  BY <2>1, <2>2
<1>13. ASSUME NEW t \in TransferID, SendError(t) PROVE TypeOK'
  <2>1. [type |-> "error", id |-> t, index |-> 0] \in Msg  BY DEF Msg
  <2>2. toB' \in Seq(Msg)  BY <1>13, <2>1, QueueType DEF SendError, TypeOK
  <2> QED  BY <1>13, <2>2 DEF SendError, TypeOK
<1>14. CASE handleStateSyncManifest
  BY <1>14, QueueType DEF handleStateSyncManifest, TypeOK, Msg
<1>15. CASE handleStateSyncChunk
  <2>1. toB' \in Seq(Msg) /\ Head(toB) \in Msg
    BY <1>15, QueueType DEF handleStateSyncChunk, TypeOK
  <2>2. Head(toB).id \in TransferID /\ Head(toB).index \in 1..Parts
    BY <1>15, <2>1 DEF handleStateSyncChunk, Msg
  <2> QED  BY <1>15, <2>1, <2>2 DEF handleStateSyncChunk, TypeOK
<1>16. ASSUME NEW t \in TransferID, finishStateSyncImport(t) PROVE TypeOK'
  <2>1. CASE /\ have' = have \cup delta[t]
             /\ importing' = [importing EXCEPT ![t] = "committed"]
             /\ UNCHANGED <<recvVars, ackNet, faults>>
    BY <1>16, <2>1 DEF finishStateSyncImport, ImportStateSyncMessages,
         failStateSyncImport, TypeOK
  <2>2. CASE /\ Fault
             /\ importing' = [importing EXCEPT ![t] = "none"]
             /\ clearIncomingStateSync(t)
             /\ SendAck(t, "import")
             /\ UNCHANGED have
    BY SMTT(20), <1>16, <2>2, ClearType, AckType DEF finishStateSyncImport,
         ImportStateSyncMessages, failStateSyncImport, TypeOK
  <2> QED  BY <1>16, <2>1, <2>2 DEF finishStateSyncImport, ImportStateSyncMessages,
       failStateSyncImport
<1>17. ASSUME NEW t \in TransferID, AcknowledgeImport(t) PROVE TypeOK'
  BY <1>17, ClearType, AckType DEF AcknowledgeImport, TypeOK
<1>18. ASSUME NEW a \in Acks, DeliverAck(a) PROVE TypeOK'
  BY <1>18 DEF DeliverAck, TypeOK
<1>19. ASSUME NEW a \in Acks, handleStateSyncAck(a) PROVE TypeOK'
  BY <1>19 DEF handleStateSyncAck, TypeOK, Acks
<1>20. ASSUME NEW t \in TransferID, SetLastStateCheck(t) PROVE TypeOK'
  <2>1. cursor' \in Nat /\ outgoing' \in TransferID \cup {None} /\ faults' \in Nat
    BY SMTT(20), <1>20 DEF SetLastStateCheck, LastCheck, ClearTransfer, TypeOK
  <2> QED  BY <1>20, <2>1 DEF SetLastStateCheck, TypeOK
<1>21. CASE Open  BY <1>21 DEF Open, TypeOK
<1>22. CASE Break  BY <1>22 DEF Break, ChannelLost, TypeOK
<1>23. CASE handlePeerDisconnectedA
  BY <1>23 DEF handlePeerDisconnectedA, TypeOK
<1>24. CASE ClearOutgoing  BY <1>24 DEF ClearOutgoing, TypeOK
<1>25. CASE handlePeerDisconnectedB
  BY <1>25 DEF handlePeerDisconnectedB, TypeOK
<1>26. CASE ClearIncoming  BY <1>26 DEF ClearIncoming, TypeOK
<1>27. CASE CrashA  BY <1>27 DEF CrashA, ChannelLost, TypeOK
<1>28. CASE CrashB  BY <1>28 DEF CrashB, ChannelLost, TypeOK
<1> QED
  BY <1>1, <1>2, <1>3, <1>4, <1>5, <1>6, <1>7, <1>8, <1>9, <1>10, <1>11, <1>12,
     <1>13, <1>14, <1>15, <1>16, <1>17, <1>18, <1>19, <1>20, <1>21, <1>22,
     <1>23, <1>24, <1>25, <1>26, <1>27, <1>28 DEF Next, Export, Import

-----------------------------------------------------------------------------
(* The cursor.                                                             *)

CursorInv ==
    /\ Clocks
    /\ SendOrder
    /\ DeltasCover
    /\ OnlyAnnounced
    /\ AcksTrue
    /\ CursorSafe

cursorVars == <<storeVars, sendVars, have, importing, incoming, toB, ackNet,
                ackJobs, acking>>

LEMMA CursorInit == Init => CursorInv
<1> SUFFICES ASSUME Init PROVE CursorInv  OBVIOUS
<1> USE StateSyncAssumption
<1>1. Clocks /\ SendOrder  BY DEF Init, Clocks, SendOrder
<1>2. DeltasCover  BY DEF Init, DeltasCover, Covers, Announced
<1>3. OnlyAnnounced  BY DEF Init, OnlyAnnounced, Announced
<1>4. AcksTrue  BY DEF Init, AcksTrue, Imported, Announced
<1>5. CursorSafe  BY DEF Init, CursorSafe
<1> QED  BY <1>1, <1>2, <1>3, <1>4, <1>5 DEF CursorInv

LEMMA CursorFrame ==
    ASSUME TypeOK, CursorInv, UNCHANGED cursorVars PROVE CursorInv'
<1> USE DEF cursorVars, storeVars, sendVars
<1>1. Clocks' /\ SendOrder'  BY DEF CursorInv, Clocks, SendOrder
<1>2. DeltasCover'  BY DEF CursorInv, DeltasCover, Covers, Announced
<1>3. OnlyAnnounced'  BY DEF CursorInv, OnlyAnnounced, Announced
<1>4. AcksTrue'  BY DEF CursorInv, AcksTrue, Imported, Announced
<1>5. CursorSafe'  BY DEF CursorInv, CursorSafe
<1> QED  BY <1>1, <1>2, <1>3, <1>4, <1>5 DEF CursorInv

LEMMA TickCursor ==
    ASSUME TypeOK, TypeOK', CursorInv, Tick
    PROVE  CursorInv'
<1> USE StateSyncAssumption
<1> USE DEF storeVars, sendVars, jobVarsA, exportVars, recvVars, jobVarsB,
            importVars, netVars, Fault
<1>1. Clocks'
  BY DEF Tick, TypeOK, CursorInv, Clocks
<1>2. SendOrder'
  BY DEF Tick, TypeOK, CursorInv, SendOrder
<1>3. DeltasCover'
  BY DEF Tick, TypeOK, CursorInv, DeltasCover, Covers, Announced, SendOrder
<1>4. OnlyAnnounced'
  BY DEF Tick, TypeOK, CursorInv, OnlyAnnounced, Announced, SendOrder
<1>5. AcksTrue'
  BY DEF Tick, TypeOK, CursorInv, AcksTrue, Imported, Announced, SendOrder
<1>6. CursorSafe'
  BY DEF Tick, TypeOK, CursorInv, CursorSafe
<1> QED  BY <1>1, <1>2, <1>3, <1>4, <1>5, <1>6 DEF CursorInv

LEMMA SaveMessageCursor ==
    ASSUME TypeOK, TypeOK', CursorInv, NEW m \in Message, SaveMessage(m)
    PROVE  CursorInv'
<1> USE StateSyncAssumption
<1> USE DEF storeVars, sendVars, jobVarsA, exportVars, recvVars, jobVarsB,
            importVars, netVars, Fault
<1>1. Clocks'
  BY DEF SaveMessage, TypeOK, CursorInv, Clocks
<1>2. SendOrder'
  BY DEF SaveMessage, TypeOK, CursorInv, SendOrder
<1>3. DeltasCover'
  BY DEF SaveMessage, TypeOK, CursorInv, DeltasCover, Covers, Announced, Clocks
<1>4. OnlyAnnounced'
  BY DEF SaveMessage, TypeOK, CursorInv, OnlyAnnounced, Announced, SendOrder
<1>5. AcksTrue'
  BY DEF SaveMessage, TypeOK, CursorInv, AcksTrue, Imported, Announced,
     SendOrder
<1>6. CursorSafe'
  BY DEF SaveMessage, TypeOK, CursorInv, CursorSafe, Clocks
<1> QED  BY <1>1, <1>2, <1>3, <1>4, <1>5, <1>6 DEF CursorInv

LEMMA SaveMessageAtImporterCursor ==
    ASSUME TypeOK, TypeOK', CursorInv, NEW m \in Message, SaveMessageAtImporter(m)
    PROVE  CursorInv'
<1> USE StateSyncAssumption
<1> USE DEF storeVars, sendVars, jobVarsA, exportVars, recvVars, jobVarsB,
            importVars, netVars, Fault
<1>1. Clocks'
  BY DEF SaveMessageAtImporter, TypeOK, CursorInv, Clocks
<1>2. SendOrder'
  BY DEF SaveMessageAtImporter, TypeOK, CursorInv, SendOrder
<1>3. DeltasCover'
  BY DEF SaveMessageAtImporter, TypeOK, CursorInv, DeltasCover, Covers,
     Announced, SendOrder
<1>4. OnlyAnnounced'
  BY DEF SaveMessageAtImporter, TypeOK, CursorInv, OnlyAnnounced, Announced,
     SendOrder
<1>5. AcksTrue'
  BY DEF SaveMessageAtImporter, TypeOK, CursorInv, AcksTrue, Imported,
     Announced, SendOrder
<1>6. CursorSafe'
  BY DEF SaveMessageAtImporter, TypeOK, CursorInv, CursorSafe
<1> QED  BY <1>1, <1>2, <1>3, <1>4, <1>5, <1>6 DEF CursorInv

LEMMA ImportReplicationSnapshotCursor ==
    ASSUME TypeOK, TypeOK', CursorInv, NEW M \in SUBSET Message,
           ImportReplicationSnapshot(M)
    PROVE  CursorInv'
<1> USE StateSyncAssumption
<1> USE DEF storeVars, sendVars, jobVarsA, exportVars, recvVars, jobVarsB,
            importVars, netVars, Fault
<1>1. Clocks'
  BY DEF ImportReplicationSnapshot, TypeOK, CursorInv, Clocks
<1>2. SendOrder'
  BY DEF ImportReplicationSnapshot, TypeOK, CursorInv, SendOrder
<1>3. DeltasCover'
  BY DEF ImportReplicationSnapshot, TypeOK, CursorInv, DeltasCover, Covers,
         Announced, Clocks
<1>4. OnlyAnnounced'
  BY DEF ImportReplicationSnapshot, TypeOK, CursorInv, OnlyAnnounced, Announced,
     SendOrder
<1>5. AcksTrue'
  BY DEF ImportReplicationSnapshot, TypeOK, CursorInv, AcksTrue, Imported,
     Announced, SendOrder
<1>6. CursorSafe'
  BY DEF ImportReplicationSnapshot, TypeOK, CursorInv, CursorSafe, Clocks
<1> QED  BY <1>1, <1>2, <1>3, <1>4, <1>5, <1>6 DEF CursorInv

LEMMA HandleStateSyncRequestCursor ==
    ASSUME TypeOK, TypeOK', CursorInv, handleStateSyncRequest
    PROVE  CursorInv'
<1> USE StateSyncAssumption
<1> USE DEF storeVars, sendVars, jobVarsA, exportVars, recvVars, jobVarsB,
            importVars, netVars, Fault
<1>1. Clocks'
  BY SMTT(20) DEF handleStateSyncRequest, TypeOK, CursorInv, Clocks
<1>2. SendOrder'
  BY SMTT(20) DEF handleStateSyncRequest, TypeOK, CursorInv, SendOrder
<1>3. DeltasCover'
  <2> SUFFICES ASSUME NEW t \in TransferID,
                      step'[t] = "exported" \/ Announced(t)'
               PROVE  Covers(t)'
    BY DEF DeltasCover
  <2>1. step[t] = "exported" \/ Announced(t)
    BY DEF handleStateSyncRequest, TypeOK, Announced
  <2>2. step[t] # "free"  BY <2>1 DEF CursorInv, SendOrder, Announced
  <2>3. check'[t] = check[t]
    BY <2>2 DEF handleStateSyncRequest, TypeOK
  <2>4. UNCHANGED <<rows, delta, have>>  BY DEF handleStateSyncRequest
  <2> QED  BY <2>1, <2>3, <2>4 DEF CursorInv, DeltasCover, Covers
<1>4. OnlyAnnounced'
  BY DEF handleStateSyncRequest, TypeOK, CursorInv, OnlyAnnounced, Announced,
     SendOrder
<1>5. AcksTrue'
  BY DEF handleStateSyncRequest, TypeOK, CursorInv, AcksTrue, Imported,
     Announced, SendOrder
<1>6. CursorSafe'
  BY DEF handleStateSyncRequest, TypeOK, CursorInv, CursorSafe
<1> QED  BY <1>1, <1>2, <1>3, <1>4, <1>5, <1>6 DEF CursorInv

LEMMA SendStateSyncCursor ==
    ASSUME TypeOK, TypeOK', CursorInv, NEW t \in TransferID, sendStateSync(t)
    PROVE  CursorInv'
<1> USE StateSyncAssumption
<1> USE DEF storeVars, sendVars, jobVarsA, exportVars, recvVars, jobVarsB,
            importVars, netVars, Fault
<1>1. Clocks'
  BY DEF sendStateSync, ExportMessagesForStateSync, TypeOK, CursorInv, Clocks
<1>2. SendOrder'
  BY DEF sendStateSync, ExportMessagesForStateSync, TypeOK, CursorInv, SendOrder
<1>3. DeltasCover'
  <2> SUFFICES ASSUME NEW u \in TransferID,
                      step'[u] = "exported" \/ Announced(u)'
               PROVE  Covers(u)'
    BY DEF DeltasCover
  <2>1. UNCHANGED <<rows, have, check, next, since, cursor>>  BY DEF sendStateSync
  <2>2. CASE u = t
    <3>1. step'[u] = "exported"
      BY <2>1, <2>2 DEF sendStateSync, CursorInv, SendOrder, Announced
    <3>2. delta' = [delta EXCEPT ![t] = ExportMessagesForStateSync(t)]
      BY <2>2, <3>1 DEF sendStateSync, TypeOK
    <3>3. delta'[t] = ExportMessagesForStateSync(t)  BY <3>2 DEF TypeOK
    <3>4. since[t] <= cursor /\ CursorSafe  BY DEF CursorInv, Clocks
    <3>5. ASSUME NEW m \in Message, rows[m] # 0, rows[m] < check[t]
          PROVE  m \in ExportMessagesForStateSync(t) \/ m \in have
      <4>1. rows[m] \in Nat /\ check[t] \in Nat /\ since[t] \in Nat /\ cursor \in Nat
        BY DEF TypeOK
      <4>2. CASE rows[m] >= since[t]
        BY <3>5, <4>1, <4>2 DEF ExportMessagesForStateSync
      <4>3. CASE rows[m] < since[t]
        BY <3>4, <3>5, <4>1, <4>3 DEF CursorSafe
      <4> QED  BY <4>1, <4>2, <4>3
    <3> QED  BY <2>1, <2>2, <3>3, <3>5 DEF Covers
  <2>3. CASE u # t
    <3>1. step'[u] = step[u] /\ delta'[u] = delta[u]
      BY <2>3 DEF sendStateSync, TypeOK
    <3> QED  BY <2>1, <3>1 DEF CursorInv, DeltasCover, Covers, Announced
  <2> QED  BY <2>2, <2>3
<1>4. OnlyAnnounced'
  BY DEF sendStateSync, ExportMessagesForStateSync, TypeOK, CursorInv,
     OnlyAnnounced, Announced, SendOrder
<1>5. AcksTrue'
  <2>1. UNCHANGED <<have, next, importing, ackNet, ackJobs, acking>>
    BY DEF sendStateSync
  <2>2. next[t] = 0  BY DEF sendStateSync, CursorInv, SendOrder
  <2>3. \A u \in TransferID : u # t => delta'[u] = delta[u]
    BY DEF sendStateSync, TypeOK
  <2>4. \A u \in TransferID : Imported(u) => Imported(u)'
    BY <2>1, <2>2, <2>3 DEF Imported, Announced
  <2>5. /\ \A a \in ackNet \cup ackJobs : a.id \in TransferID
        /\ acking \subseteq TransferID
    BY DEF TypeOK, Acks
  <2> HIDE DEF Imported
  <2> QED  BY <2>1, <2>4, <2>5 DEF CursorInv, AcksTrue
<1>6. CursorSafe'
  BY DEF sendStateSync, ExportMessagesForStateSync, TypeOK, CursorInv,
     CursorSafe
<1> QED  BY <1>1, <1>2, <1>3, <1>4, <1>5, <1>6 DEF CursorInv

LEMMA SendNextCursor ==
    ASSUME TypeOK, TypeOK', CursorInv, NEW t \in TransferID, SendNext(t)
    PROVE  CursorInv'
<1> USE StateSyncAssumption
<1> USE DEF storeVars, sendVars, jobVarsA, exportVars, recvVars, jobVarsB,
            importVars, netVars, Fault
<1>1. Clocks'
  BY DEF SendNext, LastPart, TypeOK, CursorInv, Clocks
<1>2. SendOrder'
  <2>1. next[t] \in 0..Parts  BY DEF SendNext, CursorInv, SendOrder, TypeOK
  <2>2. \A u \in TransferID : u # t => step'[u] = step[u] /\ next'[u] = next[u]
    BY DEF SendNext, TypeOK
  <2>3. \/ step'[t] = "failed"
        \/ /\ next'[t] = next[t] + 1
           /\ step'[t] = IF next[t] = Parts THEN "done" ELSE "exported"
    BY DEF SendNext, LastPart, TypeOK
  <2>4. /\ step'[t] \in {"free", "started"} => next'[t] = 0
        /\ step'[t] = "exported" => next'[t] <= Parts
    BY <2>1, <2>3
  <2> QED  BY <2>2, <2>4 DEF CursorInv, SendOrder
<1>3. DeltasCover'
  BY ZenonT(30) DEF SendNext, LastPart, TypeOK, CursorInv, DeltasCover, Covers, Announced,
     SendOrder
<1>4. OnlyAnnounced'
  <2>1. \A u \in TransferID : next[u] > 0 => next'[u] > 0
    <3>1. CASE Connected
      <4>1. next' = [next EXCEPT ![t] = @ + 1]  BY <3>1 DEF SendNext
      <4>2. next \in [TransferID -> 0..Parts + 1]  BY DEF TypeOK
      <4>3. \A u \in TransferID : next'[u] = next[u] \/ next'[u] = next[u] + 1
        BY <4>1, <4>2
      <4>4. \A u \in TransferID : next[u] \in Nat  BY <4>2
      <4> QED  BY <4>3, <4>4
    <3>2. CASE ~Connected  BY <3>2 DEF SendNext
    <3> QED  BY <3>1, <3>2
  <2>2. UNCHANGED <<incoming, importing>>  BY DEF SendNext
  <2>3. toB \in Seq(Msg)  BY DEF TypeOK
  <2>4. \A i \in 1..Len(toB) : toB[i].id \in TransferID
    <3>1. \A x \in Msg : x.id \in TransferID  BY DEF Msg
    <3> QED  BY <2>3, <3>1
  <2>5. \A i \in 1..Len(toB) : toB[i].type # "error" => next[toB[i].id] > 0
    BY DEF CursorInv, OnlyAnnounced, Announced
  <2>6. ASSUME NEW i \in 1..Len(toB'), toB'[i].type # "error"
        PROVE  next'[toB'[i].id] > 0
    <3> DEFINE m == [type |-> IF next[t] = 0 THEN "manifest" ELSE "chunk",
                     id |-> t, index |-> next[t]]
    <3>1. CASE Connected
      <4>1. next[t] \in 0..Parts  BY DEF SendNext, CursorInv, SendOrder, TypeOK
      <4>2. m \in Msg  BY <4>1 DEF Msg
      <4>3. SendToB(m)  BY <3>1 DEF SendNext
      <4>4. next' = [next EXCEPT ![t] = @ + 1]  BY <3>1 DEF SendNext
      <4>5. next'[t] > 0
        <5>1. next \in [TransferID -> 0..Parts + 1]  BY DEF TypeOK
        <5>2. next'[t] = next[t] + 1  BY <4>4, <5>1
        <5> QED  BY <4>1, <5>2
      <4>6. m.id = t  OBVIOUS
      <4> HIDE DEF m
      <4>7. \/ i \in 1..Len(toB) /\ toB'[i] = toB[i]
            \/ toB'[i] = m
        <5>1. Len(toB) \in Nat  BY <2>3
        <5> QED  BY <2>3, <3>1, <4>2, <4>3, <5>1, QueueShape
      <4> QED  BY <2>1, <2>4, <2>5, <2>6, <4>5, <4>6, <4>7
    <3>2. CASE ~Connected
      <4>1. toB' = toB  BY <3>2 DEF SendNext
      <4> QED  BY <2>1, <2>4, <2>5, <2>6, <4>1
    <3> QED  BY <3>1, <3>2
  <2>7. incoming # None => incoming \in TransferID /\ next[incoming] > 0
    BY DEF CursorInv, OnlyAnnounced, Announced, TypeOK
  <2>8. \A u \in TransferID : importing[u] # "none" => next[u] > 0
    BY DEF CursorInv, OnlyAnnounced, Announced
  <2> QED  BY <2>1, <2>2, <2>6, <2>7, <2>8 DEF OnlyAnnounced, Announced
<1>5. AcksTrue'
  <2>1. \A u \in TransferID : next[u] > 0 => next'[u] > 0
    <3>1. CASE Connected
      <4>1. next' = [next EXCEPT ![t] = @ + 1]  BY <3>1 DEF SendNext
      <4>2. next \in [TransferID -> 0..Parts + 1]  BY DEF TypeOK
      <4>3. \A u \in TransferID : next'[u] = next[u] \/ next'[u] = next[u] + 1
        BY <4>1, <4>2
      <4>4. \A u \in TransferID : next[u] \in Nat  BY <4>2
      <4> QED  BY <4>3, <4>4
    <3>2. CASE ~Connected  BY <3>2 DEF SendNext
    <3> QED  BY <3>1, <3>2
  <2>2. UNCHANGED <<have, delta, importing, ackNet, ackJobs, acking>>
    BY DEF SendNext
  <2>3. \A u \in TransferID : Imported(u) => Imported(u)'
    BY <2>1, <2>2 DEF Imported, Announced
  <2>4. /\ \A a \in ackNet \cup ackJobs : a.id \in TransferID
        /\ acking \subseteq TransferID
    BY DEF TypeOK, Acks
  <2> HIDE DEF Imported
  <2> QED  BY <2>2, <2>3, <2>4 DEF CursorInv, AcksTrue
<1>6. CursorSafe'
  BY DEF SendNext, LastPart, TypeOK, CursorInv, CursorSafe
<1> QED  BY <1>1, <1>2, <1>3, <1>4, <1>5, <1>6 DEF CursorInv

LEMMA SendErrorCursor ==
    ASSUME TypeOK, TypeOK', CursorInv, NEW t \in TransferID, SendError(t)
    PROVE  CursorInv'
<1> USE StateSyncAssumption
<1> USE DEF storeVars, sendVars, jobVarsA, exportVars, recvVars, jobVarsB,
            importVars, netVars, Fault
<1>1. Clocks'
  BY DEF SendError, TypeOK, CursorInv, Clocks
<1>2. SendOrder'
  BY DEF SendError, TypeOK, CursorInv, SendOrder
<1>3. DeltasCover'
  BY DEF SendError, TypeOK, CursorInv, DeltasCover, Covers, Announced, SendOrder
<1>4. OnlyAnnounced'
  <2> DEFINE m == [type |-> "error", id |-> t, index |-> 0]
  <2>1. UNCHANGED <<next, incoming, importing>>  BY DEF SendError
  <2>2. m \in Msg /\ m.type = "error"  BY DEF Msg
  <2>3. SendToB(m)  BY DEF SendError
  <2> HIDE DEF m
  <2>4. ASSUME NEW i \in 1..Len(toB')
        PROVE  (i \in 1..Len(toB) /\ toB'[i] = toB[i]) \/ toB'[i] = m
    <3>1. CASE Connected
      <4>1. toB \in Seq(Msg)  BY DEF TypeOK
      <4>2. Len(toB) \in Nat  BY <4>1
      <4> QED  BY <2>2, <2>3, <2>4, <3>1, <4>1, <4>2, QueueShape
    <3>2. CASE ~Connected  BY <2>3, <2>4, <3>2 DEF SendToB
    <3> QED  BY <3>1, <3>2
  <2>5. \A i \in 1..Len(toB') : toB'[i].type # "error" => Announced(toB'[i].id)
    BY <2>2, <2>4 DEF CursorInv, OnlyAnnounced
  <2> QED  BY <2>1, <2>5 DEF CursorInv, OnlyAnnounced, Announced
<1>5. AcksTrue'
  BY DEF SendError, TypeOK, CursorInv, AcksTrue, Imported, Announced, SendOrder
<1>6. CursorSafe'
  BY DEF SendError, TypeOK, CursorInv, CursorSafe
<1> QED  BY <1>1, <1>2, <1>3, <1>4, <1>5, <1>6 DEF CursorInv

LEMMA HandleStateSyncManifestCursor ==
    ASSUME TypeOK, TypeOK', CursorInv, handleStateSyncManifest
    PROVE  CursorInv'
<1> USE StateSyncAssumption
<1> USE DEF storeVars, sendVars, jobVarsA, exportVars, recvVars, jobVarsB,
            importVars, netVars, Fault
<1>1. Clocks'
  BY DEF handleStateSyncManifest, TypeOK, CursorInv, Clocks
<1>2. SendOrder'
  BY DEF handleStateSyncManifest, TypeOK, CursorInv, SendOrder
<1>3. DeltasCover'
  BY DEF handleStateSyncManifest, TypeOK, CursorInv, DeltasCover, Covers,
     Announced, SendOrder
<1>4. OnlyAnnounced'
  <2>1. /\ Head(toB) = toB[1] /\ 1 \in 1..Len(toB) /\ Head(toB) \in Msg
        /\ \A i \in 1..Len(toB') : toB'[i] = toB[i + 1] /\ i + 1 \in 1..Len(toB)
    <3>1. Receive  BY DEF handleStateSyncManifest
    <3>2. toB \in Seq(Msg)  BY DEF TypeOK
    <3>3. Len(toB) \in Nat  BY <3>2
    <3> QED  BY <3>1, <3>2, <3>3, QueueShape, QueueType
  <2>2. \A i \in 1..Len(toB') : toB'[i].type # "error" => Announced(toB'[i].id)
    BY <2>1 DEF CursorInv, OnlyAnnounced
  <2>3. Head(toB).type # "error" => Announced(Head(toB).id)
    BY <2>1 DEF CursorInv, OnlyAnnounced
  <2>4. UNCHANGED <<next, importing>>  BY DEF handleStateSyncManifest
  <2>5. incoming' # None => Announced(incoming')
    BY <2>3 DEF handleStateSyncManifest, CursorInv, OnlyAnnounced
  <2> QED  BY <2>2, <2>4, <2>5 DEF CursorInv, OnlyAnnounced, Announced
<1>5. AcksTrue'
  BY DEF handleStateSyncManifest, TypeOK, CursorInv, AcksTrue, Imported,
     Announced, SendOrder
<1>6. CursorSafe'
  BY DEF handleStateSyncManifest, TypeOK, CursorInv, CursorSafe
<1> QED  BY <1>1, <1>2, <1>3, <1>4, <1>5, <1>6 DEF CursorInv

LEMMA HandleStateSyncChunkCursor ==
    ASSUME TypeOK, TypeOK', CursorInv, handleStateSyncChunk
    PROVE  CursorInv'
<1> USE StateSyncAssumption
<1> USE DEF storeVars, sendVars, jobVarsA, exportVars, recvVars, jobVarsB,
            importVars, netVars, Fault
<1>1. Clocks'
  BY DEF handleStateSyncChunk, TypeOK, CursorInv, Clocks
<1>2. SendOrder'
  BY DEF handleStateSyncChunk, TypeOK, CursorInv, SendOrder
<1>3. DeltasCover'
  BY DEF handleStateSyncChunk, TypeOK, CursorInv, DeltasCover, Covers,
     Announced, SendOrder
<1>4. OnlyAnnounced'
  <2>1. /\ Head(toB) = toB[1] /\ 1 \in 1..Len(toB) /\ Head(toB) \in Msg
        /\ \A i \in 1..Len(toB') : toB'[i] = toB[i + 1] /\ i + 1 \in 1..Len(toB)
    <3>1. Receive  BY DEF handleStateSyncChunk
    <3>2. toB \in Seq(Msg)  BY DEF TypeOK
    <3>3. Len(toB) \in Nat  BY <3>2
    <3> QED  BY <3>1, <3>2, <3>3, QueueShape, QueueType
  <2>2. \A i \in 1..Len(toB') : toB'[i].type # "error" => Announced(toB'[i].id)
    BY <2>1 DEF CursorInv, OnlyAnnounced
  <2>3. Head(toB).type # "error" => Announced(Head(toB).id)
    BY <2>1 DEF CursorInv, OnlyAnnounced
  <2>4. UNCHANGED <<next, incoming>>  BY DEF handleStateSyncChunk
  <2>5. \A t \in TransferID : importing'[t] # "none" => Announced(t)
    BY <2>3 DEF handleStateSyncChunk, CursorInv, OnlyAnnounced, TypeOK
  <2> QED  BY <2>2, <2>4, <2>5 DEF CursorInv, OnlyAnnounced, Announced
<1>5. AcksTrue'
  BY DEF handleStateSyncChunk, TypeOK, CursorInv, AcksTrue, Imported, Announced,
     SendOrder
<1>6. CursorSafe'
  BY DEF handleStateSyncChunk, TypeOK, CursorInv, CursorSafe
<1> QED  BY <1>1, <1>2, <1>3, <1>4, <1>5, <1>6 DEF CursorInv

LEMMA FinishStateSyncImportCursor ==
    ASSUME TypeOK, TypeOK', CursorInv, NEW t \in TransferID, finishStateSyncImport(t)
    PROVE  CursorInv'
<1> USE StateSyncAssumption
<1> USE DEF storeVars, sendVars, jobVarsA, exportVars, recvVars, jobVarsB,
            importVars, netVars, Fault
<1>1. Clocks'
  BY DEF finishStateSyncImport, ImportStateSyncMessages, failStateSyncImport,
       clearIncomingStateSync, SendAck, TypeOK,
     CursorInv, Clocks
<1>2. SendOrder'
  BY DEF finishStateSyncImport, ImportStateSyncMessages, failStateSyncImport,
       clearIncomingStateSync, SendAck, TypeOK,
     CursorInv, SendOrder
<1>3. DeltasCover'
  BY DEF finishStateSyncImport, ImportStateSyncMessages, failStateSyncImport,
       clearIncomingStateSync, SendAck, TypeOK,
     CursorInv, DeltasCover, Covers, Announced, SendOrder
<1>4. OnlyAnnounced'
  BY DEF finishStateSyncImport, ImportStateSyncMessages, failStateSyncImport,
       clearIncomingStateSync, SendAck, TypeOK,
     CursorInv, OnlyAnnounced, Announced, SendOrder
<1>5. AcksTrue'
  <2>1. UNCHANGED <<next, delta, ackJobs, acking>> /\ have \subseteq have'
    BY DEF finishStateSyncImport, ImportStateSyncMessages, failStateSyncImport
  <2>2. \A u \in TransferID : Imported(u) => Imported(u)'
    BY <2>1 DEF Imported, Announced
  <2>3. Announced(t)  BY DEF finishStateSyncImport, ImportStateSyncMessages,
       failStateSyncImport, CursorInv, OnlyAnnounced
  <2>4. \A u \in TransferID : importing'[u] = "committed" => Imported(u)'
    <3>1. importing'[t] = "committed" => Imported(t)'
      BY <2>1, <2>3 DEF finishStateSyncImport, ImportStateSyncMessages,
           failStateSyncImport, Imported, Announced, TypeOK
    <3>2. \A u \in TransferID : u # t => importing'[u] = importing[u]
      BY DEF finishStateSyncImport, ImportStateSyncMessages, failStateSyncImport,
           TypeOK
    <3> HIDE DEF Imported
    <3> QED  BY <2>2, <3>1, <3>2 DEF CursorInv, AcksTrue
  <2>5. /\ \A a \in ackNet \cup ackJobs : a.id \in TransferID
        /\ acking \subseteq TransferID
    BY DEF TypeOK, Acks
  <2>6. \A a \in ackNet' : a \in ackNet \/ a.error # "none"
    BY DEF finishStateSyncImport, ImportStateSyncMessages, failStateSyncImport,
         SendAck
  <2> HIDE DEF Imported
  <2> QED  BY <2>1, <2>2, <2>4, <2>5, <2>6 DEF CursorInv, AcksTrue
<1>6. CursorSafe'
  BY DEF finishStateSyncImport, ImportStateSyncMessages, failStateSyncImport,
       clearIncomingStateSync, SendAck, TypeOK,
     CursorInv, CursorSafe
<1> QED  BY <1>1, <1>2, <1>3, <1>4, <1>5, <1>6 DEF CursorInv

LEMMA AcknowledgeImportCursor ==
    ASSUME TypeOK, TypeOK', CursorInv, NEW t \in TransferID, AcknowledgeImport(t)
    PROVE  CursorInv'
<1> USE StateSyncAssumption
<1> USE DEF storeVars, sendVars, jobVarsA, exportVars, recvVars, jobVarsB,
            importVars, netVars, Fault
<1>1. Clocks'
  BY DEF AcknowledgeImport, clearIncomingStateSync, SendAck, TypeOK, CursorInv,
     Clocks
<1>2. SendOrder'
  BY DEF AcknowledgeImport, clearIncomingStateSync, SendAck, TypeOK, CursorInv,
     SendOrder
<1>3. DeltasCover'
  BY DEF AcknowledgeImport, clearIncomingStateSync, SendAck, TypeOK, CursorInv,
     DeltasCover, Covers, Announced, SendOrder
<1>4. OnlyAnnounced'
  BY DEF AcknowledgeImport, clearIncomingStateSync, SendAck, TypeOK, CursorInv,
     OnlyAnnounced, Announced, SendOrder
<1>5. AcksTrue'
  BY DEF AcknowledgeImport, clearIncomingStateSync, SendAck, TypeOK, CursorInv,
     AcksTrue, Imported, Announced, SendOrder
<1>6. CursorSafe'
  BY DEF AcknowledgeImport, clearIncomingStateSync, SendAck, TypeOK, CursorInv,
     CursorSafe
<1> QED  BY <1>1, <1>2, <1>3, <1>4, <1>5, <1>6 DEF CursorInv

LEMMA DeliverAckCursor ==
    ASSUME TypeOK, TypeOK', CursorInv, NEW a \in Acks, DeliverAck(a)
    PROVE  CursorInv'
<1> USE StateSyncAssumption
<1> USE DEF storeVars, sendVars, jobVarsA, exportVars, recvVars, jobVarsB,
            importVars, netVars, Fault
<1>1. Clocks'
  BY DEF DeliverAck, TypeOK, CursorInv, Clocks
<1>2. SendOrder'
  BY DEF DeliverAck, TypeOK, CursorInv, SendOrder
<1>3. DeltasCover'
  BY DEF DeliverAck, TypeOK, CursorInv, DeltasCover, Covers, Announced,
     SendOrder
<1>4. OnlyAnnounced'
  BY DEF DeliverAck, TypeOK, CursorInv, OnlyAnnounced, Announced, SendOrder
<1>5. AcksTrue'
  BY DEF DeliverAck, TypeOK, CursorInv, AcksTrue, Imported, Announced, SendOrder
<1>6. CursorSafe'
  BY DEF DeliverAck, TypeOK, CursorInv, CursorSafe
<1> QED  BY <1>1, <1>2, <1>3, <1>4, <1>5, <1>6 DEF CursorInv

LEMMA HandleStateSyncAckCursor ==
    ASSUME TypeOK, TypeOK', CursorInv, NEW a \in Acks, handleStateSyncAck(a)
    PROVE  CursorInv'
<1> USE StateSyncAssumption
<1> USE DEF storeVars, sendVars, jobVarsA, exportVars, recvVars, jobVarsB,
            importVars, netVars, Fault
<1>1. Clocks'
  BY DEF handleStateSyncAck, TypeOK, CursorInv, Clocks
<1>2. SendOrder'
  BY DEF handleStateSyncAck, TypeOK, CursorInv, SendOrder
<1>3. DeltasCover'
  BY DEF handleStateSyncAck, TypeOK, CursorInv, DeltasCover, Covers, Announced,
     SendOrder
<1>4. OnlyAnnounced'
  BY DEF handleStateSyncAck, TypeOK, CursorInv, OnlyAnnounced, Announced,
     SendOrder
<1>5. AcksTrue'
  BY DEF handleStateSyncAck, TypeOK, CursorInv, AcksTrue, Imported, Announced,
     SendOrder
<1>6. CursorSafe'
  BY DEF handleStateSyncAck, TypeOK, CursorInv, CursorSafe
<1> QED  BY <1>1, <1>2, <1>3, <1>4, <1>5, <1>6 DEF CursorInv

LEMMA SetLastStateCheckCursor ==
    ASSUME TypeOK, TypeOK', CursorInv, NEW t \in TransferID, SetLastStateCheck(t)
    PROVE  CursorInv'
<1> USE StateSyncAssumption
<1> USE DEF storeVars, sendVars, jobVarsA, exportVars, recvVars, jobVarsB,
            importVars, netVars, Fault
<1>1. Clocks'
  BY DEF SetLastStateCheck, LastCheck, TypeOK, CursorInv, Clocks
<1>2. SendOrder'
  BY DEF SetLastStateCheck, LastCheck, TypeOK, CursorInv, SendOrder
<1>3. DeltasCover'
  BY DEF SetLastStateCheck, LastCheck, TypeOK, CursorInv, DeltasCover, Covers,
     Announced, SendOrder
<1>4. OnlyAnnounced'
  BY DEF SetLastStateCheck, LastCheck, TypeOK, CursorInv, OnlyAnnounced,
     Announced, SendOrder
<1>5. AcksTrue'
  BY DEF SetLastStateCheck, LastCheck, TypeOK, CursorInv, AcksTrue, Imported,
     Announced, SendOrder
<1>6. CursorSafe'
  <2>1. t \in TransferID /\ Imported(t) /\ Covers(t)
    BY DEF SetLastStateCheck, CursorInv, AcksTrue, DeltasCover, Imported
  <2>2. cursor' = check[t] \/ cursor' = cursor
    BY DEF SetLastStateCheck, LastCheck
  <2>3. CASE cursor' = check[t]
    BY <2>1, <2>3 DEF SetLastStateCheck, Imported, Covers, CursorSafe
  <2>4. CASE cursor' = cursor
    BY <2>4 DEF SetLastStateCheck, CursorInv, CursorSafe
  <2> QED  BY <2>2, <2>3, <2>4
<1> QED  BY <1>1, <1>2, <1>3, <1>4, <1>5, <1>6 DEF CursorInv

LEMMA BreakCursor ==
    ASSUME TypeOK, TypeOK', CursorInv, Break
    PROVE  CursorInv'
<1> USE StateSyncAssumption
<1> USE DEF storeVars, sendVars, jobVarsA, exportVars, recvVars, jobVarsB,
            importVars, netVars, Fault
<1>1. Clocks'
  BY DEF Break, ChannelLost, TypeOK, CursorInv, Clocks
<1>2. SendOrder'
  BY DEF Break, ChannelLost, TypeOK, CursorInv, SendOrder
<1>3. DeltasCover'
  BY DEF Break, ChannelLost, TypeOK, CursorInv, DeltasCover, Covers, Announced,
     SendOrder
<1>4. OnlyAnnounced'
  BY DEF Break, ChannelLost, TypeOK, CursorInv, OnlyAnnounced, Announced,
     SendOrder
<1>5. AcksTrue'
  BY DEF Break, ChannelLost, TypeOK, CursorInv, AcksTrue, Imported, Announced,
     SendOrder
<1>6. CursorSafe'
  BY DEF Break, ChannelLost, TypeOK, CursorInv, CursorSafe
<1> QED  BY <1>1, <1>2, <1>3, <1>4, <1>5, <1>6 DEF CursorInv

LEMMA ClearIncomingCursor ==
    ASSUME TypeOK, TypeOK', CursorInv, ClearIncoming
    PROVE  CursorInv'
<1> USE StateSyncAssumption
<1> USE DEF storeVars, sendVars, jobVarsA, exportVars, recvVars, jobVarsB,
            importVars, netVars, Fault
<1>1. Clocks'
  BY DEF ClearIncoming, TypeOK, CursorInv, Clocks
<1>2. SendOrder'
  BY DEF ClearIncoming, TypeOK, CursorInv, SendOrder
<1>3. DeltasCover'
  BY DEF ClearIncoming, TypeOK, CursorInv, DeltasCover, Covers, Announced,
     SendOrder
<1>4. OnlyAnnounced'
  BY DEF ClearIncoming, TypeOK, CursorInv, OnlyAnnounced, Announced, SendOrder
<1>5. AcksTrue'
  BY DEF ClearIncoming, TypeOK, CursorInv, AcksTrue, Imported, Announced,
     SendOrder
<1>6. CursorSafe'
  BY DEF ClearIncoming, TypeOK, CursorInv, CursorSafe
<1> QED  BY <1>1, <1>2, <1>3, <1>4, <1>5, <1>6 DEF CursorInv

LEMMA CrashACursor ==
    ASSUME TypeOK, TypeOK', CursorInv, CrashA
    PROVE  CursorInv'
<1> USE StateSyncAssumption
<1> USE DEF storeVars, sendVars, jobVarsA, exportVars, recvVars, jobVarsB,
            importVars, netVars, Fault
<1>1. Clocks'
  BY DEF CrashA, ChannelLost, TypeOK, CursorInv, Clocks
<1>2. SendOrder'
  BY DEF CrashA, ChannelLost, TypeOK, CursorInv, SendOrder
<1>3. DeltasCover'
  BY DEF CrashA, ChannelLost, TypeOK, CursorInv, DeltasCover, Covers, Announced,
     SendOrder
<1>4. OnlyAnnounced'
  BY DEF CrashA, ChannelLost, TypeOK, CursorInv, OnlyAnnounced, Announced,
     SendOrder
<1>5. AcksTrue'
  BY DEF CrashA, ChannelLost, TypeOK, CursorInv, AcksTrue, Imported, Announced,
     SendOrder
<1>6. CursorSafe'
  BY DEF CrashA, ChannelLost, TypeOK, CursorInv, CursorSafe
<1> QED  BY <1>1, <1>2, <1>3, <1>4, <1>5, <1>6 DEF CursorInv

LEMMA CrashBCursor ==
    ASSUME TypeOK, TypeOK', CursorInv, CrashB
    PROVE  CursorInv'
<1> USE StateSyncAssumption
<1> USE DEF storeVars, sendVars, jobVarsA, exportVars, recvVars, jobVarsB,
            importVars, netVars, Fault
<1>1. Clocks'
  BY DEF CrashB, ChannelLost, TypeOK, CursorInv, Clocks
<1>2. SendOrder'
  BY DEF CrashB, ChannelLost, TypeOK, CursorInv, SendOrder
<1>3. DeltasCover'
  BY DEF CrashB, ChannelLost, TypeOK, CursorInv, DeltasCover, Covers, Announced,
     SendOrder
<1>4. OnlyAnnounced'
  BY DEF CrashB, ChannelLost, TypeOK, CursorInv, OnlyAnnounced, Announced,
     SendOrder
<1>5. AcksTrue'
  BY DEF CrashB, ChannelLost, TypeOK, CursorInv, AcksTrue, Imported, Announced,
     SendOrder
<1>6. CursorSafe'
  BY DEF CrashB, ChannelLost, TypeOK, CursorInv, CursorSafe
<1> QED  BY <1>1, <1>2, <1>3, <1>4, <1>5, <1>6 DEF CursorInv

-----------------------------------------------------------------------------
(* What a lost channel leaves behind.                                      *)

LEMMA DownStep ==
    ASSUME TypeOK, TypeOK', DownClean, [Next]_vars PROVE DownClean'
<1> USE StateSyncAssumption
<1> USE DEF storeVars, sendVars, jobVarsA, exportVars, recvVars, jobVarsB,
            importVars, netVars, Fault, Connected
<1>1. CASE UNCHANGED vars  BY <1>1 DEF vars, DownClean
<1>2. CASE Tick
  BY <1>2 DEF Tick, TypeOK, DownClean
<1>3. ASSUME NEW m \in Message, SaveMessage(m) PROVE DownClean'
  BY <1>3 DEF SaveMessage, TypeOK, DownClean
<1>4. ASSUME NEW m \in Message, SaveMessageAtImporter(m) PROVE DownClean'
  BY <1>4 DEF SaveMessageAtImporter, TypeOK, DownClean
<1>5. ASSUME NEW M \in SUBSET Message, ImportReplicationSnapshot(M) PROVE DownClean'
  BY <1>5 DEF ImportReplicationSnapshot, TypeOK, DownClean
<1>6. CASE handlePeerConnected
  <2>1. CASE Ask
    BY <1>6, <2>1 DEF handlePeerConnected, Ask, TypeOK, DownClean
  <2>2. CASE UNCHANGED <<known, recvVars, asking>>
    BY <1>6, <2>2 DEF handlePeerConnected, TypeOK, DownClean
  <2> QED  BY <1>6, <2>1, <2>2 DEF handlePeerConnected
<1>7. CASE refreshReplicaConnections
  BY <1>7 DEF refreshReplicaConnections, Ask, TypeOK, DownClean
<1>8. CASE SendStateSyncRequest
  BY <1>8 DEF SendStateSyncRequest, TypeOK, DownClean
<1>9. CASE DeliverRequest
  BY <1>9 DEF DeliverRequest, TypeOK, DownClean
<1>10. CASE handleStateSyncRequest
  BY <1>10 DEF handleStateSyncRequest, TypeOK, DownClean
<1>11. ASSUME NEW t \in TransferID, sendStateSync(t) PROVE DownClean'
  BY <1>11 DEF sendStateSync, ExportMessagesForStateSync, TypeOK, DownClean
<1>12. ASSUME NEW t \in TransferID, SendNext(t) PROVE DownClean'
  BY <1>12 DEF SendNext, ClearTransfer, LastPart, TypeOK, DownClean, SendToB
<1>13. ASSUME NEW t \in TransferID, SendError(t) PROVE DownClean'
  BY <1>13 DEF SendError, TypeOK, DownClean, SendToB
<1>14. CASE handleStateSyncManifest
  <2>1. toB # <<>> /\ UNCHANGED link  BY <1>14 DEF handleStateSyncManifest, Receive
  <2>2. Connected  BY <2>1 DEF DownClean
  <2> QED  BY <2>1, <2>2 DEF DownClean
<1>15. CASE handleStateSyncChunk
  <2>1. toB # <<>> /\ UNCHANGED link  BY <1>15 DEF handleStateSyncChunk, Receive
  <2>2. Connected  BY <2>1 DEF DownClean
  <2> QED  BY <2>1, <2>2 DEF DownClean
<1>16. ASSUME NEW t \in TransferID, finishStateSyncImport(t) PROVE DownClean'
  BY <1>16 DEF finishStateSyncImport, ImportStateSyncMessages, failStateSyncImport,
       clearIncomingStateSync, SendAck, TypeOK,
     DownClean
<1>17. ASSUME NEW t \in TransferID, AcknowledgeImport(t) PROVE DownClean'
  BY <1>17 DEF AcknowledgeImport, clearIncomingStateSync, SendAck, TypeOK,
     DownClean
<1>18. ASSUME NEW a \in Acks, DeliverAck(a) PROVE DownClean'
  BY <1>18 DEF DeliverAck, TypeOK, DownClean
<1>19. ASSUME NEW a \in Acks, handleStateSyncAck(a) PROVE DownClean'
  BY <1>19 DEF handleStateSyncAck, TypeOK, DownClean
<1>20. ASSUME NEW t \in TransferID, SetLastStateCheck(t) PROVE DownClean'
  BY <1>20 DEF SetLastStateCheck, LastCheck, ClearTransfer, TypeOK, DownClean
<1>21. CASE Open
  BY <1>21 DEF Open, TypeOK, DownClean
<1>22. CASE Break
  BY <1>22 DEF Break, ChannelLost, TypeOK, DownClean
<1>23. CASE handlePeerDisconnectedA
  BY <1>23 DEF handlePeerDisconnectedA, TypeOK, DownClean
<1>24. CASE ClearOutgoing
  BY <1>24 DEF ClearOutgoing, TypeOK, DownClean
<1>25. CASE handlePeerDisconnectedB
  BY <1>25 DEF handlePeerDisconnectedB, TypeOK, DownClean
<1>26. CASE ClearIncoming
  BY <1>26 DEF ClearIncoming, TypeOK, DownClean
<1>27. CASE CrashA
  BY <1>27 DEF CrashA, ChannelLost, TypeOK, DownClean
<1>28. CASE CrashB
  BY <1>28 DEF CrashB, ChannelLost, TypeOK, DownClean
<1> QED
  BY <1>1, <1>2, <1>3, <1>4, <1>5, <1>6, <1>7, <1>8, <1>9, <1>10, <1>11, <1>12,
     <1>13, <1>14, <1>15, <1>16, <1>17, <1>18, <1>19, <1>20, <1>21, <1>22,
     <1>23, <1>24, <1>25, <1>26, <1>27, <1>28 DEF Next, Export, Import

LEMMA IInvInit == Init => IInv
<1>1. Init => DownClean  BY DEF Init, DownClean
<1> QED  BY <1>1, TypeInit, CursorInit DEF IInv, CursorInv

LEMMA CursorStep ==
    ASSUME TypeOK, TypeOK', CursorInv, [Next]_vars PROVE CursorInv'
<1>1. CASE UNCHANGED cursorVars  BY <1>1, CursorFrame
<1>2. \/ UNCHANGED vars
      \/ handlePeerConnected \/ refreshReplicaConnections
      \/ SendStateSyncRequest \/ DeliverRequest \/ Open
      \/ handlePeerDisconnectedA \/ ClearOutgoing \/ handlePeerDisconnectedB
      => UNCHANGED cursorVars
  BY DEF handlePeerConnected, refreshReplicaConnections, Ask,
         SendStateSyncRequest, DeliverRequest, Open, handlePeerDisconnectedA,
         ClearOutgoing, handlePeerDisconnectedB, cursorVars, vars, storeVars,
         sendVars, jobVarsA, exportVars, recvVars, jobVarsB, importVars, netVars
<1> QED
  BY <1>1, <1>2, TickCursor, SaveMessageCursor, SaveMessageAtImporterCursor,
     ImportReplicationSnapshotCursor, HandleStateSyncRequestCursor,
     SendStateSyncCursor, SendNextCursor, SendErrorCursor,
     HandleStateSyncManifestCursor, HandleStateSyncChunkCursor,
     FinishStateSyncImportCursor, AcknowledgeImportCursor, DeliverAckCursor,
     HandleStateSyncAckCursor, SetLastStateCheckCursor, BreakCursor,
     ClearIncomingCursor, CrashACursor, CrashBCursor
  DEF Next, Export, Import

LEMMA IInvStep == IInv /\ [Next]_vars => IInv'
<1> SUFFICES ASSUME IInv, [Next]_vars PROVE IInv'  OBVIOUS
<1>1. TypeOK /\ CursorInv /\ DownClean  BY DEF IInv, CursorInv
<1>2. TypeOK'  BY <1>1, TypeStep DEF IInv
<1>3. CursorInv'  BY <1>1, <1>2, CursorStep
<1>4. DownClean'  BY <1>1, <1>2, DownStep
<1> QED  BY <1>2, <1>3, <1>4 DEF IInv, CursorInv

-----------------------------------------------------------------------------
(* The theorems.                                                           *)

\* The inductive invariant holds in every state of every behaviour.
THEOREM Invariance == Spec => []IInv
BY IInvInit, IInvStep, PTL DEF Spec

\* Every variable keeps its type.
THEOREM TypeCorrect == Spec => []TypeOK
<1>1. IInv => TypeOK  BY DEF IInv
<1> QED  BY <1>1, Invariance, PTL

\* A message older than the exporter's last_state_check is in the importer's
\* history, for every interleaving of transfers, disconnects, restarts and
\* failed imports.
THEOREM CursorHidesNothing == Spec => []CursorSafe
<1>1. IInv => CursorSafe  BY DEF IInv
<1> QED  BY <1>1, Invariance, PTL

\* After the last disconnect job nothing is kept for the peer.
THEOREM DisconnectCleans == Spec => []CleanWhenDown
<1>1. IInv => CleanWhenDown
  <2> SUFFICES ASSUME IInv, ~Connected, Quiet
               PROVE  requested = "no" /\ incoming = None /\ outgoing = None
    BY DEF CleanWhenDown
  <2>1. requested # "yes" /\ incoming = None
    BY DEF IInv, DownClean, Quiet
  <2>2. requested = "no"  BY <2>1 DEF IInv, TypeOK
  <2>3. outgoing = None
    <3>1. outgoing # None => outgoing \in TransferID  BY DEF IInv, TypeOK
    <3>2. outgoing # None => step[outgoing] = "exported"
      BY DEF IInv, DownClean, Quiet
    <3> QED  BY <3>1, <3>2 DEF Quiet
  <2> QED  BY <2>1, <2>2, <2>3
<1> QED  BY <1>1, Invariance, PTL

=============================================================================
