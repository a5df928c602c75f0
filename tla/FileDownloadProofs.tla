------------------------- MODULE FileDownloadProofs -------------------------
(***************************************************************************)
(* Safety of FileDownload for every set of files and names, every number   *)
(* of chunks, every lifetime of a download and every number of failures    *)
(* and restarts.                                                           *)
(***************************************************************************)
EXTENDS FileDownload, TLAPS

\* A row is either completed, or stopped or cancelled.
OneOutcome == completed \cap (stopped \cup cancelled) = {}

\* What a worker has read from the row of its file still holds when it decides by
\* it, but that the user may have cancelled the download since.
WorkerKnows ==
    \A f \in File :
        /\ pc[f] = "decide" /\ seen[f] = "completed" => f \in completed
        /\ pc[f] = "decide" /\ seen[f] \in {"active", "stopped"} => f \notin completed
        /\ pc[f] = "decide" /\ seen[f] = "active" /\ f \in stopped => f \in cancelled
        /\ pc[f] \in {"candidate", "begin"} => f \notin completed
        /\ pc[f] = "candidate" /\ seen[f] # "stopped" /\ f \in stopped => f \in cancelled
        /\ pc[f] = "begin" /\ f \in stopped => f \in cancelled
        /\ pc[f] = "ready" => f \in completed

\* An entry of downloadContexts is that of a download under way, until its worker
\* has finished and is about to remove it.
ContextsLive == \A f \in ctx : pc[f] \notin {"end", "ready"} => f \notin Settled

IInv ==
    /\ TypeOK
    /\ OneOutcome
    /\ WorkerKnows
    /\ ContextsLive

-----------------------------------------------------------------------------
(* Type correctness.                                                       *)

LEMMA TypeInit == Init => TypeOK
BY FileDownloadAssumption DEF Init, TypeOK, Index

Label == {"free", "track", "decide", "candidate", "end", "begin", "list", "request",
          "write", "publish", "mark", "ready"}

\* Every step leaves the bounds natural numbers and moves workers between labels.
LEMMA BoundsStep == TypeOK /\ [Next]_vars => faults' \in Nat /\ errors' \in Nat
<1> SUFFICES ASSUME TypeOK, [Next]_vars PROVE faults' \in Nat /\ errors' \in Nat
  OBVIOUS
<1> DEFINE Moved == Fault \/ Error \/ UNCHANGED boundVars
<1>1. ASSUME NEW f \in File,
           processReceivedFile(f) \/ SaveMessage(f) \/ ImportMessage(f)
     PROVE Moved
  BY <1>1 DEF processReceivedFile, SaveMessage, ImportMessage
<1>2. ASSUME NEW f \in File,
           RunJob(f) \/ checkPendingFileDownloads(f)
     PROVE Moved
  BY <1>2 DEF RunJob, checkPendingFileDownloads
<1>3. ASSUME NEW f \in File,
           TrackFileDownload(f) \/ prepareFileDownload(f) \/ CheckCandidate(f)
     PROVE Moved
  BY <1>3 DEF TrackFileDownload, prepareFileDownload, CheckCandidate
<1>4. ASSUME NEW f \in File,
           endFileDownload(f) \/ beginFileDownload(f) \/ MarkFileDownloadStopped(f)
     PROVE Moved
  BY <1>4 DEF endFileDownload, beginFileDownload, MarkFileDownloadStopped
<1>5. ASSUME NEW f \in File,
           AwaitChunks(f) \/ RequestNext(f) \/ AssembleFile(f) \/ WriteTemp(f)
     PROVE Moved
  BY <1>5 DEF AwaitChunks, RequestNext, AssembleFile, WriteTemp
<1>6. ASSUME NEW f \in File,
           Rename(f) \/ CompleteRow(f) \/ FileReady(f)
     PROVE Moved
  BY <1>6 DEF Rename, CompleteRow, FileReady
<1>7. ASSUME NEW f \in File,
           CancelFileDownload(f) \/ DeleteExpiredChunks(f) \/ \E i \in Index : ChunkData(f, i)
     PROVE Moved
  BY <1>7 DEF CancelFileDownload, DeleteExpiredChunks, ChunkData
<1>8. ASSUME NEW n \in Name, RemoveFile(n) PROVE Moved
  BY <1>8 DEF RemoveFile
<1>9. ASSUME resumeFileDownloads \/ Crash \/ Tick PROVE Moved
  BY <1>9 DEF resumeFileDownloads, Crash, Tick
<1>10. ASSUME UNCHANGED vars PROVE Moved
  BY <1>10 DEF vars
<1>11. Moved
  <2> HIDE DEF Moved
  <2> QED
    BY <1>1, <1>2, <1>3, <1>4, <1>5, <1>6, <1>7, <1>8, <1>9, <1>10 DEF Next, Work
<1> QED  BY <1>11 DEF Fault, Error, boundVars, TypeOK

LEMMA LabelStep == TypeOK /\ [Next]_vars => pc' \in [File -> Label]
<1> SUFFICES ASSUME TypeOK, [Next]_vars PROVE pc' \in [File -> Label]
  OBVIOUS
<1>a. pc \in [File -> Label]  BY DEF TypeOK, Label
<1> USE DEF Label, Go, Start, workVars
<1> DEFINE Moved == \/ \E f \in File, l \in Label : pc' = [pc EXCEPT ![f] = l]
                    \/ pc' = [f \in File |-> "free"]
                    \/ UNCHANGED pc
<1>1. ASSUME NEW f \in File,
           processReceivedFile(f) \/ SaveMessage(f) \/ ImportMessage(f)
     PROVE Moved
  BY <1>1, <1>a DEF processReceivedFile, SaveMessage, ImportMessage
<1>2. ASSUME NEW f \in File,
           RunJob(f) \/ checkPendingFileDownloads(f)
     PROVE Moved
  BY <1>2, <1>a DEF RunJob, checkPendingFileDownloads
<1>3. ASSUME NEW f \in File,
           TrackFileDownload(f) \/ prepareFileDownload(f) \/ CheckCandidate(f)
     PROVE Moved
  BY <1>3 DEF TrackFileDownload, prepareFileDownload, CheckCandidate
<1>4. ASSUME NEW f \in File,
           endFileDownload(f) \/ beginFileDownload(f) \/ MarkFileDownloadStopped(f)
     PROVE Moved
  BY <1>4 DEF endFileDownload, beginFileDownload, MarkFileDownloadStopped
<1>5. ASSUME NEW f \in File,
           AwaitChunks(f) \/ RequestNext(f) \/ AssembleFile(f) \/ WriteTemp(f)
     PROVE Moved
  BY <1>5 DEF AwaitChunks, RequestNext, AssembleFile, WriteTemp
<1>6. ASSUME NEW f \in File,
           Rename(f) \/ CompleteRow(f) \/ FileReady(f)
     PROVE Moved
  BY <1>6 DEF Rename, CompleteRow, FileReady
<1>7. ASSUME NEW f \in File,
           CancelFileDownload(f) \/ DeleteExpiredChunks(f) \/ \E i \in Index : ChunkData(f, i)
     PROVE Moved
  BY <1>7 DEF CancelFileDownload, DeleteExpiredChunks, ChunkData
<1>8. ASSUME NEW n \in Name, RemoveFile(n) PROVE Moved
  BY <1>8 DEF RemoveFile
<1>9. ASSUME resumeFileDownloads \/ Crash \/ Tick PROVE Moved
  BY <1>9 DEF resumeFileDownloads, Crash, Tick
<1>10. ASSUME UNCHANGED vars PROVE Moved
  BY <1>10 DEF vars
<1>11. Moved
  <2> HIDE DEF Moved
  <2> QED
    BY <1>1, <1>2, <1>3, <1>4, <1>5, <1>6, <1>7, <1>8, <1>9, <1>10 DEF Next, Work
<1> QED  BY <1>11, <1>a

LEMMA TypeStep == TypeOK /\ [Next]_vars => TypeOK'
<1> SUFFICES ASSUME TypeOK, [Next]_vars PROVE TypeOK'  OBVIOUS
<1>a. faults' \in Nat /\ errors' \in Nat  BY BoundsStep
<1>b. pc' \in [File -> Label]  BY LabelStep
<1> USE FileDownloadAssumption DEF TypeOK, Label, rowVars, workVars, queueVars
<1>1. ASSUME NEW f \in File, processReceivedFile(f) PROVE TypeOK'
  BY <1>a, <1>b, <1>1 DEF processReceivedFile
<1>2. ASSUME NEW f \in File, SaveMessage(f) PROVE TypeOK'
  BY <1>a, <1>b, <1>2 DEF SaveMessage
<1>3. ASSUME NEW f \in File, ImportMessage(f) PROVE TypeOK'
  BY <1>a, <1>b, <1>3 DEF ImportMessage, queueFileDownloads
<1>4. ASSUME NEW f \in File, RunJob(f) PROVE TypeOK'
  BY <1>a, <1>b, <1>4 DEF RunJob
<1>5. ASSUME NEW f \in File, checkPendingFileDownloads(f) PROVE TypeOK'
  BY <1>a, <1>b, <1>5 DEF checkPendingFileDownloads
<1>6. ASSUME NEW f \in File, TrackFileDownload(f) PROVE TypeOK'
  <2>1. Deadline(f) \in Nat /\ Status(f) \in {"active", "stopped", "completed", "cancelled"}
    BY DEF Deadline, Status
  <2>2. expires' \in [File -> Nat]  BY <1>6, <2>1 DEF TrackFileDownload
  <2>3. seen' \in [File -> {"active", "stopped", "completed", "cancelled"}]
    BY <1>6, <2>1 DEF TrackFileDownload
  <2> QED  BY <1>a, <1>b, <1>6, <2>2, <2>3 DEF TrackFileDownload
<1>7. ASSUME NEW f \in File, prepareFileDownload(f) PROVE TypeOK'
  <2>1. completed' \subseteq File  BY <1>7 DEF prepareFileDownload
  <2>2. pending' \subseteq File
    BY <1>7 DEF prepareFileDownload, removePendingFileDownload
  <2>3. ready' \in [File -> Nat]  BY <1>7 DEF prepareFileDownload, notifyFileReady
  <2> QED  BY <1>a, <1>b, <1>7, <2>1, <2>2, <2>3 DEF prepareFileDownload
<1>8. ASSUME NEW f \in File, CheckCandidate(f) PROVE TypeOK'
  <2>1. completed' \subseteq File /\ stopped' \subseteq File
    BY <1>8 DEF CheckCandidate, MarkFileDownloadCompleted
  <2>2. pending' \subseteq File
    BY <1>8 DEF CheckCandidate, removePendingFileDownload
  <2>3. ready' \in [File -> Nat]  BY <1>8 DEF CheckCandidate, notifyFileReady
  <2> QED  BY <1>a, <1>b, <1>8, <2>1, <2>2, <2>3 DEF CheckCandidate
<1>9. ASSUME NEW f \in File, endFileDownload(f) PROVE TypeOK'
  BY <1>a, <1>b, <1>9 DEF endFileDownload
<1>10. ASSUME NEW f \in File, beginFileDownload(f) PROVE TypeOK'
  BY <1>a, <1>b, <1>10 DEF beginFileDownload
<1>11. ASSUME NEW f \in File, MarkFileDownloadStopped(f) PROVE TypeOK'
  BY <1>a, <1>b, <1>11 DEF MarkFileDownloadStopped, removePendingFileDownload
<1>12. ASSUME NEW f \in File, AwaitChunks(f) PROVE TypeOK'
  <2>1. need' \in [File -> SUBSET Index] /\ pending' \subseteq File
    BY <1>12 DEF AwaitChunks, Missing
  <2> QED  BY <1>a, <1>b, <1>12, <2>1 DEF AwaitChunks
<1>13. ASSUME NEW f \in File, RequestNext(f) PROVE TypeOK'
  <2>1. need' \in [File -> SUBSET Index] /\ asked' \subseteq File \X Index
    <3>1. CASE \E i \in need[f] : /\ asked' = asked \cup {<<f, i>>}
                                 /\ need' = [need EXCEPT ![f] = @ \ {i}]
      BY <3>1
    <3>2. CASE UNCHANGED asked /\ need' = [need EXCEPT ![f] = {}]  BY <3>2
    <3> QED  BY <1>13, <3>1, <3>2 DEF RequestNext
  <2> QED  BY <1>a, <1>b, <1>13, <2>1 DEF RequestNext
<1>14. ASSUME NEW f \in File, AssembleFile(f) \/ WriteTemp(f) PROVE TypeOK'
  BY <1>a, <1>b, <1>14 DEF AssembleFile, WriteTemp
<1>15. ASSUME NEW f \in File, Rename(f) PROVE TypeOK'
  BY <1>a, <1>b, <1>15 DEF Rename
<1>16. ASSUME NEW f \in File, CompleteRow(f) PROVE TypeOK'
  BY <1>a, <1>b, <1>16 DEF CompleteRow, MarkFileDownloadCompleted
<1>17. ASSUME NEW f \in File, FileReady(f) PROVE TypeOK'
  BY <1>a, <1>b, <1>17 DEF FileReady, removePendingFileDownload, notifyFileReady
<1>18. ASSUME NEW f \in File, CancelFileDownload(f) PROVE TypeOK'
  BY <1>a, <1>b, <1>18 DEF CancelFileDownload, removePendingFileDownload
<1>19. ASSUME NEW f \in File, NEW i \in Index, ChunkData(f, i) PROVE TypeOK'
  <2>1. local' \in [File -> [Index -> {"none", "good", "bad"}]]
    <3>1. CASE UNCHANGED local  BY <3>1
    <3>2. CASE \E b \in Answers : local' = [local EXCEPT ![f][i] = b]
      BY <3>2
    <3> QED  BY <1>19, <3>1, <3>2 DEF ChunkData
  <2> QED  BY <1>a, <1>b, <1>19, <2>1 DEF ChunkData
<1>20. ASSUME NEW f \in File, DeleteExpiredChunks(f) PROVE TypeOK'
  BY <1>a, <1>b, <1>20 DEF DeleteExpiredChunks
<1>21. ASSUME NEW n \in Name, RemoveFile(n) PROVE TypeOK'
  BY <1>a, <1>b, <1>21 DEF RemoveFile
<1>22. CASE resumeFileDownloads
  BY <1>a, <1>b, <1>22 DEF resumeFileDownloads, queueFileDownloads
<1>23. CASE Crash
  BY <1>a, <1>b, <1>23 DEF Crash
<1>24. CASE Tick
  BY <1>a, <1>b, <1>24 DEF Tick
<1>25. CASE UNCHANGED vars
  BY <1>a, <1>b, <1>25 DEF vars
<1> QED
  BY <1>1, <1>2, <1>3, <1>4, <1>5, <1>6, <1>7, <1>8, <1>9, <1>10, <1>11, <1>12,
     <1>13, <1>14, <1>15, <1>16, <1>17, <1>18, <1>19, <1>20, <1>21, <1>22, <1>23,
     <1>24, <1>25 DEF Next, Work

-----------------------------------------------------------------------------
(* Rows, workers and contexts.                                             *)

Rows == OneOutcome /\ WorkerKnows /\ ContextsLive

LEMMA RowsInit == Init => Rows
BY DEF Init, Rows, OneOutcome, WorkerKnows, ContextsLive

LEMMA RowsStep == TypeOK /\ Rows /\ [Next]_vars => Rows'
<1> SUFFICES ASSUME TypeOK, Rows, [Next]_vars PROVE Rows'  OBVIOUS
<1> USE DEF TypeOK, Rows, OneOutcome, WorkerKnows, ContextsLive, Settled, rowVars, workVars,
            queueVars, boundVars, Go
<1>1. ASSUME NEW f \in File,
             processReceivedFile(f) \/ RunJob(f) \/ checkPendingFileDownloads(f)
      PROVE  Rows'
  BY <1>1 DEF processReceivedFile, RunJob, checkPendingFileDownloads, Start
<1>2. ASSUME NEW f \in File, TrackFileDownload(f) PROVE Rows'
  <2>1. /\ Status(f) = "completed" => f \in completed
        /\ Status(f) \in {"active", "stopped"} => f \notin completed
        /\ Status(f) = "active" => f \notin stopped
    BY DEF Status
  <2>2. CASE pc' = [pc EXCEPT ![f] = "decide"] /\ seen' = [seen EXCEPT ![f] = Status(f)]
    BY <1>2, <2>1, <2>2 DEF TrackFileDownload
  <2>3. CASE pc' = [pc EXCEPT ![f] = "end"] /\ UNCHANGED seen
    BY <1>2, <2>3 DEF TrackFileDownload
  <2> QED  BY <1>2, <2>2, <2>3 DEF TrackFileDownload
<1>3. ASSUME NEW f \in File, prepareFileDownload(f) PROVE Rows'
  BY <1>3 DEF prepareFileDownload
<1>4. ASSUME NEW f \in File, CheckCandidate(f) PROVE Rows'
  BY <1>4 DEF CheckCandidate, MarkFileDownloadCompleted, Completable
<1>5. ASSUME NEW f \in File, endFileDownload(f) \/ beginFileDownload(f) PROVE Rows'
  BY <1>5 DEF endFileDownload, beginFileDownload
<1>6. ASSUME NEW f \in File, MarkFileDownloadStopped(f) PROVE Rows'
  BY <1>6 DEF MarkFileDownloadStopped
<1>7. ASSUME NEW f \in File,
             AwaitChunks(f) \/ RequestNext(f) \/ AssembleFile(f) \/ WriteTemp(f) \/ Rename(f)
      PROVE  Rows'
  <2>1. UNCHANGED <<completed, stopped, cancelled, seen, ctx>>
    BY <1>7 DEF AwaitChunks, RequestNext, AssembleFile, WriteTemp, Rename
  <2>2. /\ pc[f] \notin {"end", "ready"}
        /\ \E l \in {"free", "request", "write", "publish", "mark"} :
             pc' \in {pc, [pc EXCEPT ![f] = l]}
    BY <1>7 DEF AwaitChunks, RequestNext, AssembleFile, WriteTemp, Rename
  <2> QED  BY <2>1, <2>2
<1>8. ASSUME NEW f \in File, CompleteRow(f) PROVE Rows'
  BY <1>8 DEF CompleteRow, MarkFileDownloadCompleted, Completable
<1>9. ASSUME NEW f \in File, FileReady(f) PROVE Rows'
  BY <1>9 DEF FileReady
<1>10. ASSUME NEW f \in File, CancelFileDownload(f) PROVE Rows'
  BY <1>10 DEF CancelFileDownload
<1>11. CASE Crash  BY <1>11 DEF Crash
<1>12. CASE UNCHANGED <<completed, stopped, cancelled, pc, seen, ctx>>
  BY <1>12
<1> QED
  BY <1>1, <1>2, <1>3, <1>4, <1>5, <1>6, <1>7, <1>8, <1>9, <1>10, <1>11, <1>12
  DEF Next, Work, vars, SaveMessage, ImportMessage, ChunkData, DeleteExpiredChunks,
      RemoveFile, resumeFileDownloads, Tick

LEMMA Inductive == Spec => []IInv
<1>1. Init => IInv  BY TypeInit, RowsInit DEF IInv, Rows
<1>2. IInv /\ [Next]_vars => IInv'  BY TypeStep, RowsStep DEF IInv, Rows
<1> QED  BY <1>1, <1>2, PTL DEF Spec

(* Every variable keeps its type.                                          *)
THEOREM TypeCorrect == Spec => []TypeOK
<1>1. IInv => TypeOK  BY DEF IInv
<1> QED  BY <1>1, Inductive, PTL

(* endFileDownload and CancelFileDownload leave no entry in                *)
(* downloadContexts for a download that is over.                           *)
THEOREM ContextsEndAlways == Spec => []ContextsEnd
<1>1. IInv => ContextsEnd  BY DEF IInv, ContextsLive, ContextsEnd
<1> QED  BY <1>1, Inductive, PTL

-----------------------------------------------------------------------------
(* Cancellation.                                                           *)

\* What a cancelled download may still go through.
LEMMA CancelStays ==
    ASSUME IInv, [Next]_vars, NEW f \in cancelled
    PROVE  f \in cancelled' /\ f \notin completed' /\ ready'[f] = ready[f]
<1> USE DEF TypeOK, rowVars, workVars, queueVars, boundVars, Go, notifyFileReady
<1> TypeOK /\ OneOutcome /\ WorkerKnows  BY DEF IInv
<1>1. f \in File /\ f \notin completed  BY DEF OneOutcome
<1>2. ASSUME NEW g \in File, prepareFileDownload(g) PROVE UNCHANGED <<cancelled, ready[f]>>
  <2>1. seen[g] = "completed" /\ pc[g] = "decide" => g # f
    BY <1>1 DEF WorkerKnows
  <2> QED  BY <1>2, <2>1 DEF prepareFileDownload
<1>3. ASSUME NEW g \in File, prepareFileDownload(g) PROVE f \notin completed'
  BY <1>1, <1>3 DEF prepareFileDownload
<1>4. ASSUME NEW g \in File, CheckCandidate(g) \/ CompleteRow(g)
      PROVE  UNCHANGED <<cancelled, ready[f]>> /\ f \notin completed'
  BY <1>1, <1>4 DEF CheckCandidate, CompleteRow, MarkFileDownloadCompleted, Completable
<1>5. ASSUME NEW g \in File, FileReady(g)
      PROVE  UNCHANGED <<cancelled, completed, ready[f]>>
  <2>1. g # f  BY <1>1, <1>5 DEF FileReady, WorkerKnows
  <2> QED  BY <1>5, <2>1 DEF FileReady
<1>6. ASSUME NEW g \in File, CancelFileDownload(g)
      PROVE  cancelled \subseteq cancelled' /\ UNCHANGED <<completed, ready>>
  BY <1>6 DEF CancelFileDownload
<1>7. CASE UNCHANGED <<cancelled, completed, ready>>
  BY <1>1, <1>7
\* The other steps of a worker, and what happens around it.
<1>8. ASSUME NEW g \in File,
             \/ TrackFileDownload(g) \/ endFileDownload(g) \/ beginFileDownload(g)
             \/ MarkFileDownloadStopped(g) \/ AwaitChunks(g) \/ RequestNext(g)
             \/ AssembleFile(g) \/ WriteTemp(g) \/ Rename(g)
      PROVE  UNCHANGED <<cancelled, completed, ready>>
  BY <1>8 DEF TrackFileDownload, endFileDownload, beginFileDownload,
     MarkFileDownloadStopped, AwaitChunks, RequestNext, AssembleFile, WriteTemp, Rename
<1>9. CASE \E g \in File : Work(g)
  BY <1>1, <1>2, <1>3, <1>4, <1>5, <1>7, <1>8, <1>9 DEF Work
<1> QED
  BY <1>1, <1>6, <1>7, <1>9
  DEF Next, vars, processReceivedFile, SaveMessage, ImportMessage, RunJob,
      checkPendingFileDownloads, ChunkData, DeleteExpiredChunks, RemoveFile,
      resumeFileDownloads, Crash, Tick

(* A cancelled download stays cancelled: neither a worker that has read    *)
(* the row before, nor completeFileDownload, nor a restart completes or    *)
(* announces it (CancelFileDownload).                                      *)
THEOREM CancelIsFinalAlways == Spec => CancelIsFinal
<1>1. IInv /\ [Next]_vars =>
        [\A f \in cancelled : /\ f \in cancelled' /\ f \notin completed'
                              /\ ready'[f] = ready[f]]_vars
  BY CancelStays
<1> QED  BY <1>1, Inductive, PTL DEF Spec, CancelIsFinal

-----------------------------------------------------------------------------
(* Publication. A later file of the same name takes the place of an        *)
(* earlier one in the downloads directory.                                 *)

LEMMA RenamedStep ==
    ASSUME TypeOK, CompletedIsThere, [Next]_vars
    PROVE  CompletedIsThere'
<1> USE FileDownloadAssumption
    DEF TypeOK, CompletedIsThere, rowVars, workVars, queueVars, boundVars, Go, fileMatchesMeta
<1>1. ASSUME NEW f \in File, Rename(f) PROVE CompletedIsThere'
  <2>1. CASE disk' = [disk EXCEPT ![NameOf[f]] = f] /\ pc' = [pc EXCEPT ![f] = "mark"]
    <3>1. \A g \in File : pc'[g] = "mark" => g = f
      BY <1>1, <2>1 DEF Rename, LockFree
    <3>2. disk'[NameOf[f]] = f  BY <2>1
    <3>3. \A g \in File : \/ disk'[NameOf[g]] = disk[NameOf[g]]
                          \/ f \in Namesakes(g) /\ disk'[NameOf[g]] = f
      BY <2>1 DEF Namesakes
    <3>4. completed' = completed  BY <1>1 DEF Rename
    <3> QED  BY <3>1, <3>2, <3>3, <3>4
  <2>2. CASE UNCHANGED disk /\ pc' = [pc EXCEPT ![f] = "free"]
    BY <1>1, <2>2 DEF Rename
  <2> QED  BY <1>1, <2>1, <2>2 DEF Rename
<1>2. ASSUME NEW f \in File, CheckCandidate(f) \/ CompleteRow(f) PROVE CompletedIsThere'
  <2>1. f \in Namesakes(f) /\ UNCHANGED disk
    BY <1>2 DEF Namesakes, CheckCandidate, CompleteRow
  <2>2. \A g \in File : /\ pc'[g] = "mark" => pc[g] = "mark"
                        /\ g \in completed' => g \in completed \/ g = f
    BY <1>2 DEF CheckCandidate, CompleteRow, MarkFileDownloadCompleted
  <2>3. f \in completed' /\ f \notin completed => disk[NameOf[f]] \in {f, "removed"}
    BY <1>2 DEF CheckCandidate, CompleteRow, MarkFileDownloadCompleted
  <2> QED  BY <2>1, <2>2, <2>3
<1>3. ASSUME NEW f \in File, prepareFileDownload(f) PROVE CompletedIsThere'
  BY <1>3 DEF prepareFileDownload
<1>4. ASSUME NEW n \in Name, RemoveFile(n) PROVE CompletedIsThere'
  BY <1>4 DEF RemoveFile
<1>5. CASE \E f \in File :
             \/ processReceivedFile(f) \/ RunJob(f) \/ checkPendingFileDownloads(f)
             \/ TrackFileDownload(f) \/ endFileDownload(f) \/ beginFileDownload(f)
             \/ MarkFileDownloadStopped(f) \/ AwaitChunks(f) \/ AssembleFile(f)
             \/ WriteTemp(f) \/ FileReady(f)
  <2>1. PICK f \in File :
             \/ processReceivedFile(f) \/ RunJob(f) \/ checkPendingFileDownloads(f)
             \/ TrackFileDownload(f) \/ endFileDownload(f) \/ beginFileDownload(f)
             \/ MarkFileDownloadStopped(f) \/ AwaitChunks(f) \/ AssembleFile(f)
             \/ WriteTemp(f) \/ FileReady(f)
    BY <1>5
  <2>2. UNCHANGED <<completed, disk>>
    BY <2>1 DEF processReceivedFile, RunJob, checkPendingFileDownloads, TrackFileDownload,
        endFileDownload, beginFileDownload, MarkFileDownloadStopped, AwaitChunks,
        AssembleFile, WriteTemp, FileReady
  <2>3. \A g \in File : pc'[g] = "mark" => pc[g] = "mark"
    BY <2>1 DEF processReceivedFile, RunJob, checkPendingFileDownloads, TrackFileDownload,
        endFileDownload, beginFileDownload, MarkFileDownloadStopped, AwaitChunks,
        AssembleFile, WriteTemp, FileReady, Start
  <2> QED  BY <2>2, <2>3
<1>6. ASSUME NEW f \in File, RequestNext(f) PROVE CompletedIsThere'
  BY <1>6 DEF RequestNext
<1>7. CASE Crash  BY <1>7 DEF Crash
<1>8. CASE UNCHANGED <<completed, disk, pc>>  BY <1>8
<1> QED
  BY <1>1, <1>2, <1>3, <1>4, <1>5, <1>6, <1>7, <1>8
  DEF Next, Work, vars, SaveMessage, ImportMessage, CancelFileDownload, ChunkData,
      DeleteExpiredChunks, resumeFileDownloads, Tick

\* A completed row names a published file: its own, or one of the same name that has
\* replaced it, or none if the user has removed it; and nothing but the user comes
\* between the rename and the update of the row (completeFileDownload,
\* MarkFileDownloadCompleted, downloadMu).
THEOREM CompletedIsThereAlways == Spec => []CompletedIsThere
<1>1. Init => CompletedIsThere  BY DEF Init, CompletedIsThere
<1>2. TypeOK /\ CompletedIsThere /\ [Next]_vars => CompletedIsThere'
  BY RenamedStep
<1> QED  BY <1>1, <1>2, TypeCorrect, PTL DEF Spec

-----------------------------------------------------------------------------
(* Nothing is forgotten.                                                   *)

Clean(f) == errors = 0 /\ \A i \in Index : local[f][i] # "bad"

\* Where a worker will yet settle its file or put it on the list.
Deciding == {"track", "decide", "candidate", "begin", "list", "write", "publish", "mark"}

\* A file whose message has been met is settled, on the list, or in the hands of a
\* worker; and a worker that leaves its file knows that one of the others holds.
Kept(f) ==
    /\ arrived[f] # "no" =>
         \/ f \in Settled \cup pending
         \/ resume = "due" /\ arrived[f] = "saved"
         \/ pc[f] \in Deciding
    /\ pc[f] = "request" => f \in Settled \cup pending
    /\ pc[f] = "end" => f \in Settled
    /\ pc[f] \in {"decide", "candidate"} /\ seen[f] = "stopped" => f \in stopped
    /\ pc[f] = "decide" /\ seen[f] = "cancelled" => f \in cancelled
    /\ pc[f] \in {"list", "write", "publish"} => f \in ctx \cup cancelled

\* What Kept says of a file stays when nothing of that file changes.
LEMMA KeptFrame ==
    ASSUME NEW f, Kept(f), pc'[f] = pc[f], seen'[f] = seen[f], arrived'[f] = arrived[f],
           resume' = resume, f \in ctx => f \in ctx', f \in pending => f \in pending',
           f \in completed => f \in completed', f \in stopped => f \in stopped',
           f \in cancelled => f \in cancelled'
    PROVE  Kept(f)'
  BY DEF Kept, Settled

\* Another file's worker, message or user leaves it alone.
LEMMA OtherFile ==
    ASSUME TypeOK, NEW f \in File, Kept(f), NEW g \in File, g # f,
           \/ processReceivedFile(g) \/ SaveMessage(g) \/ ImportMessage(g)
           \/ RunJob(g) \/ checkPendingFileDownloads(g) \/ Work(g)
           \/ CancelFileDownload(g)
    PROVE  Kept(f)'
<1> USE DEF TypeOK, rowVars, workVars, queueVars, boundVars, Go, Start
<1>1. CASE processReceivedFile(g) \/ SaveMessage(g) \/ ImportMessage(g)
  BY <1>1, KeptFrame DEF processReceivedFile, SaveMessage, ImportMessage, queueFileDownloads
<1>2. CASE RunJob(g) \/ checkPendingFileDownloads(g) \/ TrackFileDownload(g)
  BY <1>2, KeptFrame DEF RunJob, checkPendingFileDownloads, TrackFileDownload
<1>3. CASE prepareFileDownload(g)
  BY <1>3, KeptFrame DEF prepareFileDownload, removePendingFileDownload
<1>4. CASE CheckCandidate(g)
  BY <1>4, KeptFrame DEF CheckCandidate, removePendingFileDownload, MarkFileDownloadCompleted
<1>5. CASE endFileDownload(g) \/ beginFileDownload(g)
  BY <1>5, KeptFrame DEF endFileDownload, beginFileDownload
<1>6. CASE MarkFileDownloadStopped(g) \/ AwaitChunks(g)
  BY <1>6, KeptFrame DEF MarkFileDownloadStopped, AwaitChunks, removePendingFileDownload
<1>7. CASE RequestNext(g) \/ AssembleFile(g) \/ WriteTemp(g) \/ Rename(g)
  BY <1>7, KeptFrame DEF RequestNext, AssembleFile, WriteTemp, Rename
<1>8. CASE CompleteRow(g) \/ FileReady(g)
  BY <1>8, KeptFrame
  DEF CompleteRow, FileReady, removePendingFileDownload, MarkFileDownloadCompleted
<1>9. CASE CancelFileDownload(g)
  BY <1>9, KeptFrame DEF CancelFileDownload, removePendingFileDownload
<1> QED  BY <1>1, <1>2, <1>3, <1>4, <1>5, <1>6, <1>7, <1>8, <1>9 DEF Work

LEMMA KeptStep ==
    ASSUME TypeOK, WorkerKnows, NEW f \in File, Kept(f), Clean(f)', [Next]_vars
    PROVE  Kept(f)'
<1> USE DEF rowVars, workVars, queueVars, boundVars, Go, Settled, Deciding
<1>t. TypeOK  OBVIOUS
<1>e. ~Error
  BY DEF Error, Clean, TypeOK
<1>1. CASE processReceivedFile(f)
  BY <1>1, <1>t DEF processReceivedFile, Start, Kept, WorkerKnows, TypeOK
<1>2. CASE SaveMessage(f)
  BY <1>2, <1>e, <1>t DEF SaveMessage, Kept, TypeOK
<1>3. CASE ImportMessage(f)
  BY <1>3, <1>t DEF ImportMessage, queueFileDownloads, Kept, TypeOK
<1>4. CASE RunJob(f) \/ checkPendingFileDownloads(f)
  BY <1>4, <1>t DEF RunJob, checkPendingFileDownloads, Start, Kept, TypeOK
<1>5. CASE TrackFileDownload(f)
  <2>1. /\ Status(f) = "stopped" => f \in stopped
        /\ Status(f) = "cancelled" => f \in cancelled
    BY DEF Status
  <2>2. pc'[f] = "decide" /\ seen'[f] = Status(f)
        /\ UNCHANGED <<completed, stopped, cancelled, arrived, pending, resume>>
    BY <1>5, <1>e DEF TrackFileDownload, TypeOK
  <2> QED  BY <2>1, <2>2 DEF Kept
<1>6. CASE prepareFileDownload(f)
  BY <1>6, <1>e DEF prepareFileDownload, removePendingFileDownload, Kept, TypeOK, WorkerKnows
<1>7. CASE CheckCandidate(f)
  BY <1>7, <1>e
  DEF CheckCandidate, removePendingFileDownload, MarkFileDownloadCompleted, Completable, Kept,
      TypeOK
<1>8. CASE endFileDownload(f)
  BY <1>8 DEF endFileDownload, Kept, TypeOK
<1>9. CASE beginFileDownload(f)
  BY <1>9, <1>e DEF beginFileDownload, Kept, TypeOK
<1>10. CASE MarkFileDownloadStopped(f)
  BY <1>10, <1>e DEF MarkFileDownloadStopped, removePendingFileDownload, Kept, TypeOK
<1>11. CASE AwaitChunks(f)
  BY <1>11 DEF AwaitChunks, Kept, TypeOK
<1>12. CASE RequestNext(f)
  BY <1>12 DEF RequestNext, Kept, TypeOK
<1>13. CASE AssembleFile(f)
  <2>1. UNCHANGED local  BY <1>13 DEF AssembleFile
  <2>2. pc'[f] = "write" /\ pc[f] = "list" /\ UNCHANGED <<completed, stopped, cancelled, arrived,
                                                          seen, pending, resume, ctx>>
    BY <1>13, <1>e, <2>1 DEF AssembleFile, Clean, TypeOK
  <2> QED  BY <2>2 DEF Kept
<1>14. CASE WriteTemp(f)
  BY <1>14, <1>e DEF WriteTemp, Kept, TypeOK
<1>15. CASE Rename(f)
  BY <1>15, <1>e DEF Rename, Kept, TypeOK
<1>16. CASE CompleteRow(f)
  BY <1>16, <1>e DEF CompleteRow, Completable, MarkFileDownloadCompleted, Kept, TypeOK
<1>17. CASE FileReady(f)
  BY <1>17 DEF FileReady, removePendingFileDownload, Kept, TypeOK, WorkerKnows
<1>18. CASE CancelFileDownload(f)
  BY <1>18 DEF CancelFileDownload, removePendingFileDownload, Kept, TypeOK
<1>19. CASE resumeFileDownloads
  BY <1>19, <1>e DEF resumeFileDownloads, queueFileDownloads, Kept
<1>20. CASE Crash
  BY <1>20 DEF Crash, Kept, TypeOK
<1>21. CASE UNCHANGED <<completed, stopped, cancelled, arrived, workVars, pending, resume, ctx>>
  BY <1>21, KeptFrame
<1>22. ASSUME NEW g \in File, \/ processReceivedFile(g) \/ SaveMessage(g) \/ ImportMessage(g)
                              \/ RunJob(g) \/ checkPendingFileDownloads(g) \/ Work(g)
                              \/ CancelFileDownload(g)
       PROVE  Kept(f)'
  <2>1. CASE g # f  BY <1>22, <2>1, OtherFile
  <2>2. CASE g = f
    BY <1>22, <2>2, <1>1, <1>2, <1>3, <1>4, <1>5, <1>6, <1>7, <1>8, <1>9, <1>10, <1>11, <1>12,
       <1>13, <1>14, <1>15, <1>16, <1>17, <1>18 DEF Work
  <2> QED  BY <2>1, <2>2
<1>23. ASSUME \/ \E g \in File : DeleteExpiredChunks(g) \/ \E i \in Index : ChunkData(g, i)
              \/ \E n \in Name : RemoveFile(n)
              \/ Tick \/ UNCHANGED vars
       PROVE  Kept(f)'
  BY <1>21, <1>23 DEF DeleteExpiredChunks, ChunkData, RemoveFile, Tick, vars
<1> QED  BY <1>19, <1>20, <1>22, <1>23 DEF Next

(* As long as the node's own store works and no chunk arrives wrong, every *)
(* attachment of a saved message is settled, waits on the list, is due to  *)
(* be resumed, or has a worker that will decide; whatever jobs are         *)
(* dropped, answers lost, workers interrupted or nodes restarted           *)
(* (queueFileDownloads, resumeFileDownloads, removePendingFileDownload).   *)
THEOREM NeverForgottenAlways == Spec => NeverForgotten
<1>1. SUFFICES ASSUME NEW f \in File
               PROVE  Spec => ([]Clean(f) => [](arrived[f] = "saved" => Remembered(f)))
  BY DEF NeverForgotten, Clean
<1>2. Init => Kept(f)  BY DEF Init, Kept
<1>3. IInv /\ Kept(f) /\ Clean(f)' /\ [Next]_vars => Kept(f)'  BY KeptStep DEF IInv
<1>4. Kept(f) => (arrived[f] = "saved" => Remembered(f))
  BY DEF Kept, Remembered, Deciding
<1> QED  BY <1>2, <1>3, <1>4, Inductive, PTL DEF Spec
=============================================================================
