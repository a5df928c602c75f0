---------------------------- MODULE FileDownload ----------------------------
(***************************************************************************)
(* The download of a message's attachments: a persistent row per file, a   *)
(* worker that requests missing chunks and assembles the file, its         *)
(* publication in the downloads directory, cancellation by the user, and   *)
(* resumption after a restart.                                             *)
(*                                                                         *)
(* internal/messenger/{messenger,downloads,relogin_replication}.go,        *)
(* internal/store/fileDownloadStore.go                                     *)
(*                                                                         *)
(* tryProcessMsg("file:" + id) admits one worker per file, so the worker's *)
(* state is a function of the file. The worker is split wherever           *)
(* CancelFileDownload, another file's worker or a restart can come between *)
(* two of its steps. Time is counted in fractions of the week a download   *)
(* may take.                                                               *)
(***************************************************************************)
EXTENDS Integers

CONSTANTS
    File,        \* file IDs, one attachment of one message each
    Name,        \* names in the downloads directory
    NameOf,      \* [File -> Name]
    TotalChunks, \* number of chunks of a file
    Answers,     \* bytes a peer may answer with: "good" or "bad"
    TTL,         \* fileDownloadTTL
    MaxTime,     \* bound: the clock stops here and at the last deadline
    MaxFaults,   \* bound: lost or wrong answers, files removed, restarts
    MaxErrors    \* bound: failures of the node's own store or disk

ASSUME FileDownloadAssumption ==
    /\ NameOf \in [File -> Name]
    /\ File \cap {"none", "removed"} = {}
    /\ TotalChunks \in Nat \ {0}
    /\ Answers \subseteq {"good", "bad"}
    /\ TTL \in Nat \ {0}
    /\ MaxTime \in Nat
    /\ MaxFaults \in Nat
    /\ MaxErrors \in Nat

VARIABLES
    now,         \* the clock
    \* durable
    expires,     \* file_downloads.expires_at, 0: no row
    completed,   \* rows with completed_at; local_path is the file's name
    stopped,     \* rows with stopped_at
    cancelled,   \* rows with cancelled_at
    local,       \* chunks: "none", "good" or "bad" bytes
    disk,        \* downloads directory: the file whose contents a name has
    arrived,     \* the message: "no", "calling", "called" or "saved"
    \* in memory
    pc,          \* where the file's worker is
    seen,        \* what it read from the row
    need,        \* the chunks it has still to request
    ctx,         \* files with an entry in downloadContexts
    pending,     \* pendingFileDownloads
    jobs,        \* queued jobs of queueFileDownloads
    resume,      \* resumeFileDownloads has still to run
    asked,       \* requested chunks
    ready,       \* how often file_ready was published
    faults, errors

rowVars    == <<expires, completed, stopped, cancelled>>
workVars   == <<pc, seen, need>>
queueVars  == <<pending, jobs, resume>>
boundVars  == <<faults, errors>>
vars == <<now, rowVars, local, disk, arrived, workVars, ctx, queueVars, asked,
          ready, boundVars>>

Index == 0..(TotalChunks - 1)

Settled == completed \cup stopped \cup cancelled

Fault == faults < MaxFaults /\ faults' = faults + 1 /\ UNCHANGED errors
Error == errors < MaxErrors /\ errors' = errors + 1 /\ UNCHANGED faults

Missing(f) == {i \in Index : local[f][i] = "none"}

\* downloadMu is held between the rename and the update of the row.
LockFree == \A f \in File : pc[f] # "mark"

-----------------------------------------------------------------------------
Init ==
    /\ now = 1
    /\ expires = [f \in File |-> 0]
    /\ completed = {} /\ stopped = {} /\ cancelled = {}
    /\ local = [f \in File |-> [i \in Index |-> "none"]]
    /\ disk = [n \in Name |-> "none"]
    /\ arrived = [f \in File |-> "no"]
    /\ pc = [f \in File |-> "free"]
    /\ seen = [f \in File |-> "active"]
    /\ need = [f \in File |-> {}]
    /\ ctx = {} /\ pending = {} /\ jobs = {} /\ asked = {}
    /\ resume = "done"
    /\ ready = [f \in File |-> 0]
    /\ faults = 0 /\ errors = 0

-----------------------------------------------------------------------------
(* What starts a worker. A second one for the same file gives up at once.  *)

Go(f, label) == pc' = [pc EXCEPT ![f] = label]

Start(f) == Go(f, IF pc[f] = "free" THEN "track" ELSE pc[f])

\* collectAndProcessMessage calls processReceivedFile and waits for it.
processReceivedFile(f) ==
    /\ arrived[f] = "no"
    /\ arrived' = [arrived EXCEPT ![f] = IF pc[f] = "free" THEN "calling" ELSE "called"]
    /\ Start(f)
    /\ UNCHANGED <<now, rowVars, local, disk, seen, need, ctx, queueVars, asked,
                   ready, boundVars>>

\* ... and saves the message afterwards, or meets it again when that fails.
SaveMessage(f) ==
    /\ arrived[f] = "called" \/ (arrived[f] = "calling" /\ pc[f] = "free")
    /\ \/ arrived' = [arrived EXCEPT ![f] = "saved"] /\ UNCHANGED boundVars
       \/ arrived' = [arrived EXCEPT ![f] = "no"] /\ Error
    /\ UNCHANGED <<now, rowVars, local, disk, workVars, ctx, queueVars, asked,
                   ready>>

\* The files wait in pendingFileDownloads; a full pool drops their jobs.
queueFileDownloads(F) ==
    /\ pending' = pending \cup F
    /\ \E J \in SUBSET F : jobs' = jobs \cup J

\* finishStateSyncImport: the message comes from another device.
ImportMessage(f) ==
    /\ arrived[f] # "saved"
    /\ arrived' = [arrived EXCEPT ![f] = "saved"]
    /\ queueFileDownloads({f})
    /\ UNCHANGED <<now, rowVars, local, disk, workVars, ctx, resume, asked, ready,
                   boundVars>>

\* After a restart, the files of all messages in the history.
resumeFileDownloads ==
    /\ resume = "due" /\ resume' = "done"
    /\ \/ /\ queueFileDownloads({f \in File : arrived[f] = "saved"})
          /\ UNCHANGED boundVars
       \/ Error /\ UNCHANGED <<pending, jobs>>
    /\ UNCHANGED <<now, rowVars, local, disk, arrived, workVars, ctx, asked, ready>>

RunJob(f) ==
    /\ f \in jobs /\ jobs' = jobs \ {f}
    /\ Start(f)
    /\ UNCHANGED <<now, rowVars, local, disk, arrived, seen, need, ctx, pending,
                   resume, asked, ready, boundVars>>

\* The loop, and the arrival of a chunk of a pending file.
checkPendingFileDownloads(f) ==
    /\ f \in pending /\ pc[f] = "free"
    /\ Start(f)
    /\ UNCHANGED <<now, rowVars, local, disk, arrived, seen, need, ctx, queueVars,
                   asked, ready, boundVars>>

-----------------------------------------------------------------------------
(* prepareFileDownload.                                                    *)

removePendingFileDownload(f) == pending' = pending \ {f}

notifyFileReady(f) == ready' = [ready EXCEPT ![f] = @ + 1]

\* The row is inserted once; later checks keep its deadline.
Deadline(f) == IF expires[f] = 0 THEN now + TTL ELSE expires[f]

Status(f) == CASE f \in cancelled -> "cancelled"
               [] f \in completed -> "completed"
               [] f \in stopped -> "stopped"
               [] OTHER -> "active"

TrackFileDownload(f) ==
    /\ pc[f] = "track"
    /\ \/ /\ expires' = [expires EXCEPT ![f] = Deadline(f)]
          /\ seen' = [seen EXCEPT ![f] = Status(f)]
          /\ Go(f, "decide")
          /\ UNCHANGED boundVars
       \/ Error /\ Go(f, "end") /\ UNCHANGED <<expires, seen>>
    /\ UNCHANGED <<now, completed, stopped, cancelled, local, disk, arrived, need,
                   ctx, queueVars, asked, ready>>

fileMatchesMeta(f) == disk[NameOf[f]] = f

\* A completed download whose file is still there is announced again; when the
\* file is gone or has other contents the completion is reset.
prepareFileDownload(f) ==
    /\ pc[f] = "decide"
    /\ \/ /\ seen[f] = "cancelled"
          /\ removePendingFileDownload(f)
          /\ Go(f, "end")
          /\ UNCHANGED <<completed, ready, boundVars>>
       \/ /\ seen[f] = "completed" /\ fileMatchesMeta(f)
          /\ removePendingFileDownload(f)
          /\ notifyFileReady(f)
          /\ Go(f, "end")
          /\ UNCHANGED <<completed, boundVars>>
       \/ /\ seen[f] = "completed" /\ ~fileMatchesMeta(f)
          /\ \/ completed' = completed \ {f} /\ Go(f, "candidate") /\ UNCHANGED boundVars
             \/ Error /\ Go(f, "end") /\ UNCHANGED completed
          /\ UNCHANGED <<pending, ready>>
       \/ /\ seen[f] \in {"stopped", "active"}
          /\ Go(f, "candidate")
          /\ UNCHANGED <<completed, pending, ready, boundVars>>
    /\ UNCHANGED <<now, expires, stopped, cancelled, local, disk, arrived, seen,
                   need, ctx, jobs, resume, asked>>

\* (A variant of Completable: the update overlooks cancelled_at)
CompletableAlways(f) == TRUE

\* MarkFileDownloadCompleted updates the row unless it is cancelled.
Completable(f) == f \notin cancelled

MarkFileDownloadCompleted(f) ==
    /\ completed' = completed \cup {f}
    /\ stopped' = stopped \ {f}

\* A matching file that is there already completes the download.
CheckCandidate(f) ==
    /\ pc[f] = "candidate"
    /\ \/ /\ fileMatchesMeta(f) /\ Completable(f)
          /\ MarkFileDownloadCompleted(f)
          /\ removePendingFileDownload(f)
          /\ notifyFileReady(f)
          /\ Go(f, "end")
          /\ UNCHANGED boundVars
       \/ /\ fileMatchesMeta(f)
          /\ Go(f, "end")
          /\ (~Completable(f) /\ UNCHANGED boundVars) \/ Error
          /\ UNCHANGED <<completed, stopped, pending, ready>>
       \/ /\ ~fileMatchesMeta(f) /\ seen[f] = "stopped"
          /\ removePendingFileDownload(f)
          /\ Go(f, "end")
          /\ UNCHANGED <<completed, stopped, ready, boundVars>>
       \/ /\ ~fileMatchesMeta(f) /\ seen[f] # "stopped"
          /\ Go(f, "begin")
          /\ UNCHANGED <<completed, stopped, pending, ready, boundVars>>
    /\ UNCHANGED <<now, expires, cancelled, local, disk, arrived, seen, need, ctx,
                   jobs, resume, asked>>

endFileDownload(f) ==
    /\ pc[f] = "end" /\ LockFree
    /\ ctx' = ctx \ {f}
    /\ Go(f, "free")
    /\ UNCHANGED <<now, rowVars, local, disk, arrived, seen, need, queueVars, asked,
                   ready, boundVars>>

-----------------------------------------------------------------------------
(* processReceivedFileFromPeer: request what is missing, or assemble.      *)

\* The row is read again under downloadMu.
beginFileDownload(f) ==
    /\ pc[f] = "begin" /\ LockFree
    /\ \/ /\ f \notin cancelled
          /\ ctx' = ctx \cup {f}
          /\ Go(f, "list")
          /\ UNCHANGED boundVars
       \/ f \in cancelled /\ Go(f, "free") /\ UNCHANGED <<ctx, boundVars>>
       \/ Error /\ Go(f, "free") /\ UNCHANGED ctx
    /\ UNCHANGED <<now, rowVars, local, disk, arrived, seen, need, queueVars, asked,
                   ready>>

Expired(f) == expires[f] <= now

\* Chunks are missing and the week is over; a failed update of the row is only
\* logged.
MarkFileDownloadStopped(f) ==
    /\ pc[f] = "list" /\ LockFree /\ Missing(f) # {} /\ Expired(f)
    /\ \/ stopped' = stopped \cup ({f} \ completed) /\ UNCHANGED boundVars
       \/ Error /\ UNCHANGED stopped
    /\ removePendingFileDownload(f)
    /\ ctx' = ctx \ {f}
    /\ Go(f, "free")
    /\ UNCHANGED <<now, expires, completed, cancelled, local, disk, arrived, seen,
                   need, jobs, resume, asked, ready>>

\* (A variant of AwaitChunks: the download is not registered as pending)
AwaitChunksForgotten(f) ==
    /\ pc[f] = "list" /\ Missing(f) # {} /\ ~Expired(f)
    /\ need' = [need EXCEPT ![f] = Missing(f)]
    /\ Go(f, "request")
    /\ UNCHANGED <<now, rowVars, local, disk, arrived, seen, ctx, queueVars, asked,
                   ready, boundVars>>

\* Chunks are missing; the download waits in pendingFileDownloads unless it has
\* been cancelled.
AwaitChunks(f) ==
    /\ pc[f] = "list" /\ Missing(f) # {} /\ ~Expired(f)
    /\ IF f \in ctx
       THEN /\ pending' = pending \cup {f}
            /\ need' = [need EXCEPT ![f] = Missing(f)]
            /\ Go(f, "request")
       ELSE /\ Go(f, "free")
            /\ UNCHANGED <<pending, need>>
    /\ UNCHANGED <<now, rowVars, local, disk, arrived, seen, ctx, jobs, resume,
                   asked, ready, boundVars>>

\* requestMissingChunkFromPeer, until the context is cancelled.
RequestNext(f) ==
    /\ pc[f] = "request"
    /\ \/ /\ f \in ctx
          /\ \E i \in need[f] :
               /\ asked' = asked \cup {<<f, i>>}
               /\ need' = [need EXCEPT ![f] = @ \ {i}]
          /\ UNCHANGED pc
       \/ /\ f \notin ctx \/ need[f] = {}
          /\ need' = [need EXCEPT ![f] = {}]
          /\ Go(f, "free")
          /\ UNCHANGED asked
    /\ UNCHANGED <<now, rowVars, local, disk, arrived, seen, ctx, queueVars, ready,
                   boundVars>>

\* All chunks are there; the chunks cannot be read, the sender is unknown or the
\* hash is wrong, or the file goes to completeFileDownload.
AssembleFile(f) ==
    /\ pc[f] = "list"
    /\ \/ /\ Missing(f) = {} /\ \A i \in Index : local[f][i] = "good"
          /\ Go(f, "write")
          /\ UNCHANGED boundVars
       \/ /\ Missing(f) = {} /\ \E i \in Index : local[f][i] = "bad"
          /\ Go(f, "free")
          /\ UNCHANGED boundVars
       \/ Error /\ Go(f, "free")
    /\ UNCHANGED <<now, rowVars, local, disk, arrived, seen, need, ctx, queueVars,
                   asked, ready>>

-----------------------------------------------------------------------------
(* completeFileDownload: the contents go to a temporary file; the rename   *)
(* and the row are serialized with CancelFileDownload.                     *)

WriteTemp(f) ==
    /\ pc[f] = "write"
    /\ \/ f \in ctx /\ Go(f, "publish") /\ UNCHANGED boundVars
       \/ f \notin ctx /\ Go(f, "free") /\ UNCHANGED boundVars
       \/ Error /\ Go(f, "free")
    /\ UNCHANGED <<now, rowVars, local, disk, arrived, seen, need, ctx, queueVars,
                   asked, ready>>

\* (A variant of Rename: the row is updated first)
RenameLast(f) ==
    /\ pc[f] = "publish" /\ LockFree
    /\ MarkFileDownloadCompleted(f)
    /\ Go(f, "mark")
    /\ UNCHANGED <<now, expires, cancelled, local, disk, arrived, seen, need, ctx,
                   queueVars, asked, ready, boundVars>>

Rename(f) ==
    /\ pc[f] = "publish" /\ LockFree
    /\ \/ /\ f \in ctx /\ f \notin cancelled
          /\ disk' = [disk EXCEPT ![NameOf[f]] = f]
          /\ Go(f, "mark")
          /\ UNCHANGED boundVars
       \/ /\ f \notin ctx \/ f \in cancelled
          /\ Go(f, "free")
          /\ UNCHANGED <<disk, boundVars>>
       \/ Error /\ Go(f, "free") /\ UNCHANGED disk
    /\ UNCHANGED <<now, rowVars, local, arrived, seen, need, ctx, queueVars, asked,
                   ready>>

CompleteRow(f) ==
    /\ pc[f] = "mark"
    /\ \/ /\ Completable(f)
          /\ MarkFileDownloadCompleted(f)
          /\ Go(f, "ready")
          /\ UNCHANGED boundVars
       \/ /\ Go(f, "free")
          /\ (~Completable(f) /\ UNCHANGED boundVars) \/ Error
          /\ UNCHANGED <<completed, stopped>>
    /\ UNCHANGED <<now, expires, cancelled, local, disk, arrived, seen, need, ctx,
                   queueVars, asked, ready>>

\* (A variant of FileReady: the context is not ended)
FileReadyKeepsContext(f) ==
    /\ pc[f] = "ready" /\ LockFree
    /\ removePendingFileDownload(f)
    /\ notifyFileReady(f)
    /\ Go(f, "free")
    /\ UNCHANGED <<now, rowVars, local, disk, arrived, seen, need, ctx, jobs, resume,
                   asked, boundVars>>

FileReady(f) ==
    /\ pc[f] = "ready" /\ LockFree
    /\ ctx' = ctx \ {f}
    /\ removePendingFileDownload(f)
    /\ notifyFileReady(f)
    /\ Go(f, "free")
    /\ UNCHANGED <<now, rowVars, local, disk, arrived, seen, need, jobs, resume,
                   asked, boundVars>>

-----------------------------------------------------------------------------
(* The user, the peers, housekeeping, the clock and restarts.              *)

\* Only a download that is neither completed nor cancelled can be cancelled.
CancelFileDownload(f) ==
    /\ LockFree
    /\ expires[f] # 0 /\ f \notin completed \cup cancelled
    /\ cancelled' = cancelled \cup {f}
    /\ stopped' = stopped \cup {f}
    /\ ctx' = ctx \ {f}
    /\ removePendingFileDownload(f)
    /\ UNCHANGED <<now, expires, completed, local, disk, arrived, workVars, jobs,
                   resume, asked, ready, boundVars>>

\* An answer to a request carries no hash; it may be wrong or get lost.
ChunkData(f, i) ==
    /\ <<f, i>> \in asked
    /\ asked' = asked \ {<<f, i>>}
    /\ \/ \E b \in Answers : /\ local' = [local EXCEPT ![f][i] = b]
                             /\ IF b = "bad" THEN Fault ELSE UNCHANGED boundVars
       \/ UNCHANGED local /\ Fault
    /\ UNCHANGED <<now, rowVars, disk, arrived, workVars, ctx, queueVars, ready>>

\* A chunk is kept for a week from its arrival, a download lasts a week from the
\* first sight of its file.
DeleteExpiredChunks(f) ==
    /\ expires[f] # 0 /\ Expired(f)
    /\ \E I \in SUBSET Index :
         local' = [local EXCEPT ![f] = [i \in Index |-> IF i \in I THEN "none" ELSE @[i]]]
    /\ local' # local
    /\ UNCHANGED <<now, rowVars, disk, arrived, workVars, ctx, queueVars, asked,
                   ready, boundVars>>

\* The user removes a file from the downloads directory.
RemoveFile(n) ==
    /\ disk[n] \in File
    /\ disk' = [disk EXCEPT ![n] = "removed"]
    /\ Fault
    /\ UNCHANGED <<now, rowVars, local, arrived, workVars, ctx, queueVars, asked,
                   ready>>

Crash ==
    /\ Fault
    /\ arrived' = [f \in File |-> IF arrived[f] = "saved" THEN "saved" ELSE "no"]
    /\ pc' = [f \in File |-> "free"]
    /\ need' = [f \in File |-> {}]
    /\ ctx' = {} /\ pending' = {} /\ jobs' = {} /\ asked' = {}
    /\ resume' = "due"
    /\ UNCHANGED <<now, rowVars, local, disk, seen, ready>>

Tick ==
    /\ now < MaxTime \/ \E f \in File : expires[f] > now
    /\ now' = now + 1
    /\ UNCHANGED <<rowVars, local, disk, arrived, workVars, ctx, queueVars, asked,
                   ready, boundVars>>

-----------------------------------------------------------------------------
Work(f) ==
    \/ TrackFileDownload(f) \/ prepareFileDownload(f) \/ CheckCandidate(f)
    \/ endFileDownload(f) \/ beginFileDownload(f) \/ MarkFileDownloadStopped(f)
    \/ AwaitChunks(f) \/ RequestNext(f) \/ AssembleFile(f) \/ WriteTemp(f)
    \/ Rename(f) \/ CompleteRow(f) \/ FileReady(f)

Next ==
    \/ \E f \in File :
         \/ processReceivedFile(f) \/ SaveMessage(f) \/ ImportMessage(f)
         \/ RunJob(f) \/ checkPendingFileDownloads(f) \/ Work(f)
         \/ CancelFileDownload(f) \/ DeleteExpiredChunks(f)
         \/ \E i \in Index : ChunkData(f, i)
    \/ \E n \in Name : RemoveFile(n)
    \/ resumeFileDownloads
    \/ Crash
    \/ Tick

Spec == Init /\ [][Next]_vars

\* The loops run, a worker that has started goes on, and what is asked for arrives
\* unless a failure prevents it.
FairSpec ==
    /\ Spec
    /\ WF_vars(resumeFileDownloads)
    /\ \A f \in File :
         /\ WF_vars(Work(f)) /\ WF_vars(checkPendingFileDownloads(f))
         /\ \A i \in Index : WF_vars(ChunkData(f, i))

-----------------------------------------------------------------------------
(* Properties.                                                             *)

\* Every variable has its type.
TypeOK ==
    /\ now \in Nat
    /\ expires \in [File -> Nat]
    /\ completed \subseteq File /\ stopped \subseteq File /\ cancelled \subseteq File
    /\ local \in [File -> [Index -> {"none", "good", "bad"}]]
    /\ disk \in [Name -> File \cup {"none", "removed"}]
    /\ arrived \in [File -> {"no", "calling", "called", "saved"}]
    /\ pc \in [File -> {"free", "track", "decide", "candidate", "end", "begin", "list",
                        "request", "write", "publish", "mark", "ready"}]
    /\ seen \in [File -> {"active", "stopped", "completed", "cancelled"}]
    /\ need \in [File -> SUBSET Index]
    /\ ctx \subseteq File /\ pending \subseteq File /\ jobs \subseteq File
    /\ resume \in {"due", "done"}
    /\ asked \subseteq File \X Index
    /\ ready \in [File -> Nat]
    /\ faults \in Nat /\ errors \in Nat

\* A cancelled download stays cancelled: no late chunk, matching file, running
\* worker or restart completes or announces it. (CancelFileDownload,
\* completeFileDownload, MarkFileDownloadCompleted)
CancelIsFinal ==
    [][\A f \in cancelled : /\ f \in cancelled' /\ f \notin completed'
                            /\ ready'[f] = ready[f]]_vars

\* Attachments that are published under one name, each replacing the one before.
Namesakes(f) == {g \in File : NameOf[g] = NameOf[f]}

\* The row of a completed download names a published file: one with its contents,
\* unless the user has removed it or another attachment of the same name has replaced
\* it, which leaves this row as it is. While the worker is about to complete the row
\* nothing but the user can. (completeFileDownload renames before it updates the row,
\* both under downloadMu)
CompletedIsThere ==
    \A f \in File :
        /\ f \in completed => disk[NameOf[f]] \in Namesakes(f) \cup {"removed"}
        /\ pc[f] = "mark" => disk[NameOf[f]] \in {f, "removed"}

\* A download that is completed, stopped or cancelled leaves no context behind in
\* downloadContexts once its worker has returned. (endFileDownload, CancelFileDownload)
ContextsEnd ==
    \A f \in ctx : pc[f] = "free" => f \notin Settled

\* A download that is not over is on somebody's list: pendingFileDownloads, the
\* resumption after a restart, or a worker that has yet to decide.
Remembered(f) ==
    \/ f \in Settled \cup pending
    \/ resume = "due"
    \/ pc[f] \notin {"free", "request", "end", "ready"}

\* As long as no chunk arrives wrong and the node's own store works, no attachment of
\* a saved message is forgotten, though jobs are dropped, workers give up at every
\* stage, answers are lost and restarts clear all lists (trySubmit,
\* removePendingFileDownload, resumeFileDownloads).
NeverForgotten ==
    \A f \in File :
        [](errors = 0 /\ \A i \in Index : local[f][i] # "bad")
        => [](arrived[f] = "saved" => Remembered(f))

\* The attachments of a saved message do not hang: unless a chunk arrives wrong or
\* the node's own store fails, restarts, lost answers and dropped jobs delay a
\* download, but it ends: completed, stopped at its deadline or cancelled. (What
\* becomes of a completed download whose file the user removes later is another
\* matter.) (fileDownloadLoop, resumeFileDownloads, MarkFileDownloadStopped)
EventuallySettled ==
    \A f \in File :
        /\ <>(arrived[f] = "saved")
        /\ [](errors = 0 /\ \A i \in Index : local[f][i] # "bad")
        => <>(f \in Settled)
=============================================================================
