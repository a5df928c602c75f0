------------------------------- MODULE Inbox -------------------------------
(***************************************************************************)
(* The receiving side of a Huginn node: it polls Muninn for the chunks     *)
(* registered for it since a cursor, tracks each in failed_chunks before   *)
(* the cursor may pass it, fetches the bytes, and saves and publishes a    *)
(* message when all its chunks are there and it can be read. The same      *)
(* message may also come directly over a data channel.                     *)
(*                                                                         *)
(* internal/messenger/{messages,chunks}.go, internal/store/{trackStore,    *)
(* messageStore}.go                                                        *)
(*                                                                         *)
(* Checks run concurrently: the periodic one and those that InjectChunk    *)
(* submits. One recipient key is modelled; the cursor and the tracked      *)
(* chunks of a group chat are rows of their own. Time is in seconds.       *)
(***************************************************************************)
EXTENDS Integers

CONSTANTS
    Message,     \* message UIDs
    Chunk,       \* chunks: one (message, index) pair each
    MsgOf,       \* [Chunk -> Message]
    Readable,    \* messages that decrypt with the recipient's key
    Direct,      \* messages whose sender may also reach the recipient directly
    Checker,     \* concurrent runs of checkRecipientMessages
    Loop,        \* the one that runs periodically
    NoMsg,       \* no message is being collected
    TTLs,        \* lifetimes a sender may give a message
    MaxTime,     \* bound: last second of the clock
    MaxFaults    \* bound: failures and restarts in one behaviour

ASSUME InboxAssumption ==
    /\ MsgOf \in [Chunk -> Message]
    /\ Readable \subseteq Message
    /\ Direct \subseteq Message
    /\ Loop \in Checker
    /\ NoMsg \notin Message
    /\ TTLs \subseteq Nat \ {0}
    /\ MaxTime \in Nat
    /\ MaxFaults \in Nat

VARIABLES
    now,         \* the clock
    deadline,    \* when the sender's copies of a message expire, 0: not sent yet
    dir,         \* Muninn: <<chunk, updated>> rows for this recipient
    \* durable
    cursor,      \* last_check
    tracked,     \* failed_chunks: when a chunk's row expires, 0: no row
    local,       \* chunks: "none", "good" or "bad" bytes
    saved,       \* messages
    \* in memory
    processing,  \* processingMsg
    published,   \* how often a message was handed to the subscribers
    rtc,         \* rtcMsgChan: direct messages that wait to be saved
    direct,      \* messages that were sent directly
    asked,       \* chunks requested from a peer and not yet answered
    \* each check
    pc,          \* where it is
    last,        \* lastCheck
    new,         \* newLastCheck
    safe,        \* safeToAdvance
    work,        \* the rows still to be collected
    retry,       \* the messages still to be retried
    cur,         \* the message being collected
    recs,        \* its rows
    left,        \* the rows of recs not yet tracked
    faults       \* failures and restarts so far

sendVars  == <<deadline, dir, direct>>
storeVars == <<cursor, tracked, local, saved>>
scanVars  == <<last, new, safe, work>>
curVars   == <<cur, recs, left, retry>>
checkVars == <<pc, scanVars, curVars>>
vars == <<now, sendVars, storeVars, processing, published, rtc, asked, checkVars,
          faults>>

Row == Chunk \X Nat

PartsOf(m) == {x \in Chunk : MsgOf[x] = m}
Expired(m) == deadline[m] <= now
RowsOf(m, R) == {r \in R : MsgOf[r[1]] = m}

Fault == faults < MaxFaults /\ faults' = faults + 1

-----------------------------------------------------------------------------
Init ==
    /\ now = 1
    /\ deadline = [m \in Message |-> 0]
    /\ dir = {}
    /\ cursor = 0
    /\ tracked = [x \in Chunk |-> 0]
    /\ local = [x \in Chunk |-> "none"]
    /\ saved = {}
    /\ processing = {}
    /\ published = [m \in Message |-> 0]
    /\ rtc = {} /\ direct = {} /\ asked = {}
    /\ pc = [c \in Checker |-> "idle"]
    /\ last = [c \in Checker |-> 0]
    /\ new = [c \in Checker |-> 0]
    /\ safe = [c \in Checker |-> "yes"]
    /\ work = [c \in Checker |-> {}]
    /\ retry = [c \in Checker |-> {}]
    /\ cur = [c \in Checker |-> NoMsg]
    /\ recs = [c \in Checker |-> {}]
    /\ left = [c \in Checker |-> {}]
    /\ faults = 0

-----------------------------------------------------------------------------
(* The sender and Muninn. A row is stamped with Muninn's time; every row of *)
(* a message expires with the message.                                      *)

RegisterChunk(x) ==
    LET m == MsgOf[x]
    IN  /\ \/ /\ deadline[m] = 0
              /\ \E ttl \in TTLs : deadline' = [deadline EXCEPT ![m] = now + ttl]
           \/ ~Expired(m) /\ UNCHANGED deadline
        /\ dir' = dir \cup {<<x, now>>}
        /\ UNCHANGED <<now, direct, storeVars, processing, published, rtc, asked,
                       checkVars, faults>>

\* A direct message; onMessage drops it when rtcMsgChan is full.
DirectMessage(m) ==
    /\ m \in Direct \ direct
    /\ direct' = direct \cup {m}
    /\ rtc' \in {rtc, rtc \cup {m}}
    /\ UNCHANGED <<now, deadline, dir, storeVars, processing, published, asked,
                   checkVars, faults>>

\* Rows with updated > dateFrom that have not expired.
GetChunksByRecipient(dateFrom) ==
    {r \in dir : r[2] > dateFrom /\ ~Expired(MsgOf[r[1]])}

GetChunksByFileID(m) == {r \in RowsOf(m, dir) : ~Expired(m)}

-----------------------------------------------------------------------------
(* checkRecipientMessages: read the cursor, ask Muninn, leave out what is  *)
(* tracked or saved, collect the rest message by message, move the cursor. *)

Go(c, label) == pc' = [pc EXCEPT ![c] = label]

\* The variables of the query are out of use.
Forget(c) ==
    /\ last' = [last EXCEPT ![c] = 0]
    /\ new' = [new EXCEPT ![c] = 0]
    /\ safe' = [safe EXCEPT ![c] = "yes"]

\* A check begins with the cursor as it is.
GetLastChunkCheck(c) ==
    /\ pc[c] = "idle"
    /\ last' = [last EXCEPT ![c] = cursor]
    /\ Go(c, "query")
    /\ UNCHANGED <<now, sendVars, storeVars, processing, published, rtc, asked,
                   new, safe, work, curVars, faults>>

DateFrom(c) == last[c] - 1

\* A failed query ends the check; without rows only the retries are left.
Query(c) ==
    /\ pc[c] = "query"
    /\ LET rows == GetChunksByRecipient(DateFrom(c))
       IN  \/ /\ Fault
              /\ Go(c, "idle")
              /\ Forget(c)
              /\ UNCHANGED work
           \/ /\ rows = {}
              /\ Go(c, "list")
              /\ Forget(c)
              /\ UNCHANGED <<work, faults>>
           \/ /\ rows # {}
              /\ Go(c, "scan")
              /\ work' = [work EXCEPT ![c] = rows]
              /\ \E t \in {last[c]} \cup {r[2] : r \in rows} :
                   /\ t >= last[c] /\ \A r \in rows : r[2] <= t
                   /\ new' = [new EXCEPT ![c] = t]
              /\ safe' = [safe EXCEPT ![c] = "yes"]
              /\ UNCHANGED <<last, faults>>
    /\ UNCHANGED <<now, sendVars, storeVars, processing, published, rtc, asked,
                   curVars>>

\* IsChunkFailed and FindMessageById for every row.
Scan(c) ==
    /\ pc[c] = "scan"
    /\ work' = [work EXCEPT ![c] =
                  {r \in work[c] : tracked[r[1]] = 0 /\ MsgOf[r[1]] \notin saved}]
    /\ Go(c, "collect")
    /\ UNCHANGED <<now, sendVars, storeVars, processing, published, rtc, asked,
                   last, new, safe, curVars, faults>>

\* (A variant of Advance: the cursor moves whatever became of the rows)
AdvanceAlways(c) == new[c] > last[c]

Advance(c) == safe[c] = "yes" /\ new[c] > last[c]

\* SetLastChunkCheck overwrites what a concurrent check has set; its failure is
\* ignored.
SetLastChunkCheck(c) ==
    /\ pc[c] = "collect" /\ work[c] = {}
    /\ \/ /\ cursor' = IF Advance(c) THEN new[c] ELSE cursor
          /\ UNCHANGED faults
       \/ Advance(c) /\ Fault /\ UNCHANGED cursor
    /\ Go(c, "list")
    /\ Forget(c)
    /\ UNCHANGED <<now, sendVars, tracked, local, saved, processing, published,
                   rtc, asked, work, curVars>>

-----------------------------------------------------------------------------
(* collectAndProcessMessage.                                               *)

DeleteFailedMessage(m) ==
    tracked' = [x \in Chunk |-> IF MsgOf[x] = m THEN 0 ELSE tracked[x]]

\* tryProcessMsg and FindMessageById.
Begin(c, m, rows) ==
    /\ processing' = processing \cup {m}
    /\ cur' = [cur EXCEPT ![c] = m]
    /\ recs' = [recs EXCEPT ![c] = rows]
    /\ left' = [left EXCEPT ![c] = rows]
    /\ Go(c, "track")

\* (A variant of Release: the message stays marked as being processed)
ReleaseForgotten(c) ==
    /\ UNCHANGED processing
    /\ cur' = [cur EXCEPT ![c] = NoMsg]
    /\ recs' = [recs EXCEPT ![c] = {}]
    /\ left' = [left EXCEPT ![c] = {}]
    /\ retry' = [retry EXCEPT ![c] = @ \ {cur[c]}]
    /\ Go(c, IF retry[c] = {} THEN "collect" ELSE "retry")

\* releaseProcessMsg, and back to the loop that called.
Release(c) ==
    /\ processing' = processing \ {cur[c]}
    /\ cur' = [cur EXCEPT ![c] = NoMsg]
    /\ recs' = [recs EXCEPT ![c] = {}]
    /\ left' = [left EXCEPT ![c] = {}]
    /\ retry' = [retry EXCEPT ![c] = @ \ {cur[c]}]
    /\ Go(c, IF retry[c] = {} THEN "collect" ELSE "retry")

Unsafe(c) == safe' = [safe EXCEPT ![c] = "no"]

\* (A variant of Busy: a message that another check collects counts as tracked)
BusyIsTracked(c) == UNCHANGED safe

\* collectAndProcessMessage returns false for a message that is being collected.
Busy(c) == Unsafe(c)

\* The next message of the check.
CollectNext(c, m) ==
    LET rows == RowsOf(m, work[c])
    IN  /\ pc[c] = "collect" /\ rows # {}
        /\ work' = [work EXCEPT ![c] = @ \ rows]
        /\ \/ /\ m \in processing
              /\ Busy(c)
              /\ UNCHANGED <<processing, tracked, pc, cur, recs, left>>
           \/ /\ m \notin processing /\ m \in saved
              /\ DeleteFailedMessage(m)
              /\ UNCHANGED <<processing, safe, pc, cur, recs, left>>
           \/ /\ m \notin processing /\ m \notin saved
              /\ Begin(c, m, rows)
              /\ UNCHANGED <<safe, tracked>>
        /\ UNCHANGED <<now, sendVars, cursor, local, saved, published, rtc, asked,
                       last, new, retry, faults>>

\* StoreFailedChunk for the next row: INSERT OR IGNORE with the row's lifetime
\* from now. A failure makes the message untracked.
StoreFailedChunk(c) ==
    /\ pc[c] = "track"
    /\ \E r \in left[c] :
         \/ /\ tracked' = [tracked EXCEPT ![r[1]] =
                             IF @ = 0 THEN now + (deadline[cur[c]] - r[2]) ELSE @]
            /\ left' = [left EXCEPT ![c] = @ \ {r}]
            /\ Go(c, IF left'[c] = {} THEN "assemble" ELSE "track")
            /\ UNCHANGED <<processing, safe, cur, recs, retry, faults>>
         \/ /\ Fault
            /\ Unsafe(c)
            /\ Release(c)
            /\ UNCHANGED tracked
    /\ UNCHANGED <<now, sendVars, cursor, local, saved, published, rtc, asked,
                   last, new, work>>

Complete(c) ==
    \A x \in PartsOf(cur[c]) : local[x] = "good" /\ \E r \in recs[c] : r[1] = x

\* Chunks that are not there are requested; bytes with a wrong hash are deleted,
\* and requested when another row of the chunk follows. The message is complete
\* when every chunk is there; the sender may not be found, the message may not
\* decrypt.
Assemble(c) ==
    /\ pc[c] = "assemble"
    /\ LET chunks == {r[1] : r \in recs[c]}
           bad == {x \in chunks : local[x] = "bad"}
           missing == {x \in chunks : local[x] = "none"}
           again == {x \in bad : \E r, s \in recs[c] : r # s /\ r[1] = x /\ s[1] = x}
       IN  /\ asked' = asked \cup missing \cup again
           /\ local' = [x \in Chunk |-> IF x \in bad THEN "none" ELSE local[x]]
    /\ \/ /\ Complete(c) /\ cur[c] \in Readable
          /\ Go(c, "save")
          /\ UNCHANGED <<processing, cur, recs, left, retry, faults>>
       \/ /\ ~(Complete(c) /\ cur[c] \in Readable)
          /\ Release(c)
          /\ UNCHANGED faults
       \/ /\ Complete(c) /\ Fault
          /\ Release(c)
    /\ UNCHANGED <<now, sendVars, cursor, tracked, saved, published, rtc, scanVars>>

\* (A variant of SaveMessage: INSERT OR IGNORE, a conflict is no error)
SaveMessageOrIgnore(c) ==
    /\ pc[c] = "save"
    /\ saved' = saved \cup {cur[c]}
    /\ Go(c, "publish")
    /\ UNCHANGED <<now, sendVars, cursor, tracked, local, published, rtc, asked,
                   scanVars, processing, curVars, faults>>

\* SaveMessage: the primary key refuses a message that came directly meanwhile.
SaveMessage(c) ==
    /\ pc[c] = "save"
    /\ \/ /\ cur[c] \notin saved
          /\ saved' = saved \cup {cur[c]}
          /\ Go(c, "publish")
          /\ UNCHANGED <<processing, cur, recs, left, retry, faults>>
       \/ cur[c] \in saved /\ Release(c) /\ UNCHANGED <<saved, faults>>
       \/ Fault /\ Release(c) /\ UNCHANGED saved
    /\ UNCHANGED <<now, sendVars, cursor, tracked, local, published, rtc, asked,
                   scanVars>>

Publish(c) ==
    /\ pc[c] = "publish"
    /\ DeleteFailedMessage(cur[c])
    /\ published' = [published EXCEPT ![cur[c]] = @ + 1]
    /\ Release(c)
    /\ UNCHANGED <<now, sendVars, cursor, local, saved, rtc, asked, scanVars,
                   faults>>

-----------------------------------------------------------------------------
(* retryFailedChunks.                                                      *)

Live(x) == tracked[x] > now

\* The rows that have expired are deleted, the messages of the others retried.
ListFailedChunks(c) ==
    /\ pc[c] = "list"
    /\ \/ /\ tracked' = [x \in Chunk |-> IF Live(x) THEN tracked[x] ELSE 0]
          /\ retry' = [retry EXCEPT ![c] = {MsgOf[x] : x \in {y \in Chunk : Live(y)}}]
          /\ Go(c, "retry")
          /\ UNCHANGED faults
       \/ Fault /\ Go(c, "idle") /\ UNCHANGED <<tracked, retry>>
    /\ UNCHANGED <<now, sendVars, cursor, local, saved, processing, published,
                   rtc, asked, scanVars, cur, recs, left>>

\* A retry asks for all rows of the message.
RetryNext(c, m) ==
    LET rows == GetChunksByFileID(m)
        skip == retry' = [retry EXCEPT ![c] = @ \ {m}]
    IN  /\ pc[c] = "retry" /\ m \in retry[c]
        /\ \/ /\ rows = {} \/ m \in processing
              /\ skip
              /\ UNCHANGED <<processing, tracked, pc, cur, recs, left, faults>>
           \/ /\ Fault
              /\ skip
              /\ UNCHANGED <<processing, tracked, pc, cur, recs, left>>
           \/ /\ rows # {} /\ m \notin processing /\ m \in saved
              /\ skip
              /\ DeleteFailedMessage(m)
              /\ UNCHANGED <<processing, pc, cur, recs, left, faults>>
           \/ /\ rows # {} /\ m \notin processing /\ m \notin saved
              /\ Begin(c, m, rows)
              /\ UNCHANGED <<retry, tracked, faults>>
        /\ UNCHANGED <<now, sendVars, cursor, local, saved, published, rtc, asked,
                       scanVars>>

CheckDone(c) ==
    /\ pc[c] = "retry" /\ retry[c] = {}
    /\ Go(c, "idle")
    /\ UNCHANGED <<now, sendVars, storeVars, processing, published, rtc, asked,
                   scanVars, curVars, faults>>

-----------------------------------------------------------------------------
(* Bytes, direct messages, housekeeping, the clock and restarts.           *)

\* (A variant of ChunkData: the bytes end the tracking of their chunk)
ChunkDataUntracks(x) ==
    /\ x \in asked
    /\ asked' = asked \ {x}
    /\ local' = [local EXCEPT ![x] = "good"]
    /\ tracked' = [tracked EXCEPT ![x] = 0]
    /\ UNCHANGED <<now, sendVars, cursor, saved, processing, published, rtc,
                   checkVars, faults>>

\* handleChunkStore for the answer to a request, which carries no hash: the
\* bytes may be wrong. An answer may be lost.
ChunkData(x) ==
    /\ x \in asked
    /\ asked' = asked \ {x}
    /\ \/ local' = [local EXCEPT ![x] = "good"] /\ UNCHANGED faults
       \/ local' = [local EXCEPT ![x] = "bad"] /\ Fault
       \/ UNCHANGED local /\ Fault
    /\ UNCHANGED <<now, sendVars, cursor, tracked, saved, processing, published,
                   rtc, checkVars>>

\* A member of a group chat may be chosen as storage of the group's own chunks: a
\* batch carries the hashes, and its chunks are stored when they match.
storeChunkBatch(x) ==
    /\ ~Expired(MsgOf[x]) /\ \E r \in dir : r[1] = x
    /\ local[x] # "good"
    /\ local' = [local EXCEPT ![x] = "good"]
    /\ UNCHANGED <<now, sendVars, cursor, tracked, saved, processing, published,
                   rtc, asked, checkVars, faults>>

\* processRTCMessages: a message that cannot be saved is not published.
processRTCMessages(m) ==
    /\ m \in rtc
    /\ rtc' = rtc \ {m}
    /\ \/ /\ m \notin saved
          /\ saved' = saved \cup {m}
          /\ published' = [published EXCEPT ![m] = @ + 1]
          /\ UNCHANGED faults
       \/ m \in saved /\ UNCHANGED <<saved, published, faults>>
       \/ Fault /\ UNCHANGED <<saved, published>>
    /\ UNCHANGED <<now, sendVars, cursor, tracked, local, processing, asked,
                   checkVars>>

\* chunkCleanupLoop: expired copies (an answer to a request is kept for a week,
\* so a copy may outlive its message), the copies of saved messages, and expired
\* rows of failed_chunks.
chunkCleanupLoop ==
    /\ \E old \in SUBSET {x \in Chunk : Expired(MsgOf[x])} :
         local' = [x \in Chunk |-> IF x \in old \/ MsgOf[x] \in saved
                                   THEN "none" ELSE local[x]]
    /\ tracked' = [x \in Chunk |-> IF Live(x) THEN tracked[x] ELSE 0]
    /\ <<local', tracked'>> # <<local, tracked>>
    /\ UNCHANGED <<now, sendVars, cursor, saved, processing, published, rtc,
                   asked, checkVars, faults>>

\* The node restarts with what SQLite holds.
Crash ==
    /\ Fault
    /\ processing' = {} /\ rtc' = {} /\ asked' = {}
    /\ pc' = [c \in Checker |-> "idle"]
    /\ last' = [c \in Checker |-> 0]
    /\ new' = [c \in Checker |-> 0]
    /\ safe' = [c \in Checker |-> "yes"]
    /\ work' = [c \in Checker |-> {}]
    /\ retry' = [c \in Checker |-> {}]
    /\ cur' = [c \in Checker |-> NoMsg]
    /\ recs' = [c \in Checker |-> {}]
    /\ left' = [c \in Checker |-> {}]
    /\ UNCHANGED <<now, sendVars, storeVars, published>>

Tick ==
    /\ now < MaxTime
    /\ now' = now + 1
    /\ UNCHANGED <<sendVars, storeVars, processing, published, rtc, asked,
                   checkVars, faults>>

-----------------------------------------------------------------------------
Step(c) ==
    \/ Query(c) \/ Scan(c) \/ SetLastChunkCheck(c)
    \/ \E m \in Message : CollectNext(c, m) \/ RetryNext(c, m)
    \/ StoreFailedChunk(c) \/ Assemble(c) \/ SaveMessage(c) \/ Publish(c)
    \/ ListFailedChunks(c) \/ CheckDone(c)

Next ==
    \/ \E x \in Chunk : RegisterChunk(x) \/ ChunkData(x) \/ storeChunkBatch(x)
    \/ \E m \in Message : DirectMessage(m) \/ processRTCMessages(m)
    \/ \E c \in Checker : GetLastChunkCheck(c) \/ Step(c)
    \/ chunkCleanupLoop
    \/ Crash
    \/ Tick

Spec == Init /\ [][Next]_vars

\* The ticker starts a check again and again, a check that has started goes on,
\* and what was asked for arrives unless a failure prevents it.
FairSpec ==
    /\ Spec
    /\ WF_vars(GetLastChunkCheck(Loop))
    /\ \A c \in Checker : WF_vars(Step(c))
    /\ \A x \in Chunk : WF_vars(ChunkData(x))

-----------------------------------------------------------------------------
(* Properties.                                                             *)

\* Every variable has its type.
TypeOK ==
    /\ now \in Nat
    /\ deadline \in [Message -> Nat]
    /\ dir \subseteq Row
    /\ cursor \in Nat
    /\ tracked \in [Chunk -> Nat]
    /\ local \in [Chunk -> {"none", "good", "bad"}]
    /\ saved \subseteq Message
    /\ processing \subseteq Message
    /\ published \in [Message -> Nat]
    /\ rtc \subseteq Message /\ direct \subseteq Message
    /\ asked \subseteq Chunk
    /\ pc \in [Checker -> {"idle", "query", "scan", "collect", "track", "assemble",
                           "save", "publish", "list", "retry"}]
    /\ last \in [Checker -> Nat]
    /\ new \in [Checker -> Nat]
    /\ safe \in [Checker -> {"yes", "no"}]
    /\ work \in [Checker -> SUBSET Row]
    /\ retry \in [Checker -> SUBSET Message]
    /\ cur \in [Checker -> Message \cup {NoMsg}]
    /\ recs \in [Checker -> SUBSET Row]
    /\ left \in [Checker -> SUBSET Row]
    /\ faults \in Nat

\* A row of the directory is accounted for: its message is saved, or a row of
\* failed_chunks makes the node come back to it as long as it can be fetched.
Handled(r) == MsgOf[r[1]] \in saved \/ Live(r[1]) \/ Expired(MsgOf[r[1]])

\* The cursor passes nothing: whatever was registered before it is saved, tracked
\* or expired, although checks run concurrently, overwrite each other's cursor,
\* fail half way and restart. (checkRecipientMessages, SetLastChunkCheck)
NothingSkipped == \A r \in dir : r[2] < cursor => Handled(r)

\* A message is handed to the subscribers at most once, and only once it is in the
\* history, whether it comes as chunks, directly or both ways. (SaveMessage before
\* the subscribers in collectAndProcessMessage and processRTCMessages)
PublishedOnce ==
    \A m \in Message : published[m] <= 1 /\ (published[m] = 1 => m \in saved)

\* A retry record is kept through validation, sender lookup, decryption and the
\* message transaction: it goes only when its message is saved or its time over.
\* (DeleteFailedMessage, DeleteFailedChunk, DeleteExpiredFailedChunks)
RetryKept ==
    [][\A x \in Chunk : tracked[x] # 0 /\ tracked'[x] = 0 =>
          MsgOf[x] \in saved \/ ~Live(x)]_vars

Listed(m) == \A x \in PartsOf(m) : \E r \in dir : r[1] = x

\* A readable message whose chunks are all registered is saved before it expires:
\* no lost answer, wrong bytes, failed call, concurrent check or restart strands it.
EventuallySaved ==
    \A m \in Readable : Listed(m) ~> m \in saved \/ Expired(m)
=============================================================================
