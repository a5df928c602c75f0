------------------------------ MODULE Delivery ------------------------------
(***************************************************************************)
(* The durable outbox of a Huginn node (the "sender"): an accepted message *)
(* is committed to SQLite together with all its chunks, and a single       *)
(* delivery worker places every chunk on storage peers, retrying until a   *)
(* peer confirms that it committed the bytes or the chunk's TTL ends.      *)
(*                                                                         *)
(* internal/messenger/{outgoing,chunk_delivery,chunks}.go,                 *)
(* internal/webrtc/chunk_ack.go, internal/store/{outgoingStore,            *)
(* pendingChunkStore,chunkStore,chunkExpiry}.go                            *)
(*                                                                         *)
(* Time is counted in ticks of half a second, so that the rounding of a    *)
(* remaining lifetime to whole seconds is visible.                         *)
(***************************************************************************)
EXTENDS Integers, FiniteSets

CONSTANTS
    Peer,         \* endpoint IDs of the other nodes
    Self,         \* endpoint ID of the sender
    Message,      \* message UIDs
    File,         \* file IDs: a message's own UID and its attachments' IDs
    Chunk,        \* chunks: one (file ID, index) pair each
    MsgOf,        \* [Chunk -> Message]: the message a chunk is queued with
    FileOf,       \* [Chunk -> File]
    TextFile,     \* [Message -> File]: the file ID that is the message's UID
    Key,          \* keys of users and groups (login or uid, and signature key),
                  \* and the empty string
    KeyOf,        \* [Peer -> Key]: the user an endpoint belongs to
    SelfKey,      \* the sender's user key
    RecipientOf,  \* [File -> Key]: recipient_id; empty for an attachment
    MembersOf,    \* [Key -> SUBSET Key]: the users that have a group's chat; none
                  \* for a user's key
    Legacy,       \* peers that store a batch and never confirm it
    TTLs,         \* the ttl_seconds a caller may pass (<= 0: the default)
    DefaultTTL,   \* config.ChunkTTLSeconds("1w")
    BatchSize,    \* chunkDeliveryBatchSize
    ReqId,        \* batch request IDs
    NoReq,        \* no request is waited for
    MaxTime,      \* bound: last tick of the clock
    MaxFaults     \* bound: failures of the environment in one behaviour

ASSUME DeliveryAssumption ==
    /\ Self \notin Peer
    /\ Legacy \subseteq Peer
    /\ MsgOf \in [Chunk -> Message]
    /\ FileOf \in [Chunk -> File]
    /\ TextFile \in [Message -> File]
    /\ KeyOf \in [Peer -> Key]
    /\ RecipientOf \in [File -> Key]
    /\ MembersOf \in [Key -> SUBSET Key]
    /\ NoReq \notin ReqId
    /\ TTLs \subseteq Int
    /\ DefaultTTL \in Nat \ {0}
    /\ BatchSize \in Nat \ {0}
    /\ MaxTime \in Nat
    /\ MaxFaults \in Nat

VARIABLES
    now,       \* the clock, in half seconds
    history,   \* messages: the sender's chat history
    own,       \* chunks: the sender's own copies
    pend,      \* pending_chunks: "none" (no row), "unplaced" or "placed"
    deadline,  \* created_at + ttl_seconds of a chunk's rows, 0 before it exists
    jobs,      \* messages with a deliverOutgoing job in the worker pool
    loaded,    \* the queue as pendingChunkLoop read it, {} when it sleeps
    holder,    \* who holds deliveryMu: "none", "loop" or "job"
    pc,        \* where the holder of deliveryMu is: "self" advertising its own
               \* copies, "wait" for an ACK, "next" at the head of the loops
    work,      \* its chunks of the recipients still to serve
    group,     \* its chunks for the recipient it serves
    files,     \* files of group still to be handled in the current loop
    peers,     \* storage candidates still to be tried
    peer,      \* the candidate being tried
    parts,     \* chunks of the current file not yet put in a batch
    batch,     \* chunks of the batch that awaits its ACK
    req,       \* its request ID
    result,    \* what its waiter received: "none", "ok" or "error"
    net,       \* batches and ACKs in flight
    stored,    \* [Peer -> [Chunk -> tick]]: when a peer's copy expires, 0: none
    dir,       \* Muninn: [location -> [Chunk -> second]] a row expires, 0: none
    online,    \* peers with an open data channel
    learned,   \* <<peer, message>>: what storage peers have in their own history
    faults     \* failures so far

storeVars  == <<history, own, pend, deadline>>
runVars    == <<holder, pc, work, group, files, peers, peer, parts>>
waitVars   == <<batch, req, result>>
remoteVars == <<stored, learned>>
vars == <<now, storeVars, jobs, loaded, runVars, waitVars, net, remoteVars,
          dir, online, faults>>

-----------------------------------------------------------------------------
(* Time and lifetimes.                                                     *)

Expired(c) == deadline[c] <= now

\* math.Ceil: a lifetime is rounded up to whole seconds.
CeilSeconds(ticks) == (ticks + 1) \div 2
FloorSeconds(ticks) == ticks \div 2

remainingChunkTTL(c) == CeilSeconds(deadline[c] - now)

EffectiveTTL(ttl) == IF ttl <= 0 THEN DefaultTTL ELSE ttl

PartsOf(m) == {c \in Chunk : MsgOf[c] = m}
ChunksOf(f, S) == {c \in S : FileOf[c] = f}
Recipient(c) == RecipientOf[FileOf[c]]

\* The sender's other devices: they learn its history by state synchronisation.
Replica == {p \in Peer : KeyOf[p] = SelfKey}

\* Members of the group a message is for: its chunks are stored at them as well,
\* as their user keys are not the recipient, and they collect it themselves.
Member(m) == {p \in Peer : KeyOf[p] \in MembersOf[RecipientOf[TextFile[m]]]}

\* A failure of the environment uses up one of MaxFaults.
Fault == faults < MaxFaults /\ faults' = faults + 1
FaultIf(bad) == IF bad THEN Fault ELSE faults' = faults

BatchMsg == [type : {"batch"}, req : ReqId, peer : Peer, chunks : SUBSET Chunk,
             ttl : [Chunk -> Int]]
AckMsg == [type : {"ack"}, req : ReqId, peer : Peer, ok : BOOLEAN]

-----------------------------------------------------------------------------
Init ==
    /\ now = 0
    /\ history = {}
    /\ own = {}
    /\ pend = [c \in Chunk |-> "none"]
    /\ deadline = [c \in Chunk |-> 0]
    /\ jobs = {}
    /\ loaded = {}
    /\ holder = "none"
    /\ pc = "next"
    /\ work = {} /\ group = {} /\ files = {} /\ peers = {} /\ parts = {}
    /\ peer = Self
    /\ batch = {}
    /\ req = NoReq
    /\ result = "none"
    /\ net = {}
    /\ stored = [p \in Peer |-> [c \in Chunk |-> 0]]
    /\ dir = [n \in Peer \cup {Self} |-> [c \in Chunk |-> 0]]
    /\ online = {}
    /\ learned = {}
    /\ faults = 0

-----------------------------------------------------------------------------
(* Accepting a message.                                                    *)

\* QueueOutgoing: the message and every chunk, in one transaction.
QueueOutgoing(m, ttl) ==
    /\ history' = history \cup {m}
    /\ own' = own \cup PartsOf(m)
    /\ pend' = [c \in Chunk |-> IF c \in PartsOf(m) THEN "unplaced" ELSE pend[c]]
    /\ deadline' = [c \in Chunk |-> IF c \in PartsOf(m) THEN now + 2 * ttl
                                                      ELSE deadline[c]]

\* prepareOutgoing: the text and its attachments under a fresh message UID.
prepareOutgoing(m, ttl) ==
    /\ m \notin history
    /\ QueueOutgoing(m, EffectiveTTL(ttl))

\* SendMessage: trySubmit may find the pool full and drop the delivery job.
SendMessage(m, ttl) ==
    /\ prepareOutgoing(m, ttl)
    /\ jobs' \in {jobs, jobs \cup {m}}
    /\ UNCHANGED <<now, loaded, runVars, waitVars, net, remoteVars, dir, online,
                   faults>>

-----------------------------------------------------------------------------
(* Starting a run: distributeChunks under deliveryMu.TryLock.              *)

Lock(who, chunks) ==
    /\ holder = "none"
    /\ holder' = who
    /\ pc' = "next"
    /\ work' = {c \in chunks : ~Expired(c)}

\* A deliverOutgoing job runs with the chunks it was created with, whatever
\* became of them since; it gives up when the lock is taken.
deliverOutgoing(m) ==
    /\ m \in jobs
    /\ jobs' = jobs \ {m}
    /\ \/ Lock("job", PartsOf(m))
       \/ holder # "none" /\ UNCHANGED <<holder, pc, work>>
    /\ UNCHANGED <<now, storeVars, loaded, group, files, peers, peer, parts,
                   waitVars, net, remoteVars, dir, online, faults>>

\* pendingChunkLoop reads the queue before it asks for the lock.
GetUnplacedChunks ==
    /\ holder # "loop"
    /\ loaded = {}
    /\ loaded' = {c \in Chunk : pend[c] = "unplaced"}
    /\ UNCHANGED <<now, storeVars, jobs, runVars, waitVars, net, remoteVars, dir,
                   online, faults>>

distributePendingChunks ==
    /\ loaded # {}
    /\ loaded' = {}
    /\ \/ Lock("loop", loaded)
       \/ holder # "none" /\ UNCHANGED <<holder, pc, work>>
    /\ UNCHANGED <<now, storeVars, jobs, group, files, peers, peer, parts,
                   waitVars, net, remoteVars, dir, online, faults>>

-----------------------------------------------------------------------------
(* One run: distributeChunksForRecipient for each recipient. Its loops nest *)
(* as batches of a file, files of a peer, peers of a recipient, recipients; *)
(* a loop goes on when the ones inside it have nothing left.                *)

NoBatchLeft == holder # "none" /\ pc = "next" /\ parts = {}
NoFileLeft == NoBatchLeft /\ files = {}
NoPeerLeft == NoFileLeft /\ peers = {}

\* The next recipient's chunks; the loop over its files starts.
NextRecipient ==
    /\ NoPeerLeft /\ work # {}
    /\ \E c \in work :
         /\ group' = {d \in work : Recipient(d) = Recipient(c)}
         /\ files' = {FileOf[d] : d \in group'}
         /\ work' = work \ group'
    /\ pc' = "self"
    /\ UNCHANGED <<now, storeVars, jobs, loaded, holder, peers, peer, parts,
                   waitVars, net, remoteVars, dir, online, faults>>

\* The run's local variables are gone with it.
EndRun ==
    /\ holder' = "none"
    /\ pc' = "next"
    /\ work' = {} /\ group' = {} /\ files' = {} /\ peers' = {} /\ parts' = {}
    /\ peer' = Self

\* (A variant of Unlock: deliveryMu stays locked after the run)
UnlockForgotten ==
    /\ NoPeerLeft /\ work = {}
    /\ UNCHANGED vars

Unlock ==
    /\ NoPeerLeft /\ work = {}
    /\ EndRun
    /\ UNCHANGED <<now, storeVars, jobs, loaded, waitVars, net, remoteVars, dir,
                   online, faults>>

\* The chunks registerChunkLocation finds without a live row and still alive.
\* When the lookup fails every live chunk counts as missing.
Missing(f, loc, found) ==
    {c \in ChunksOf(f, group) :
        ~Expired(c) /\ ~(found /\ dir[loc][c] > FloorSeconds(now))}

\* The rows of one RegisterChunks call; a chunk's rows are as good as the one
\* that lives longest.
WithRows(loc, S) ==
    [dir EXCEPT ![loc] = [c \in Chunk |->
        LET expiry == FloorSeconds(now) + remainingChunkTTL(c)
        IN  IF c \in S /\ expiry > dir[loc][c] THEN expiry ELSE dir[loc][c]]]

\* registerChunkLocation returning ok: nothing to register, or the rows were
\* registered. The lookup or the registration may fail, and the answer to an
\* applied registration may be lost.
registerChunkLocation(f, loc, ok) ==
    \E found \in BOOLEAN :
      LET missing == Missing(f, loc, found)
      IN  \/ /\ ok /\ missing = {}
             /\ dir' = dir
             /\ FaultIf(~found)
          \/ /\ ok /\ missing # {}
             /\ dir' = WithRows(loc, missing)
             /\ FaultIf(~found)
          \/ /\ ~ok /\ missing # {}
             /\ dir' \in {dir, WithRows(loc, missing)}
             /\ Fault

\* (A variant of RegisterSelf: nothing to advertise to without connected peers)
RegisterSelfWithPeers ==
    /\ holder # "none" /\ pc = "self"
    /\ \E f \in files, ok \in BOOLEAN :
         /\ IF online = {} THEN UNCHANGED <<dir, faults>>
                           ELSE registerChunkLocation(f, Self, ok)
         /\ files' = files \ {f}
    /\ UNCHANGED <<now, storeVars, jobs, loaded, holder, pc, work, group, peers,
                   peer, parts, waitVars, net, remoteVars, online>>

\* The own copy is advertised file by file; a failure is only logged.
RegisterSelf ==
    /\ holder # "none" /\ pc = "self"
    /\ \E f \in files, ok \in BOOLEAN :
         /\ registerChunkLocation(f, Self, ok)
         /\ files' = files \ {f}
    /\ UNCHANGED <<now, storeVars, jobs, loaded, holder, pc, work, group, peers,
                   peer, parts, waitVars, net, remoteVars, online>>

\* (A variant of GetBestPeers: the recipient's own devices are not left out)
GetBestPeersAll ==
    /\ holder # "none" /\ pc = "self" /\ files = {}
    /\ \E P \in SUBSET (Peer \cup {Self}) :
         /\ peers' = P \ {Self}
         /\ FaultIf(~(online \subseteq P))
    /\ pc' = "next"
    /\ UNCHANGED <<now, storeVars, jobs, loaded, holder, work, group, files, peer,
                   parts, waitVars, net, remoteVars, dir, online>>

\* GetBestPeers or GetBestThickPeers, or the locally known peers: any of the
\* registered nodes. Leaving out a connected one is the environment's failure. The
\* sender itself and the recipient's own devices are not storage candidates.
GetBestPeers ==
    /\ holder # "none" /\ pc = "self" /\ files = {}
    /\ \E P \in SUBSET (Peer \cup {Self}) :
         /\ peers' = {p \in P \ {Self} : \A c \in group : KeyOf[p] # Recipient(c)}
         /\ FaultIf(~(online \subseteq P))
    /\ pc' = "next"
    /\ UNCHANGED <<now, storeVars, jobs, loaded, holder, work, group, files, peer,
                   parts, waitVars, net, remoteVars, dir, online>>

\* The next candidate, when a data channel to it is open or can be opened.
NextPeer ==
    /\ NoFileLeft
    /\ \E p \in peers \cap online :
         /\ peer' = p
         /\ peers' = peers \ {p}
    /\ files' = {FileOf[c] : c \in group}
    /\ UNCHANGED <<now, storeVars, jobs, loaded, holder, pc, work, group, parts,
                   waitVars, net, remoteVars, dir, online, faults>>

\* A candidate that cannot be connected is skipped.
SkipPeer ==
    /\ NoFileLeft
    /\ \E p \in peers \ online : peers' = peers \ {p}
    /\ UNCHANGED <<now, storeVars, jobs, loaded, holder, pc, work, group, files,
                   peer, parts, waitVars, net, remoteVars, dir, online, faults>>

\* (A variant of RegisterPeer: a failed registration does not keep the bytes back)
RegisterPeerIgnored ==
    /\ NoBatchLeft
    /\ \E f \in files, ok \in BOOLEAN :
         /\ registerChunkLocation(f, peer, ok)
         /\ files' = files \ {f}
         /\ parts' = ChunksOf(f, group)
    /\ UNCHANGED <<now, storeVars, jobs, loaded, holder, pc, work, group, peers,
                   peer, waitVars, net, remoteVars, online>>

\* The next file of the group: its location at this peer is registered before
\* any byte is sent; when that fails the peer does not get this file.
RegisterPeer ==
    /\ NoBatchLeft
    /\ \E f \in files, ok \in BOOLEAN :
         /\ registerChunkLocation(f, peer, ok)
         /\ files' = files \ {f}
         /\ parts' = IF ok THEN ChunksOf(f, group) ELSE {}
    /\ UNCHANGED <<now, storeVars, jobs, loaded, holder, pc, work, group, peers,
                   peer, waitVars, net, remoteVars, online>>

\* SendChunkStoreBatchConfirmed up to its wait: at most BatchSize chunks, those
\* that expired meanwhile left out, under a fresh request ID, each with the
\* lifetime it has left. Nothing is sent for an empty batch or on a channel
\* that has closed.
SendBatch ==
    /\ holder # "none" /\ pc = "next" /\ parts # {}
    /\ \E S \in SUBSET parts :
         /\ \/ Cardinality(S) = BatchSize
            \/ S = parts /\ Cardinality(S) < BatchSize
         /\ parts' = parts \ S
         /\ LET live == {c \in S : ~Expired(c)}
            IN  IF live = {} \/ peer \notin online
                THEN UNCHANGED <<pc, waitVars, net>>
                ELSE \E r \in ReqId :
                       /\ \A msg \in net : msg.req # r
                       /\ net' = net \cup
                            {[type |-> "batch", req |-> r, peer |-> peer,
                              chunks |-> live,
                              ttl |-> [c \in Chunk |-> remainingChunkTTL(c)]]}
                       /\ req' = r
                       /\ batch' = live
                       /\ result' = "none"
                       /\ pc' = "wait"
    /\ UNCHANGED <<now, storeVars, jobs, loaded, holder, work, group, files,
                   peers, peer, remoteVars, dir, online, faults>>

-----------------------------------------------------------------------------
(* The confirmation.                                                       *)

\* The waiter is removed whatever ended the wait.
DeleteWaiter ==
    /\ batch' = {}
    /\ req' = NoReq
    /\ result' = "none"

Waiting(r, p) == holder # "none" /\ pc = "wait" /\ req = r /\ peer = p

\* (A variant of acceptChunkStoreAck: any ACK of the peer counts)
acceptChunkStoreAckOfPeer(msg) ==
    /\ msg \in net /\ msg.type = "ack"
    /\ net' = net \ {msg}
    /\ result' = IF Waiting(req, msg.peer) /\ result = "none"
                 THEN IF msg.ok THEN "ok" ELSE "error"
                 ELSE result
    /\ UNCHANGED <<now, storeVars, jobs, loaded, runVars, batch, req, remoteVars,
                   dir, online, faults>>

\* acceptChunkStoreAck: only the request that is waited for, only from its peer.
acceptChunkStoreAck(msg) ==
    /\ msg \in net /\ msg.type = "ack"
    /\ net' = net \ {msg}
    /\ result' = IF Waiting(msg.req, msg.peer) /\ result = "none"
                 THEN IF msg.ok THEN "ok" ELSE "error"
                 ELSE result
    /\ UNCHANGED <<now, storeVars, jobs, loaded, runVars, batch, req, remoteVars,
                   dir, online, faults>>

\* MarkChunkPlaced for each chunk of a confirmed batch. A row the cleanup has
\* removed is not there to be marked; an update may fail and is only logged.
MarkChunkPlaced ==
    /\ holder # "none" /\ pc = "wait" /\ result = "ok"
    /\ \E marked \in SUBSET batch :
         /\ pend' = [c \in Chunk |-> IF c \in marked /\ pend[c] # "none"
                                     THEN "placed" ELSE pend[c]]
         /\ FaultIf(marked # batch)
    /\ DeleteWaiter
    /\ pc' = "next"
    /\ UNCHANGED <<now, history, own, deadline, jobs, loaded, holder, work, group,
                   files, peers, peer, parts, net, remoteVars, dir, online>>

\* The peer refused, or the five seconds are over: the chunks stay queued. A
\* timer that beats an answer still under way is the environment's failure.
BatchFailed ==
    /\ holder # "none" /\ pc = "wait"
    /\ FaultIf(result # "error" /\ (result = "ok" \/ \E msg \in net : msg.req = req))
    /\ DeleteWaiter
    /\ pc' = "next"
    /\ UNCHANGED <<now, storeVars, jobs, loaded, holder, work, group, files,
                   peers, peer, parts, net, remoteVars, dir, online>>

-----------------------------------------------------------------------------
(* The storage peer.                                                       *)

\* handleChunkStore: a copy lives from now for the lifetime it came with.
handleChunkStore(p, chunks, ttl) ==
    stored' = [stored EXCEPT ![p] = [c \in Chunk |->
                 IF c \in chunks THEN now + 2 * EffectiveTTL(ttl[c])
                                 ELSE stored[p][c]]]

\* storeChunkBatch: the chunks are stored one by one through handleChunkStore; the
\* first failure ends the batch. The answer is sent after the last commit. A
\* legacy peer never answers.
storeChunkBatch(msg) ==
    /\ msg \in net /\ msg.type = "batch"
    /\ \E done \in SUBSET msg.chunks :
         /\ handleChunkStore(msg.peer, done, msg.ttl)
         /\ FaultIf(done # msg.chunks)
         /\ net' = (net \ {msg}) \cup
                     IF msg.peer \in Legacy THEN {}
                     ELSE {[type |-> "ack", req |-> msg.req, peer |-> msg.peer,
                            ok |-> done = msg.chunks]}
    /\ UNCHANGED <<now, storeVars, jobs, loaded, runVars, waitVars, learned, dir,
                   online>>

\* The peer has the chunk's message in its own history, and the chunk is one of
\* its text.
HasRead(p, c) == <<p, MsgOf[c]>> \in learned /\ FileOf[c] = TextFile[MsgOf[c]]

\* (A variant of PeerCleanup: attachments go with the text)
PeerCleanupWhole(p) ==
    /\ stored' = [stored EXCEPT ![p] = [c \in Chunk |->
                     IF stored[p][c] <= now \/ <<p, MsgOf[c]>> \in learned
                     THEN 0 ELSE stored[p][c]]]
    /\ stored' # stored
    /\ UNCHANGED <<now, storeVars, jobs, loaded, runVars, waitVars, net, learned,
                   dir, online, faults>>

\* chunkCleanupLoop of a peer: expired copies, and the copies of a message in
\* its own history that it does not itself send, confirmed or not. The sender
\* and Muninn are not told.
PeerCleanup(p) ==
    /\ stored' = [stored EXCEPT ![p] = [c \in Chunk |->
                     IF stored[p][c] <= now \/ HasRead(p, c) THEN 0 ELSE stored[p][c]]]
    /\ stored' # stored
    /\ UNCHANGED <<now, storeVars, jobs, loaded, runVars, waitVars, net, learned,
                   dir, online, faults>>

\* The peer saves the message in its history.
Learns(p, m) ==
    /\ learned' = learned \cup {<<p, m>>}
    /\ learned' # learned
    /\ UNCHANGED <<now, storeVars, jobs, loaded, runVars, waitVars, net, stored,
                   dir, online, faults>>

\* A node of the user has the message.
KnownTo(k, m) ==
    \/ k = SelfKey /\ m \in history
    \/ \E q \in Peer : KeyOf[q] = k /\ <<q, m>> \in learned

\* A replica of a node that has the message receives it by state synchronisation.
ReplicaLearns(p, m) ==
    /\ KnownTo(KeyOf[p], m)
    /\ Learns(p, m)

\* GetChunk: the copy in chunks, or a queue row that has not expired.
GetChunk(c) == c \in own \/ (pend[c] # "none" /\ ~Expired(c))

\* Muninn still names a node for the chunk, and that node has it.
Available(c) ==
    \E n \in Peer \cup {Self} :
        /\ dir[n][c] > FloorSeconds(now)
        /\ IF n = Self THEN GetChunk(c) ELSE stored[n][c] # 0

\* A member of the group finds every chunk of the text, from the sender or from
\* storage peers, itself among them: checkPendingMessages.
MemberCollects(p, m) ==
    /\ p \in Member(m)
    /\ \A c \in ChunksOf(TextFile[m], PartsOf(m)) : Available(c)
    /\ m \in history
    /\ Learns(p, m)

-----------------------------------------------------------------------------
(* Housekeeping, the network, the clock and crashes.                       *)

\* The copies left when a message of the history has no queue row for its file.
DeleteChunksWithMessage(copies, queue) ==
    {c \in copies :
        ~(/\ MsgOf[c] \in history /\ FileOf[c] = TextFile[MsgOf[c]]
          /\ \A d \in ChunksOf(FileOf[c], Chunk) : queue[d] = "none")}

\* (A variant of Cleanup: a placed chunk needs no queue row)
CleanupPlaced ==
    /\ pend' = [c \in Chunk |-> IF Expired(c) \/ pend[c] = "placed"
                                THEN "none" ELSE pend[c]]
    /\ own' = DeleteChunksWithMessage({c \in own : ~Expired(c)}, pend')
    /\ <<own', pend'>> # <<own, pend>>
    /\ UNCHANGED <<now, history, deadline, jobs, loaded, runVars, waitVars, net,
                   remoteVars, dir, online, faults>>

\* chunkCleanupLoop of the sender: expired copies, then expired queue rows, then
\* the copies of a message of the history with no queue row left for its file.
\* The sender never drops a queue row because the chunk was placed.
Cleanup ==
    /\ pend' = [c \in Chunk |-> IF Expired(c) THEN "none" ELSE pend[c]]
    /\ own' = DeleteChunksWithMessage({c \in own : ~Expired(c)}, pend')
    /\ <<own', pend'>> # <<own, pend>>
    /\ UNCHANGED <<now, history, deadline, jobs, loaded, runVars, waitVars, net,
                   remoteVars, dir, online, faults>>

\* A data channel closes and everything in flight on it is lost.
Disconnect(p) ==
    /\ p \in online
    /\ online' = online \ {p}
    /\ net' = {msg \in net : msg.peer # p}
    /\ Fault
    /\ UNCHANGED <<now, storeVars, jobs, loaded, runVars, waitVars, remoteVars,
                   dir>>

Reconnect(p) ==
    /\ p \notin online
    /\ online' = online \cup {p}
    /\ UNCHANGED <<now, storeVars, jobs, loaded, runVars, waitVars, net,
                   remoteVars, dir, faults>>

\* The sender stops at any point and starts again: SQLite survives; the pool's
\* jobs, the run, the waiter and the data channels do not.
Crash ==
    /\ Fault
    /\ jobs' = {} /\ loaded' = {}
    /\ EndRun
    /\ DeleteWaiter
    /\ net' = {}
    /\ online' = {}
    /\ UNCHANGED <<now, storeVars, remoteVars, dir>>

Tick ==
    /\ now < MaxTime
    /\ now' = now + 1
    /\ UNCHANGED <<storeVars, jobs, loaded, runVars, waitVars, net, remoteVars,
                   dir, online, faults>>

-----------------------------------------------------------------------------
Run == \/ NextRecipient \/ Unlock \/ RegisterSelf \/ GetBestPeers
       \/ NextPeer \/ SkipPeer \/ RegisterPeer \/ SendBatch
       \/ MarkChunkPlaced \/ BatchFailed

Next ==
    \/ \E m \in Message, ttl \in TTLs : SendMessage(m, ttl)
    \/ \E m \in Message : deliverOutgoing(m)
    \/ GetUnplacedChunks
    \/ distributePendingChunks
    \/ Run
    \/ \E msg \in net : acceptChunkStoreAck(msg)
    \/ \E msg \in net : storeChunkBatch(msg)
    \/ \E p \in Peer : PeerCleanup(p)
    \/ \E p \in Peer, m \in Message : ReplicaLearns(p, m) \/ MemberCollects(p, m)
    \/ Cleanup
    \/ \E p \in Peer : Disconnect(p)
    \/ \E p \in Peer : Reconnect(p)
    \/ Crash
    \/ Tick

Spec == Init /\ [][Next]_vars

\* What the code's scheduling guarantees: the periodic loop and the holder of
\* the lock keep going, and what arrives on a data channel is handled.
FairSpec ==
    /\ Spec
    /\ WF_vars(GetUnplacedChunks)
    /\ WF_vars(distributePendingChunks)
    /\ WF_vars(Run)
    /\ WF_vars(\E msg \in net : storeChunkBatch(msg))
    /\ WF_vars(\E msg \in net : acceptChunkStoreAck(msg))

-----------------------------------------------------------------------------
(* Properties.                                                             *)

\* A peer has a copy that lives to the end of the sender's TTL.
Held(p, c) == stored[p][c] >= deadline[c]

\* Muninn lists the peer for the chunk to the last whole second of the TTL.
Listed(p, c) == dir[p][c] >= FloorSeconds(deadline[c])

\* The state of the program's variables and tables.
TypeOK ==
    /\ now \in Nat
    /\ history \subseteq Message
    /\ own \subseteq Chunk
    /\ pend \in [Chunk -> {"none", "unplaced", "placed"}]
    /\ deadline \in [Chunk -> Nat]
    /\ jobs \subseteq Message
    /\ loaded \subseteq Chunk
    /\ holder \in {"none", "loop", "job"}
    /\ pc \in {"self", "next", "wait"}
    /\ work \subseteq Chunk /\ group \subseteq Chunk /\ parts \subseteq Chunk
    /\ files \subseteq File
    /\ peers \subseteq Peer
    /\ peer \in Peer \cup {Self}
    /\ batch \subseteq Chunk
    /\ req \in ReqId \cup {NoReq}
    /\ result \in {"none", "ok", "error"}
    /\ net \subseteq BatchMsg \cup AckMsg
    /\ stored \in [Peer -> [Chunk -> Nat]]
    /\ dir \in [Peer \cup {Self} -> [Chunk -> Nat]]
    /\ online \subseteq Peer
    /\ learned \subseteq Peer \X Message
    /\ faults \in Nat

\* A chunk is marked placed only when a peer that is not the recipient's committed
\* it for as long as the sender promised, and Muninn lists it there to the end. The
\* copy is still there, but for one reason: it is a text's, and the peer, a device
\* of the sender or a member of the group, has that message in its own history
\* (DeleteChunksWithMessage). Lost, late and duplicate ACKs, rejected batches,
\* crashes and closed channels never mark a chunk that nobody stored
\* (MarkChunkPlaced after SendChunkStoreBatchConfirmed).
PlacedIsHeld ==
    \A c \in Chunk : pend[c] = "placed" /\ ~Expired(c) =>
        \E p \in Peer : /\ KeyOf[p] # Recipient(c) /\ Listed(p, c)
                        /\ Held(p, c) \/ HasRead(p, c)

\* No peer holds a copy the directory does not list: a location is registered
\* before the bytes are sent, and a failed registration keeps them back
\* (registerChunkLocation before SendChunkStoreBatchConfirmed).
EveryCopyIsListed ==
    \A p \in Peer, c \in Chunk : stored[p][c] # 0 => Listed(p, c)

\* Until its TTL ends the sender can serve every chunk of an accepted message,
\* placed or not, whatever the cleanup removed (GetChunk, chunkCleanupLoop).
SenderServes ==
    \A c \in Chunk : MsgOf[c] \in history /\ ~Expired(c) => GetChunk(c)

\* A queue row only moves forward: it leaves the queue only at its deadline, it
\* never becomes unplaced again, and no retry moves the deadline.
QueueMovesForward ==
    [][\A c \in Chunk :
         /\ pend[c] # "none" /\ pend'[c] = "none" => Expired(c)
         /\ pend[c] = "placed" => pend'[c] # "unplaced"
         /\ deadline[c] # 0 => deadline'[c] = deadline[c]]_vars

StoragePeerStays(c) ==
    <>[](\E p \in Peer \ Legacy : p \in online /\ KeyOf[p] # Recipient(c))

\* Once faults end and a storage peer that confirms stays connected, every queued
\* chunk is placed before its TTL ends: neither a busy lock, a dropped job, a
\* stale snapshot nor a crash leaves a chunk behind.
EventuallyPlaced ==
    \A c \in Chunk : StoragePeerStays(c) =>
        (pend[c] = "unplaced" ~> pend[c] = "placed" \/ Expired(c))

\* With or without storage peers the sender's own copy of a chunk that stays
\* queued gets listed (the loop over byFile before the peers are looked up).
OwnCopyEventuallyListed ==
    \A c \in Chunk :
        pend[c] = "unplaced" ~> Listed(Self, c) \/ pend[c] = "placed" \/ Expired(c)
-----------------------------------------------------------------------------
(* The outbox as its users see it.                                         *)

\* Others than the recipient's own devices may hold a chunk for it.
StorageFor == [c \in Chunk |-> {p \in Peer : KeyOf[p] # Recipient(c)}]

Alive(c) == deadline[c] # 0 /\ ~Expired(c)

\* A chunk without a queue row while it lives would be "lost".
OutboxStatus ==
    [c \in Chunk |->
        CASE deadline[c] = 0 -> "new"
          [] deadline[c] # 0 /\ Expired(c) -> "over"
          [] Alive(c) /\ pend[c] = "unplaced" -> "kept"
          [] Alive(c) /\ pend[c] = "placed" -> "shared"
          [] OTHER -> "lost"]

OutboxCopies ==
    [c \in Chunk |-> IF Alive(c) THEN {p \in StorageFor[c] : Held(p, c) /\ Listed(p, c)}
                                ELSE {}]

\* The sender's devices and the group's members may read a chunk of a text.
OutboxReaders ==
    [c \in Chunk |-> IF FileOf[c] = TextFile[MsgOf[c]] THEN Replica \cup Member(MsgOf[c])
                                                      ELSE {}]

OutboxRead == [c \in Chunk |-> {p \in OutboxReaders[c] : HasRead(p, c)}]

Promise == INSTANCE Outbox WITH
    Holders <- StorageFor, Readers <- OutboxReaders,
    status <- OutboxStatus, copies <- OutboxCopies, read <- OutboxRead

\* The sender keeps what the outbox promises: all chunks of a message are queued at
\* once (QueueOutgoing), and whatever is lost, late, repeated or restarted, no
\* chunk of it is dropped or marked placed without a peer that committed it, and
\* before its TTL ends it loses a listed copy only at a peer that has read the
\* message, an attachment's none.
KeepsPromise == Promise!Spec
=============================================================================
