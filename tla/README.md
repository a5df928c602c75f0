# Huginn Messenger: TLA+ models, checks and proofs

Huginn is a peer-to-peer messenger. A node keeps its history and an outbox in
SQLite, finds other nodes through a directory service (Muninn), talks to them
over WebRTC data channels, and uses any node as temporary storage for the
encrypted chunks of messages whose recipient is offline. This directory holds
TLA+ modules of the node, TLC configurations that check them on small instances,
and TLAPS proofs of the properties that matter most for every instance.

    tlc -workers 2 -config MCDelivery_group.cfg MCDelivery
    tlapm DeliveryProofs.tla

## 1. The system

All paths are relative to the repository. Muninn and the WebRTC library are
external; they appear through what the node's code asks of them.

| Component | State | Operations | Hard parts |
|---|---|---|---|
| Outgoing delivery (`internal/messenger/outgoing.go`, `chunk_delivery.go`, `internal/webrtc/chunk_ack.go`, `internal/store/{outgoingStore,pendingChunkStore,chunkStore,chunkExpiry}.go`) | `messages`, `chunks`, `pending_chunks`; `deliveryMu`; waiters for ACKs | accept a message; delivery job and periodic loop; register a location, send a batch, wait for its ACK, mark placed; store a batch; clean up | lost, late and foreign ACKs; partial batches; crashes between commit and mark; a lock that is only tried; stale queue snapshots; lifetimes rounded to seconds |
| State synchronisation (`state_replication.go`, `internal/store/stateSyncStore.go`) | `last_state_check`, `state_updated_at`; request, incoming and outgoing transfer per endpoint | request on connect; export a delta; manifest and chunks; import; acknowledge; forget on disconnect | handlers are jobs of a pool and run in any order; channels break and are replaced; overlapping transfers; clock ticks shared by messages and checkpoints |
| Incoming messages (`messages.go`, `chunks.go`, `internal/store/trackStore.go`) | `last_check` cursor, `failed_chunks`, `processingMsg`, history | poll the directory, collect and assemble, save and publish, retry, direct messages | two checks at once; a cursor that must not pass an untracked manifest; the same message by two ways; crashes |
| File downloads (`messenger.go`, `downloads.go`, `internal/store/fileDownloadStore.go`) | download rows, in-memory pending downloads and contexts | queue, fetch, assemble, publish, cancel, resume | cancel against publish; crash between rename and row update; deadlines |
| Relogin (`relogin.go`, `relogin_replication.go`, `internal/store/replicationStore.go`) | keys, configuration, the transfer of a snapshot | request, response, chunks, import | timeouts against late answers; crash between two writes; a second response |
| Signaling and connections (`signals.go`, `peers.go`, `internal/webrtc/webrtc.go`) | `connections`, `dataChans`, the negotiation lock, `peersConnecting`, signal queue | dial, offer, answer, replace, disconnect; pion's callbacks | offers that cross; lost, doubled and stale signals; callbacks of replaced connections |
| Worker pool and shutdown (`async_pool.go`, `messenger.go`) | job queue, workers, background loops | submit, trySubmit, shut down | a full queue blocks the channel's reader; jobs that wait for what the reader brings; shutdown at any moment |
| Registration and heartbeat (`messenger.go`) | endpoint ID, keys and name, `registeredMap`; Muninn's entry | start, register, refresh, heartbeat, delete | a forgotten registration; requests handled late; a relogin in between; crashes at the start |
| Muninn websocket client (`internal/muninn/rtc.go`) | the socket, pending calls | connect, call, answer, close, reconnect | timeouts against late answers; sockets that die under a call; Close against Connect |
| Migrations (`internal/store/migration.go`) | `schema_version`, the schema | execute a script, record it | a crash inside a script |
| Muninn HTTP client (`internal/muninn/client.go`) | none | one request per call | requests that are handled although the call failed |
| Group chats (`groups.go`) | `group_chats`, Muninn's entry | create, join, register | registrations that expire |
| Chunk codec (`internal/chunk/chunk.go`), bridge (`bridge.go`), configuration and keys, peer cache (`peers.go`) | tables, handle and event queues | | sizes at the boundary, a full event queue |

How they interact: accepting a message commits it to the history and to the
outbox in one transaction; the delivery worker registers locations in Muninn and
sends batches over data channels; the recipient's node finds the locations with
its directory cursor, fetches the chunks and saves the message; the devices of
one user exchange what they saved by state synchronisation. Handlers of
channel events are submitted to the worker pool, so they run concurrently and in
any order, except for the manifests and chunks of transfers, which the channel's
reader handles in order.

What makes each part correct:

* *Delivery*: nothing accepted is lost before its TTL ends; a chunk leaves the
  retry queue only when someone else than its recipient has committed it, and that one
  serves it unless it has read the message; retries terminate.
* *State synchronisation*: the cursor never skips a message; a broken transfer
  leaves nothing behind; what was stored is eventually exchanged.
* *Incoming messages*: every available message is saved and published once; the
  cursor never passes a message that is neither saved nor tracked.
* *Downloads*: a cancelled file is not published, a published file is complete.
* *Relogin*: the identity changes only after the history, as a whole, and to that
  of the device whose signature was applied.
* *Signaling*: what a node uses is its current connection, no connection is registered
  over one that is still whole, and offers that cross end in one connection.
* *Pool and shutdown*: nothing waits for ever, and the database is closed last.
* *Registration*: Muninn comes to list the node as it is, under one endpoint ID.
* *Websocket client*: a call reports success only if its own signal was relayed, and
  no answer that it waits for is dropped.
* *Migrations*: a database can be opened again after any crash.

## 2. Modules

| Module | Models |
|---|---|
| `Outbox` | what a user may expect of an accepted message and its chunks (abstract) |
| `Delivery` | the sender's outbox, delivery worker, storage peers and their housekeeping, which implement `Outbox` |
| `StateSync` | the exchange of history between two devices of one user |
| `Inbox` | the recipient's polling, collection, retry and publication of messages |
| `FileDownload` | the download, publication, cancellation and resumption of attachments |
| `Relogin` | taking over the identity and the history of another device |
| `Signaling` | connecting two nodes: dials, offers, answers and the WebRTC library's callbacks |
| `SignalTransport` | what signaling may expect of a call that relays a signal (abstract) |
| `WSClient` | the websocket client, which implements `SignalTransport` |
| `Migrations` | the migrations of the database, statement by statement |
| `Node` | the life of an endpoint: start, registration, relogin, stop, crash; extends `Migrations` |
| `PoolState` | what the worker pools of two nodes consist of, and the safety they owe |
| `Pool` | two nodes with their worker pools and channel readers, and their shutdown |
| `MCDelivery`, `MCStateSync`, `MCInbox`, `MCFileDownload`, `MCRelogin`, `MCSignaling`, `MCWSClient`, `MCNode`, `MCPool` | the small instances; the `.cfg` files name the bounds |
| `DeliveryProofs`, `StateSyncProofs`, `InboxProofs`, `FileDownloadProofs`, `ReloginProofs`, `SignalingProofs`, `WSClientProofs`, `NodeProofs` | inductive invariants and theorems |

The first three components meet at Muninn's directory and at the data channels, whose
other end each module keeps as an environment: what `Delivery` promises about rows
and copies (a placed chunk is listed to the end of its TTL at a node that committed it, and
held there unless that node has read the message) is the ground on which a requested chunk
arrives in `Inbox`, where a listed copy that is gone is one of the counted failures. `Signaling` makes the channels that these modules see open and break, over signals
that `WSClient` relays; `Pool` has the deliveries of `Delivery` without their tables, and
instead the limits of the pool that the other modules take to run any job at any
time; `Node` takes the end of `Relogin`'s call as a step. `FileDownload` starts where `Inbox`, `StateSync` and `Relogin` hand it
the attachments of a message. Definitions whose name starts with another definition's name and
whose comment says "a variant of" are deliberately wrong; they are used to show
that the properties notice.

### Delivery

Time is counted in half seconds, so that rounding a lifetime to whole seconds is
visible. One sender, any number of peers; a chunk is a (file, index) pair that
belongs to one message. Attachments have an empty recipient.

| Code | Model |
|---|---|
| `messages`, `chunks`, `pending_chunks.placed` | `history`, `own`, `pend` |
| `created_at + ttl_seconds` | `deadline` (one per chunk: both tables get the same values) |
| async pool jobs running `deliverOutgoing` | `jobs` (a full pool drops the job: the choice in `SendMessage`) |
| `GetUnplacedChunks` before `TryLock` | `loaded`, then `distributePendingChunks` |
| `deliveryMu`, the nested loops of `distributeChunksForRecipient` | `holder`, `pc`, `work`, `group`, `files`, `peers`, `peer`, `parts` |
| `chunkAcks` and the waiter's channel | `batch`, `req`, `result` |
| data channels | `net` (unordered, as every batch is handled by a job), `online` |
| a storage peer's `chunks`, Muninn's rows | `stored`, `dir` (the expiry of the copy and of the row) |
| the history of a storage peer: a device of the sender (`ReplicaLearns`) or a member of the group the message is for (`MemberCollects`) | `learned` |

The action of a storage peer stores a batch as one step. The chunks are
committed one by one, but nothing on that peer reads between them, and a failure
after some of them is the choice `done`. A failed `MarkChunkPlaced` is the choice
`marked`. The direct message that `deliverOutgoing` sends first belongs to the
recipient's side and leaves no state at the sender. Muninn's rows are abstracted
to the one that lives longest. A storage peer that has a message in its own history drops
the copies of its text with the next cleanup, confirmed or not
(`DeleteChunksWithMessage`, `chunkStore.go` 85-92), and nobody is told: `PeerCleanup`. The
sender's other devices come to have it by state synchronisation (`KnownTo`). The members of a group
come to have its messages too: the chunks are addressed to the key of the group (`outgoing.go` 37, 71), which is not the key of
a member, so that members are storage candidates (`chunk_delivery.go` 76), and they collect the
message for themselves (`messages.go` 106-117). `MembersOf` says who they are. A member
collects a text when each of its chunks is available somewhere, be it in one check or in
several. Failures (a lookup or registration that fails or
whose answer is lost, a timer that beats an answer, a failing store, a closed
channel, a crash) are counted by `faults`, bounded by `MaxFaults`.

### StateSync

One direction between an exporter and an importer, over a sequence of data
channels. The two directions share only `replicaPeers`; the other direction shows
as messages saved by other means.

| Code | Model |
|---|---|
| `messages.state_updated_at`, `last_state_check` | `rows`, `cursor` |
| `replicaPeers` on either side | `trusted`, `known` |
| `stateSyncOutgoing`, the progress of `sendStateSync` | `outgoing`, `step`, `next`, `since`, `check`, `delta` |
| `stateSyncRequested`, `stateSyncIncoming` | `requested`, `incoming`, `got` |
| pool jobs | `reqJobs`, `ackJobs`, `connJobs`, `dropA`, `dropB`, and `asking`, `acking`, `clearA`, `clearB` between the steps of one handler |
| the data channel | `link`, `toB` (ordered), `reqNet`, `ackNet` |

A handler that releases a lock and takes it again is split there:
`handlePeerConnected` (check and set the flag, then send), `sendStateSync`
(checkpoint, export and register, send), `handleStateSyncAck` (match, persist,
forget), `handlePeerDisconnected` (look at the channel, then delete). Gzip, JSON
and the checksum are abstracted to "the delta that was exported, or an error".
Both sides see a channel open and close at the same moment. The wall clock is
assumed not to step back.

### Inbox

One recipient key (the user's, or a group chat's: each key has its own cursor and
rows). Time is in seconds, as in the directory and in `failed_chunks`.

| Code | Model |
|---|---|
| Muninn's rows for the recipient | `dir`: (chunk, updated) pairs; `deadline` of the message |
| `last_check`, `failed_chunks`, `chunks`, `messages` | `cursor`, `tracked` (when the row expires), `local`, `saved` |
| `processingMsg`, `rtcMsgChan` | `processing`, `rtc` |
| the periodic `checkPendingMessages` and those that `InjectChunk` submits | `Checker`, each with its `pc` and local variables |
| `lastCheck`, `newLastCheck`, `safeToAdvance`, `byMsg` | `last`, `new`, `safe`, `work` |
| the loop of `retryFailedChunks` | `retry` |
| `collectAndProcessMessage` | `cur`, `recs`, `left` and the steps `track`, `assemble`, `save`, `publish` |
| chunk requests on their way | `asked` |

A check is split wherever another one can act on the same tables: reading the
cursor, the query, the filter, each message, each `StoreFailedChunk`, the
assembly, the save, the publication, the cursor. Bytes are `good` or `bad`
(whether the hash matches); whether a message decrypts is the constant
`Readable`. A full `rtcMsgChan` drops a direct message: the choice in
`DirectMessage`. What a message's text does to group chats and the download it
starts for an attachment are left out. Rows for attachments (`persist`) have no
recipient and do not come up in these queries. Muninn is taken to return rows
newer than `date_from`; if it also returned those of that very second, the node
would only see more.

### FileDownload

| Code | Model |
|---|---|
| `file_downloads` | `expires`, `completed`, `stopped`, `cancelled` |
| `chunks`, the downloads directory | `local`, `disk` (whose contents a name has) |
| the worker admitted by `tryProcessMsg("file:" + id)` | `pc`, `seen`, `need`, per file |
| `downloadContexts`, `pendingFileDownloads`, pool jobs | `ctx`, `pending`, `jobs` |
| `downloadMu` | `LockFree`: it is held between the rename and the update of the row |
| the message, received or imported | `arrived` |
| `resumeFileDownloads` at start | `resume` |
| `file_ready` events | `ready` |

The worker is split where a cancellation, a restart or another file's worker can
come between two steps; what happens under `downloadMu` is one step, except the
rename and the row, between which the node may stop. Time is counted in fractions
of the week a download may take. Bytes are `good` or `bad`: answers to chunk
requests carry no hash. The name of the file is a constant, as it comes with the
message.

### Relogin

An attempt is one call of `ApplyReloginSignature` with everything that belongs to
it: the `reloginTransferState`, the source's handler and the finishing job. The
transfer ID of an answer is the attempt that asked for it.

| Code | Model |
|---|---|
| the call | `pc`: `send`, `wait`, `keys`, `config`, `reload` |
| `reloginTransfer` and what it points at, the result channel | `cur`, `transfer`, `result` |
| `finishReloginTransfer` | `fin`, `bytes` |
| the source's `handleReloginRequest` jobs | `srv`, `export` (the version exported), `sent` |
| the data channel of a source | `channel`, in order until it is closed |
| `crypto_keys` and `username` of `config_values`, `appConfig.Username` | `keys`, `name`, `memName` |
| imported snapshots, contacts in `peersMap` | `imported`, `loaded` |

A snapshot is told apart by the version of the source's database: its chunks hold
it and its hash is it, so that two exports of an unchanged database are equal.
`finishReloginTransfer` takes no lock, so that reading the chunks, comparing the
hash, importing and reading the keys are steps of their own; a chunk that is read
while it is written counts as one not yet there, as the checksum rejects both.
Signatures are valid: the check has no effect on state. A source of an earlier
release answers with keys and without a transfer ID, which the code accepts; the
set `Legacy` stands for them.

### Signaling

Two nodes and everything between them. Endpoint IDs are numbers, as their order
decides a collision. A peer connection is a number with an owner, a role and a
state; it also stands for its data channel.

| Code | Model |
|---|---|
| `connections`, `dataChans` | `conn`, `chan` |
| `lockNegotiation` | `neg` |
| `ConnectPeer` in several goroutines, `peersConnecting` | `dial`, `mine` |
| `handleSignal` in the signal loop | `hand`, `sig`, `made` |
| pion's connection, the worst state it has reported | `owner`, `role`, `st`, `remote`, `report` |
| callbacks not yet run | `events` |
| websocket, HTTP and `signalChan` | `net`: a signal may be lost, and doubled, as a websocket call that timed out is repeated by HTTP |

`CreateOffer` and `HandleOffer` are split where the maps are changed: the old
entry goes, the new one comes, the descriptions are set. pion takes an answer when
the connection waits for one and does not see which offer it answers; two ends
open when each has the other's description, and an end without a counterpart
fails. An offer without an answer never fails by itself. A connection that is reported
disconnected is forgotten by the callback, not closed: it keeps its channel, may
recover, and ends only when pion gives it up.

### WSClient and SignalTransport

| Code | Model |
|---|---|
| `conn`, `connected` | `cur` |
| `connectMu`, a running `Connect` and the socket it has dialed | `conn`, `held` |
| `readLoop` of a socket | `reader` |
| a call of `sendRequest`, its entry in `pending`, its channel | `state`, `via`, `pending`, `box` |
| `Close` | `closing` |
| the sockets and what is on them, Muninn | `sock`, `reqs`, `resps`, `relayed` |

`SignalTransport` has calls that begin, are relayed, succeed or fail: a call that
succeeds has been relayed, one that failed may have been. Under the mapping in
`WSClient` a call is "waiting" wherever it is inside `sendRequest`.

### Node and Migrations

`Migrations` has every script as a sequence of statements with their kind and the
statements they depend on; `Exec` is one statement, as `db.Exec` runs a script
without a transaction. `Node` opens the store that way, then does what `New`,
`createMessenger`, `Register`, the loops and `Shutdown` do.

| Code | Model |
|---|---|
| `config_values`: keys, username, peer_id; `group_chats` | `keys`, `name`, `peerID`, `group` |
| `m.ID`, keys, `m.Username` | `id`, `memKeys`, `login` |
| `registeredMap`, `registeredMu` | `reg`, `pc` (who is between `refresh` and `register` holds the lock) |
| what `Register` has read | `ident`, `req` |
| Muninn's peers, its entry of the group | `entry`, `listed` |
| requests whose caller has given up | `late` |

A key or name is "own" or the "source"'s of a relogin, or "unsaved" when the write has failed;
the encryption key goes with the signature key. Where the code only logs a failure of its
own database and goes on (`New` of the keys, the name and the endpoint ID, `createMessenger` of
the configuration), the step has both outcomes, and `unheeded` says that the second has
happened. A failing registration of a group waits for the next tick. The constant `Host` tells the application's bridge from the
bot, which does not save the endpoint ID.

### Pool

A request is one batch. Workers are told apart by their jobs only. A delivery first
dials the message's recipient, in the worker and outside `deliveryMu` (`deliverOutgoing`:
`ConnectPeer`, then up to `peerConnectTimeout`): a "dial" that ends by the connection, a
timer or the context. So eight texts to recipients who are away do take all eight
workers, for as long as these timers run; what they never do is all wait for
acknowledgements (`NotAllWait`). A worker that waits for a connection to request a chunk
is at such a dial with nothing to follow. The storage peer is connected; a delivery that
has to dial it does so under `deliveryMu`, in the place of the wait. The reader of a
channel handles one message at a time and blocks in `submit`; the loop that
repeats deliveries is a goroutine of its own and may deliver as well, under
`deliveryMu`. Reports of a peer's quality are jobs without an effect here, which fill
the queue. Not modelled are the users of the database outside the pool: a registration
that the bridge has started, and `chunkGet`, which runs in the channel's reader;
`StoreOutlivesWork` speaks of workers and loops.

## 3. Runs

All runs use two workers and finish within three minutes.

| Run | Instance | Shows |
|---|---|---|
| `delivery_group` | a message to a group, with a text chunk and an attachment chunk, and a member of the group; TTL of 2 ticks, 2 faults | `KeepsPromise` (the refinement), `PlacedIsHeld`, `EveryCopyIsListed`, `SenderServes`, also when the member reads the message and drops its confirmed copy |
| `delivery_replica` | a text of one chunk to a user; a peer that cannot confirm, the sender's second device and the recipient's device; default TTL, 1 fault | `EventuallyPlaced`, `OwnCopyEventuallyListed`, `PlacedIsHeld`, also when a device that has the message drops its confirmed copy |
| `statesync_faults` | one message, two transfers, one channel, one fault, restart or relogin | `CursorSafe`, `CleanWhenDown`, `FirstChannelExchanges` |
| `statesync_reconnect` | one message, two transfers of two chunks, two channels | `ResentAfterBreak` is violated (finding below) |
| `inbox_checks` | one chunk that also comes directly; two checks; 2 faults | `NothingSkipped`, `PublishedOnce`, `RetryKept`, `EventuallySaved` |
| `inbox_parts` | a message of two chunks that also comes directly; one check; 2 faults, 3 seconds | `NothingSkipped` |
| `download_cancel` | a file of two chunks, wrong answers, 2 faults, one failed write | `CancelIsFinal`, `CompletedIsThere`, `ContextsEnd`, `NeverForgotten`, `EventuallySettled` |
| `relogin_calls` | three calls (a source, one of an earlier release, the first again), snapshots of one and two chunks, one fault, one failed write | `ImportsAreWhole`, `ImportBeforeIdentity`, `IdentityWhole`, `SuccessIsWhole`, `EventuallyFree` |
| `signaling_glare` | a dialing goroutine on each of two nodes, three connections, one signal lost or doubled, link broken or peer disconnected | `ChannelIsCurrent`, `NoStrayConnection`, `GlareResolves`, `OpensOrGoes` |
| `wsclient_calls` | two connecting goroutines, two calls, three sockets, faults and `Close` | `RelaysAsPromised` (the refinement), `OneSocket`, `NoAnswerLost`, `Reconnects` |
| `node_life` | a database at version 10, two starts, two faults, a relogin, late deletions | `EndpointKept`, `ListedAsCurrent`, `GroupListed`, `OpensAgain` |
| `pool_shutdown` | two workers and a queue of one on each of two nodes; three requests and one, two with recipients to dial; a timer, one shutdown | `Settles`, `StoreOutlivesWork`, `NotAllWait` |

Proved, and not repeated in a run: the type invariants, `QueueMovesForward` of Delivery
(most of which `KeepsPromise` says as well) and `OneCall` of Relogin. They hold in all
runs' instances; add them to the configuration when a module is changed.

*Bounds.* `MaxTime` lets a chunk be sent, rounded, and expire; two request or
transfer IDs are enough for one current and one stale; `BatchSize` 1 gives two
batches to one peer, hence a late ACK of the first during the wait for the second;
two calls to one source are enough for a late response. One fault is enough to lose
any single answer, fail any single call or crash at any point; the proofs have no
bound on faults. Three connections are enough for crossing offers and a third that
replaces one of them, three sockets for a call whose socket is replaced twice. A passing
run of StateSync has one channel, so `FirstChannelExchanges` is about that one: what it
does not exchange is exchanged over a later one only if that one asks, which the violation run
shows need not be so. The
pool's instance has more requests on one node than workers, so that without
`deliveryMu` all of them wait while the other node's batch waits for room, and as many
recipients to dial as workers. Request IDs are
symmetric, which is only used in a run without liveness properties.
Few messages, files, calls and connections are enough for the safety properties, as those
are proved for any number. Deadlock checking is off: with its clock and faults
used up the modelled system may rest.

*Fairness.* `FairSpec` of Delivery assumes that the periodic loop runs, that the
holder of the lock goes on (each of its waits has a timeout) and that what
arrives on a channel is handled; nothing is assumed of the clock, of jobs, of
connections or of faults. `FairSpec` of StateSync assumes that queued jobs run,
started handlers finish and an open channel delivers; nothing is assumed of
`Register`, which would ask again every time it runs.
`FairSpec` of Inbox assumes that the ticker starts a check again and again, that a
check goes on, and that a requested chunk arrives unless a failure (one of
`MaxFaults`) prevents it; nothing is assumed of direct messages, of the second
check or of the clock.
`FairSpec` of FileDownload assumes that the loop over pending downloads and the
resumption at start run, that a worker goes on, and that a requested chunk
arrives unless one of `MaxFaults` failures prevents it; nothing is assumed of pool
jobs, the clock or the user. `EventuallySettled` is about downloads without wrong
chunks: a file whose chunks are all there and whose hash is wrong is not tried
again before a restart. `FairSpec` of Relogin assumes that a call goes on or its timer fires;
nothing is assumed of the source or of the finishing job.
`FairSpec` of Signaling assumes that dials and the signal loop go on and that pion's
callbacks come; nobody need dial. `FairSpec` of WSClient assumes that the reconnection
loop, readers and calls go on (each call has a timer) and that a `Close` ends; Muninn
need not answer. `FairSpec` of Node assumes that a start, a registration and the two
loops go on; `ListedAsCurrent` is about a node that stays up. `FairSpec` of Pool
assumes of the goroutines together only that some one runs while one can, and that a
dial ends, which its timers see to; the timer of an acknowledgement is assumed to fire
only when the connection or the context is gone, so that `Settles` shows that the nodes
do not need it to get on. It does not show that it never fires: while the workers of the
other node dial, a batch may not be stored within the sender's five seconds, and the loop
sends it again.

### Findings

* `statesync_reconnect`: `docs/architecture.md` (lines 495-496, 534-535) says a
  request is sent when a channel opens and that an unacknowledged delta is sent
  again after a break. When the disconnect job of the old channel runs after the
  new one is open it returns early, the old request flag stays, and the connect
  job of the new channel sends no request. The exchange then waits for the next
  break.

Met on the way, and allowed by the properties as they are stated:

* Own copies: a failed registration of the sender's own copy is logged only
  (`chunk_delivery.go` 58-60); if a peer then confirms the chunk it leaves the queue
  and the own copy stays unlisted. `OwnCopyEventuallyListed` says what does hold.
* Copies that are dropped early: when the only node that has confirmed a text's chunk is a
  member of the group, or another device of the sender, it drops its copy once it has the
  message itself (`chunkStore.go` 85-92). The sender's row stays placed, so nothing
  places the chunk again, and Muninn goes on listing the node (nothing removes its row). Until the TTL
  ends the other members then depend on the sender's own copy (`SenderServes`).
  `PlacedIsHeld` and `Outbox` name this case; an attachment's chunk, whose file ID is no
  message's, keeps its copy.
* Downloads: a second attachment of the same name replaces the file of the first
  (`messenger.go` 592), whose row stays completed with that path. `CompletedIsThere` therefore
  says that a completed row's path holds the file of this attachment or of another
  of the same name, or that the user has removed it.
* Relogin: a response, late from an earlier call that timed out, replaces the chunks
  and leaves the number received (`relogin_replication.go` 154), so that the job
  is started with chunks missing, and fails on the checksum, or never.
* Signaling: `ConnectPeer` keeps its entry when the offer cannot be sent or is lost.
  Later calls return at once (`peers.go` 258), and at the lower ID every offer of
  the other side is ignored as a collision (`signals.go` 45), until `DisconnectPeer`.
  `GlareResolves` therefore speaks of behaviours without failures, `OpensOrGoes` of
  connections that have been answered.
* Signaling: a node that has not yet noticed a broken link ignores the other's new
  offer (`signals.go` 41), which that one then keeps.
* Signaling: a connection reported disconnected is removed from the maps but not closed
  (`webrtc.go` 388-395). When pion recovers it, it goes on delivering what the other end
  sends, that end has no reason to dial, and `Close` and `DisconnectPeer` no longer reach it.
  `NoStrayConnection` is therefore about connections of which nothing bad has been reported.
* Migrations: after a crash inside a script the rerun stops at the first column that
  is already there, skips the rest and records the migration (`migration.go` 129). A
  crash inside 012 leaves its later columns out for good; one inside 011 the resets.
* Node: a registration that was sent before a relogin and is handled after the new
  one (`Late` with "register") leaves the old keys in the directory, and the heartbeat
  does not look at them. The bot gets a new endpoint ID at every start, as only the
  bridge saves it. Two `CreateGroupChat` calls at once may both find the name free.
* Node: a failed read of the configuration is only logged, and a new endpoint ID is made
  although one is stored (`messenger.go` 242-244, 274-277); a failed `SaveConfig` is only logged
  before `Register` (`bridge.go` 167-176). Either leaves an entry in Muninn under an ID
  that is not the one in the database. `EndpointKept` is for behaviours without these.

`ApplyReloginSignature` also writes keys and name one after the
other. When the second write fails, or the node stops in between, the source's
keys are kept under the device's own name; a later save of the settings by the
running node writes the new name. `IdentityWhole` therefore speaks of behaviours
without failures.

## 4. Proofs

Each `...Proofs` module holds an inductive invariant `IInv` (its parts are named and
commented there), lemmas for its preservation, and the theorems. The constants are
arbitrary, subject only to the `ASSUME` of the module: `MaxTime`, `MaxFaults` and the
other bounds are arbitrary naturals, so the theorems hold for behaviours of any
length, any number of callers, goroutines, messages, files or sockets, and any
number of failures. Every `IInv` has been checked by TLC on an instance as well.
Where a theorem has a hypothesis of its own it is named below.

| Module | Theorems (property of a run) |
|---|---|
| `DeliveryProofs` | `TypeCorrect`, `PlacedChunksAreHeld` (`PlacedIsHeld`), `CopiesAreListed` (`EveryCopyIsListed`), `SenderAlwaysServes` (`SenderServes`), `QueueForward` (`QueueMovesForward`), `OutboxKept` (`KeepsPromise`: the refinement of `Outbox`) |
| `StateSyncProofs` | `TypeCorrect`, `CursorHidesNothing` (`CursorSafe`), `DisconnectCleans` (`CleanWhenDown`) |
| `InboxProofs` | `TypeCorrect`, `NothingSkippedAlways`, `PublishedOnceAlways`, `RetryKeptAlways` |
| `FileDownloadProofs` | `TypeCorrect`, `ContextsEndAlways`, `CancelIsFinalAlways`, `CompletedIsThereAlways`, `NeverForgottenAlways` |
| `ReloginProofs` | `TypeCorrect`, `ImportsAreWholeAlways`, `ImportBeforeIdentityAlways`, `IdentityWholeAlways`, `SuccessIsWholeAlways`, `OneCallAlways` |
| `SignalingProofs` | `TypeCorrect`, `ChannelIsCurrentAlways`, `NoStrayConnectionAlways`, `GlareResolvesAlways` |
| `WSClientProofs` | `TypeCorrect`, `OneSocketAlways`, `NoAnswerLostAlways`, `Relays` (`RelaysAsPromised`: the refinement of `SignalTransport`) |
| `NodeProofs` | `TypeCorrect`, `EndpointKeptAlways`, `OpensAgainAlways`; of `Pool`: `PoolTypeCorrect`, `StoreOutlivesWorkAlways`, `NotAllWaitAlways` |

(`XAlways` states the property `X`.)

*Delivery*. `PlacedIsHeld` is not inductive: the
mark is set from an ACK, so the invariant follows the evidence backwards. `IInv` says that
every chunk of a run or queue belongs to an accepted message; that directory rows
and stored copies, once made, last to the deadline; that a file being sent to a
peer is listed there; that a batch in flight carries lifetimes that reach the
deadline; that an OK answer, in flight or received, is about chunks that the
peer holds or has read; and that only the sender's devices and the group's members read. That rounding up suffices is the arithmetic lemma about
`CeilSeconds`. `OutboxKept` maps the tables of the sender, of the peers and of Muninn
to a status, a set of known copies and a set of readers per chunk, and shows for each action which step of
`Outbox` it is: a registration or a stored batch is `Copy`, a message that a peer comes to
have `Read`, a peer's cleanup `Drop`, which `Outbox` allows of what has been read only, an ACK
that is accepted `Share`, a tick `Expire` for the chunks whose TTL it ends, and everything else, crashes and
the sender's cleanups included, is a stutter. The mapping gives a live chunk without a queue row a
status of its own, "lost", which no step of `Outbox` allows. Its `Accept` is `QueueOutgoing`.

*StateSync*. `CursorSafe` needs: timestamps never exceed the clock; a transfer's
`since` is at most the cursor and its checkpoint at most the clock; an exported
delta contains every row of its interval that the importer lacks; a committed
import and its ACK imply that the delta is in the importer's history. `CleanWhenDown`
needs that whatever is registered while no channel is open is owed a clearing
job.

*Inbox*. `NothingSkipped` is about the cursor, but a check moves it over rows that
it decided about long before, while other checks save, track and publish.
`Covered` therefore speaks of the cursor, of the cursor each running check has read
(`last`), and of each row below the one it may set (`new`): the row is saved, tracked or
expired, or still in this check's hands (`work`, `left`), or the check has given up its
right to move the cursor (`safe`). `TrackedLong` says that a row of `failed_chunks`
lasts as long as the message it belongs to, which is what `StoreFailedChunk`'s
`ttl - age` is for, and needs that no row is from the future (`InThePast`).
`PublishedOnce` needs `OneCollector` (a message has one owner in `processingMsg`) and
`SavedFirst` (whoever is about to publish has saved it and is the first).

*FileDownload*. A worker acts on a row it has read (`seen`) while the user cancels,
another worker completes the same file or the node restarts. `OneOutcome` keeps
completed and cancelled apart, and `WorkerKnows` says what a worker at each label may
still believe: one that is about to announce a file is that of a completed row.
`CompletedIsThereAlways` is for any names: what a path holds is one of the `Namesakes` of the
row's file. `NeverForgotten` is the safety half of
`EventuallySettled`: for one file at a time, `Kept` says that whoever takes it off a
list has put it on another or settled it, and that a worker which leaves it does so
because of what it has read and what still holds (a stopped or cancelled row stays one). It has the
hypothesis that no chunk of the file has arrived wrong and no write of the node's own
store has failed so far, as part of the property (`Clean` in the proof): after
either the worker drops the file, until the next start.

*Relogin*. `ImportsAreWhole` follows the bytes: what the source's handler and its channel
carry is of an exported version (`Honest`), a transfer has the keys of the device its
attempt asked (`TransferOfSource`), and the finishing job, which reads the transfer
without a lock, goes on only with bytes whose hash matches (`JobHasWhole`, and
`ResultIsWhole` for what it reports). `Identity` says that keys and name, in memory and
saved, are of devices with an imported snapshot, and whose they are at each step of a
call; `IdentityWhole` holds as long as no
failure or crash has come (`errors` and `faults` count them). The action property
`SuccessIsWhole` is proved at the one step that returns without an error. `OneCallAlways` is
about `OneCall`, an equivalence: one direction keeps calls apart, the other says that
every return clears the transfer.

*Signaling*. `NoStrayConnection` needs that one goroutine of a node dials (`OneDials`),
that the entry is a connection of its node and is gone while the holder of the
negotiation lock replaces it (`EntryOfNode`), that what the holder has made is a
connection of the node, and what has not been started is in somebody's hands (`InHand`,
`NewIsHeld`), and that a callback about a connection's state is on its way only when the
connection was closed or reported (`EventsTell`).
`ChannelIsCurrent` holds although the callbacks of replaced connections come late, as
they compare the connection first. `GlareResolves` needs the history of the
signals: what a description, a signal in flight or a connection's `remote` is of
(`Descriptions`), and for behaviours without failures (`clean`) that a node has at most
one offering connection, that its offer is in at most one place (in flight, with the
signal loop, or taken), and that an offer is dropped only by the
node with the lower ID in favour of its own, which is then still on its way
(`CleanEntries`, `CleanOffers`, lemma `Dropped`). The two nodes of the model are part of
`SignalingAssumption`; callers, connections and failures are arbitrary.

*WSClient*. The refinement maps a call inside `sendRequest` to a waiting one. `OneAnswer` says
that a call has one request and one answer, one after the other: while the request is
on its way the signal has not been relayed, and a success, on a socket or in the
call's channel, comes of a signal that was. `OneSocket` needs that `connectMu` admits
one `Connect` and only without a connection (`OneConnector`, `HeldToInstall`). `NoAnswerLost` needs that
a call that has not returned is in `pending` or has its answer, and that a socket
which was opened is not opened again, so that one that is up has been since the
request was written (`Awaited`).

*Node and Migrations*. `OpensAgain` is about the scripts themselves: the lemma
`SoundScripts` goes through the twelve and shows that what a statement needs is made by an
earlier statement of its own script or by one of the scripts 1, 4 and 9, which have no
statement that can end them early. `Executed` says that those are complete once recorded,
and that a script which has not been cut short has executed everything so far.
`EndpointKept` needs `OneEndpoint`: from the moment the process is up the ID in the
database is its own, and registrations that are still on their way are for that one. It
has the hypothesis `Host = "app"`, as the bot does not save its ID, and speaks, as part
of the property, of behaviours in which no failure of the database was only logged
(`unheeded`; section 3).

*Pool*. Its theorems are in `NodeProofs`, which extends `PoolState` and instantiates `Pool`;
their hypothesis is `PoolConstants`: the pools, the queues and the number of requests are
arbitrary. Between the closing of the queue and the end of the wait, `Shutdown`
depends on a count: `WorkersCounted` says that running jobs and workers that have gone are
together at most the workers the pool was given, so that all gone means no job running, and
`ShutdownOrdered` says what has ended at each step of `Shutdown` and cannot begin again. `NotAllWait` is the
reason why two nodes do not wait for each other: `deliveryMu` lets one delivery wait at a
time (`OneDelivery`), also when it has dialled before, and the workers of a running node
are all there, so with more than one of them (the theorem's hypothesis;
`asyncWorkerCount` is 8) one is idle, stores a batch or dials.

Only model-checked:

* the liveness properties (`EventuallyPlaced`, `OwnCopyEventuallyListed`,
  `FirstChannelExchanges`, `EventuallySaved`, `EventuallySettled`, `EventuallyFree`,
  `OpensOrGoes`, `Reconnects`, `ListedAsCurrent`, `GroupListed`, `Settles`):
  fairness and `ENABLED` are beyond the prover.

## 5. Not modelled, and the plan

Not modelled by choice: the queries of the HTTP client (one request per call, no
state), the cached list of peers that the user interface shows (`peerRefreshLoop`,
`GetPeers`), the functions of the bridge that convert arguments and call the
messenger, cryptography, settings other than name and endpoint ID, log
plumbing. Muninn and the WebRTC library are external. The chunk codec is pure; its
properties are about lengths of bytes, which unit tests reach.

Next, in this order:

1. The composition of `Outbox` with `Inbox` through the directory.
2. The bridge's event queue, and `ChunkCodec` as operators checked by TLC.
