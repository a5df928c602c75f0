------------------------------ MODULE StateSync ------------------------------
(***************************************************************************)
(* One direction of the state synchronisation between two devices of the   *)
(* same user: the exporter sends the messages that it stored since the     *)
(* last acknowledged checkpoint, the importer inserts the ones it lacks.   *)
(* The other direction runs the same code on its own state (each map of    *)
(* the Messenger is keyed by the remote endpoint); here it appears only as *)
(* messages stored by other means on either device.                        *)
(*                                                                         *)
(* internal/messenger/state_replication.go, internal/store/                *)
(* stateSyncStore.go, internal/webrtc/webrtc.go                            *)
(*                                                                         *)
(* A connect, disconnect, request, acknowledgement or import handler is a  *)
(* job of the worker pool: jobs run concurrently and in any order.         *)
(* Manifests and chunks are handled by the channel's reader, in order.     *)
(***************************************************************************)
EXTENDS Integers, Sequences

CONSTANTS
    Message,      \* message UIDs
    TransferID,   \* transfer IDs
    None,         \* no transfer
    Parts,        \* chunks of an encoded delta
    MaxTime,      \* bound: last tick of the exporter's clock
    MaxOpens,     \* bound: data channels opened in one behaviour
    MaxFaults     \* bound: failures, restarts and relogins in one behaviour

ASSUME StateSyncAssumption ==
    /\ None \notin TransferID
    /\ Parts \in Nat \ {0}
    /\ MaxTime \in Nat
    /\ MaxOpens \in Nat
    /\ MaxFaults \in Nat

VARIABLES
    \* the exporter: durable
    clock,      \* its wall clock
    rows,       \* messages: state_updated_at of each row, 0 when there is none
    cursor,     \* last_state_check of the importer, 0 when there is none
    \* the exporter: in memory
    trusted,    \* replicaPeers has the importer
    outgoing,   \* stateSyncOutgoing: the transfer that waits for its ACK
    step,       \* how far sendStateSync is with a transfer
    next,       \* the next message of a transfer: 0 the manifest, i chunk i
    since,      \* the cursor a transfer starts at
    check,      \* the checkpoint of a transfer
    delta,      \* the messages of a transfer
    reqJobs,    \* queued handleStateSyncRequest jobs
    ackJobs,    \* queued handleStateSyncAck jobs
    acking,     \* transfers whose ACK was accepted and is not yet persisted
    dropA,      \* queued handlePeerDisconnected jobs
    clearA,     \* handlePeerDisconnected jobs that found the channel closed
    \* the importer: durable
    have,       \* its messages
    \* the importer: in memory
    known,      \* replicaPeers has the exporter
    requested,  \* stateSyncRequested
    incoming,   \* stateSyncIncoming: the transfer being received
    got,        \* the chunks of incoming that arrived; once all have,
                \* processing is set and finishStateSyncImport is queued
    importing,  \* how far finishStateSyncImport is with a transfer
    connJobs,   \* queued handlePeerConnected jobs
    asking,     \* handlePeerConnected jobs about to send the request
    dropB,      \* queued handlePeerDisconnected jobs
    clearB,     \* handlePeerDisconnected jobs that found the channel closed
    \* the data channel
    link,       \* the data channel that connects the devices
    opens,      \* data channels so far
    toB,        \* manifests and chunks in flight, in order
    reqNet,     \* requests in flight
    ackNet,     \* acknowledgements in flight
    faults      \* failures, restarts and relogins so far

storeVars  == <<clock, rows, cursor>>
sendVars   == <<step, next, since, check, delta>>
jobVarsA   == <<reqJobs, ackJobs, acking, dropA, clearA>>
exportVars == <<trusted, outgoing, sendVars, jobVarsA>>
recvVars   == <<requested, incoming, got>>
jobVarsB   == <<importing, connJobs, asking, dropB, clearB>>
importVars == <<have, known, recvVars, jobVarsB>>
netVars    == <<link, opens, toB, reqNet, ackNet>>
vars == <<storeVars, exportVars, importVars, netVars, faults>>

Msg == [type : {"manifest", "error"}, id : TransferID, index : {0}]
       \cup [type : {"chunk"}, id : TransferID, index : 1..Parts]
Acks == [id : TransferID, error : {"none", "import"}]

Fault == faults < MaxFaults /\ faults' = faults + 1

\* IsPeerConnected
Connected == link = "open"

\* sendEnvelope: nothing is sent without an open channel.
SendToB(m) == toB' = IF Connected THEN Append(toB, m) ELSE toB
SendAck(t, error) ==
    ackNet' = IF Connected THEN ackNet \cup {[id |-> t, error |-> error]}
                           ELSE ackNet

-----------------------------------------------------------------------------
Init ==
    /\ clock = 1
    /\ rows = [m \in Message |-> 0]
    /\ cursor = 0
    /\ trusted = "unknown"
    /\ outgoing = None
    /\ step = [t \in TransferID |-> "free"]
    /\ next = [t \in TransferID |-> 0]
    /\ since = [t \in TransferID |-> 0]
    /\ check = [t \in TransferID |-> 0]
    /\ delta = [t \in TransferID |-> {}]
    /\ reqJobs = 0
    /\ ackJobs = {}
    /\ acking = {}
    /\ dropA = 0
    /\ clearA = 0
    /\ have = {}
    /\ known = "unknown"
    /\ requested = "no"
    /\ incoming = None
    /\ got = {}
    /\ importing = [t \in TransferID |-> "none"]
    /\ connJobs = 0
    /\ asking = 0
    /\ dropB = 0
    /\ clearB = 0
    /\ link = "closed"
    /\ opens = 0
    /\ toB = <<>>
    /\ reqNet = 0
    /\ ackNet = {}
    /\ faults = 0

-----------------------------------------------------------------------------
(* The message tables. A row is stamped with the time of its insertion,    *)
(* read under the store's lock.                                            *)

Tick ==
    /\ clock < MaxTime
    /\ clock' = clock + 1
    /\ UNCHANGED <<rows, cursor, exportVars, importVars, netVars, faults>>

\* SaveMessage, QueueOutgoing, or the import of another device's delta.
SaveMessage(m) ==
    /\ rows[m] = 0
    /\ rows' = [rows EXCEPT ![m] = clock]
    /\ UNCHANGED <<clock, cursor, exportVars, importVars, netVars, faults>>

\* A relogin snapshot overwrites the rows it holds and stamps them anew.
ImportReplicationSnapshot(M) ==
    /\ Fault
    /\ rows' = [m \in Message |-> IF m \in M THEN clock ELSE rows[m]]
    /\ UNCHANGED <<clock, cursor, exportVars, importVars, netVars>>

\* The importer got a message by other means.
SaveMessageAtImporter(m) ==
    /\ m \notin have
    /\ have' = have \cup {m}
    /\ UNCHANGED <<storeVars, exportVars, known, recvVars, jobVarsB, netVars,
                   faults>>

-----------------------------------------------------------------------------
(* The importer asks for the delta.                                        *)

\* handlePeerConnected up to the send: one request is outstanding per peer.
Ask ==
    /\ requested' = "yes"
    /\ asking' = IF requested = "yes" THEN asking ELSE asking + 1
    /\ UNCHANGED <<incoming, got>>

\* The job of OnOpen. Muninn is asked once whether the peer is a replica; a
\* failed lookup ends the job.
handlePeerConnected ==
    /\ connJobs > 0
    /\ connJobs' = connJobs - 1
    /\ \/ known' = "replica" /\ Ask /\ UNCHANGED faults
       \/ known = "unknown" /\ Fault /\ UNCHANGED <<known, recvVars, asking>>
    /\ UNCHANGED <<storeVars, exportVars, have, importing, dropB, clearB,
                   netVars>>

\* After a Register: an equivalent endpoint that Muninn lists is trusted, and
\* asked at once when it is already connected (otherwise ConnectPeer: Open).
refreshReplicaConnections ==
    /\ known' = "replica"
    /\ IF Connected THEN Ask ELSE UNCHANGED <<recvVars, asking>>
    /\ UNCHANGED <<storeVars, exportVars, have, importing, connJobs, dropB,
                   clearB, netVars, faults>>

\* The request goes out on the channel that is open now, or is taken back.
SendStateSyncRequest ==
    /\ asking > 0
    /\ asking' = asking - 1
    /\ IF Connected
       THEN reqNet' = reqNet + 1 /\ UNCHANGED requested
       ELSE requested' = "no" /\ UNCHANGED reqNet
    /\ UNCHANGED <<storeVars, exportVars, have, known, incoming, got,
                   importing, connJobs, dropB, clearB, link, opens, toB,
                   ackNet, faults>>

\* The exporter's channel reader queues a job for a request.
DeliverRequest ==
    /\ reqNet > 0
    /\ reqNet' = reqNet - 1
    /\ reqJobs' = reqJobs + 1
    /\ UNCHANGED <<storeVars, trusted, outgoing, sendVars, ackJobs, acking,
                   dropA, clearA, importVars, link, opens, toB, ackNet, faults>>

-----------------------------------------------------------------------------
(* The exporter sends the delta.                                           *)

\* handleStateSyncRequest up to the export: the sender is authorized (a failed
\* lookup drops the request), the cursor is read and the checkpoint taken.
handleStateSyncRequest ==
    /\ reqJobs > 0
    /\ reqJobs' = reqJobs - 1
    /\ \/ \E t \in TransferID :
            /\ step[t] = "free"
            /\ step' = [step EXCEPT ![t] = "started"]
            /\ since' = [since EXCEPT ![t] = cursor]
            /\ check' = [check EXCEPT ![t] = clock]
            /\ trusted' = "replica"
            /\ UNCHANGED <<next, delta, faults>>
       \/ trusted = "unknown" /\ Fault /\ UNCHANGED <<trusted, sendVars>>
    /\ UNCHANGED <<storeVars, outgoing, ackJobs, acking, dropA, clearA,
                   importVars, netVars>>

\* (A variant of ExportMessagesForStateSync: a strict lower bound)
ExportMessagesForStateSyncStrict(t) ==
    {m \in Message : rows[m] # 0 /\ rows[m] > since[t] /\ rows[m] <= check[t]}

\* The query of the delta: both bounds are inclusive.
ExportMessagesForStateSync(t) ==
    {m \in Message : rows[m] # 0 /\ rows[m] >= since[t] /\ rows[m] <= check[t]}

\* sendStateSync from the store's lock to the registration of the transfer. A
\* failure of the store makes handleStateSyncRequest answer with an error.
sendStateSync(t) ==
    /\ step[t] = "started"
    /\ \/ /\ delta' = [delta EXCEPT ![t] = ExportMessagesForStateSync(t)]
          /\ step' = [step EXCEPT ![t] = "exported"]
          /\ outgoing' = t
          /\ UNCHANGED faults
       \/ /\ Fault
          /\ step' = [step EXCEPT ![t] = "failed"]
          /\ UNCHANGED <<delta, outgoing>>
    /\ UNCHANGED <<storeVars, trusted, next, since, check, jobVarsA, importVars,
                   netVars>>

\* (A variant of ClearTransfer: the transfer stays registered)
ClearTransferForgotten(t) == UNCHANGED outgoing

\* What a transfer that ends without all its messages leaves in outgoing.
ClearTransfer(t) == outgoing' = IF outgoing = t THEN None ELSE outgoing

\* (A variant of LastPart: a loop that stops early)
LastPartEarly == Parts - 1

\* The last chunk the sending loop hands to the channel.
LastPart == Parts

\* The manifest, then every chunk, on whatever channel is open; without one the
\* transfer ends and is forgotten.
SendNext(t) ==
    /\ step[t] = "exported"
    /\ IF Connected
       THEN /\ SendToB([type |-> IF next[t] = 0 THEN "manifest" ELSE "chunk",
                        id |-> t, index |-> next[t]])
            /\ next' = [next EXCEPT ![t] = @ + 1]
            /\ step' = [step EXCEPT ![t] = IF next[t] = LastPart THEN "done" ELSE @]
            /\ UNCHANGED outgoing
       ELSE /\ step' = [step EXCEPT ![t] = "failed"]
            /\ ClearTransfer(t)
            /\ UNCHANGED <<toB, next>>
    /\ UNCHANGED <<storeVars, trusted, since, check, delta, jobVarsA, importVars,
                   link, opens, reqNet, ackNet, faults>>

\* The error manifest of a failed sendStateSync.
SendError(t) ==
    /\ step[t] = "failed"
    /\ step' = [step EXCEPT ![t] = "done"]
    /\ SendToB([type |-> "error", id |-> t, index |-> 0])
    /\ UNCHANGED <<storeVars, trusted, outgoing, next, since, check, delta,
                   jobVarsA, importVars, link, opens, reqNet, ackNet, faults>>

-----------------------------------------------------------------------------
(* The importer's channel reader and the import.                           *)

Receive == toB # <<>> /\ toB' = Tail(toB)

\* An unrequested manifest is ignored, an error manifest ends the request, any
\* other manifest replaces the transfer being received.
handleStateSyncManifest ==
    /\ Receive
    /\ Head(toB).type # "chunk"
    /\ \/ /\ requested = "no"
          /\ UNCHANGED recvVars
       \/ /\ requested = "yes" /\ Head(toB).type = "error"
          /\ requested' = "no" /\ incoming' = None /\ got' = {}
       \/ /\ requested = "yes" /\ Head(toB).type = "manifest"
          /\ incoming' = Head(toB).id /\ got' = {}
          /\ UNCHANGED requested
    /\ UNCHANGED <<storeVars, exportVars, have, known, jobVarsB, link, opens,
                   reqNet, ackNet, faults>>

\* A chunk of the transfer being received; the last one starts the import.
handleStateSyncChunk ==
    /\ Receive
    /\ Head(toB).type = "chunk"
    /\ LET t == Head(toB).id
           all == got \cup {Head(toB).index} = 1..Parts
       IN IF incoming # t \/ got = 1..Parts
          THEN UNCHANGED <<got, importing>>
          ELSE /\ got' = got \cup {Head(toB).index}
               /\ importing' = IF all THEN [importing EXCEPT ![t] = "queued"]
                                      ELSE importing
    /\ UNCHANGED <<storeVars, exportVars, have, known, requested, incoming,
                   connJobs, asking, dropB, clearB, link, opens, reqNet, ackNet,
                   faults>>

\* clearIncomingStateSync: only when t is still the transfer being received.
clearIncomingStateSync(t) ==
    IF incoming = t
    THEN incoming' = None /\ got' = {}
           /\ requested' = "no"
    ELSE UNCHANGED recvVars

\* ImportStateSyncMessages: the messages that are absent, in one transaction.
ImportStateSyncMessages(t) == have' = have \cup delta[t]

\* failStateSyncImport: the request is over, and the exporter is told.
failStateSyncImport(t) ==
    /\ importing' = [importing EXCEPT ![t] = "none"]
    /\ clearIncomingStateSync(t)
    /\ SendAck(t, "import")

\* finishStateSyncImport: the chunks are joined, verified, decoded and imported;
\* any of these may fail.
finishStateSyncImport(t) ==
    /\ importing[t] = "queued"
    /\ \/ /\ ImportStateSyncMessages(t)
          /\ importing' = [importing EXCEPT ![t] = "committed"]
          /\ UNCHANGED <<recvVars, ackNet, faults>>
       \/ /\ Fault
          /\ failStateSyncImport(t)
          /\ UNCHANGED have
    /\ UNCHANGED <<storeVars, exportVars, known, connJobs, asking, dropB,
                   clearB, link, opens, toB, reqNet>>

\* After the commit: the request is over, and the import is acknowledged.
AcknowledgeImport(t) ==
    /\ importing[t] = "committed"
    /\ importing' = [importing EXCEPT ![t] = "none"]
    /\ clearIncomingStateSync(t)
    /\ SendAck(t, "none")
    /\ UNCHANGED <<storeVars, exportVars, have, known, connJobs, asking, dropB,
                   clearB, link, opens, toB, reqNet, faults>>

\* The exporter's channel reader queues a job for an acknowledgement.
DeliverAck(a) ==
    /\ a \in ackNet
    /\ ackNet' = ackNet \ {a}
    /\ ackJobs' = ackJobs \cup {a}
    /\ UNCHANGED <<storeVars, trusted, outgoing, sendVars, reqJobs, acking,
                   dropA, clearA, importVars, link, opens, toB, reqNet, faults>>

-----------------------------------------------------------------------------
(* The exporter's cursor.                                                  *)

\* handleStateSyncAck under the lock: an ACK that is not of the current outgoing
\* transfer is ignored, a rejected transfer is forgotten.
handleStateSyncAck(a) ==
    /\ a \in ackJobs
    /\ ackJobs' = ackJobs \ {a}
    /\ acking' = IF outgoing = a.id /\ a.error = "none"
                 THEN acking \cup {a.id} ELSE acking
    /\ outgoing' = IF outgoing = a.id /\ a.error # "none" THEN None ELSE outgoing
    /\ UNCHANGED <<storeVars, trusted, sendVars, reqJobs, dropA, clearA,
                   importVars, netVars, faults>>

\* The upsert of last_state_check keeps the larger checkpoint.
LastCheck(t) == IF check[t] > cursor THEN check[t] ELSE cursor

\* The rest of handleStateSyncAck: the checkpoint is persisted, the transfer is
\* over. When the store fails the transfer stays registered.
SetLastStateCheck(t) ==
    /\ t \in acking
    /\ acking' = acking \ {t}
    /\ \/ /\ cursor' = LastCheck(t)
          /\ ClearTransfer(t)
          /\ UNCHANGED faults
       \/ Fault /\ UNCHANGED <<cursor, outgoing>>
    /\ UNCHANGED <<clock, rows, trusted, sendVars, reqJobs, ackJobs, dropA,
                   clearA, importVars, netVars>>

-----------------------------------------------------------------------------
(* The data channel, and what its loss leaves behind.                      *)

\* A channel opens. (The exporter's own connect job belongs to the reverse
\* direction.)
Open ==
    /\ ~Connected /\ opens < MaxOpens
    /\ link' = "open"
    /\ opens' = opens + 1
    /\ connJobs' = connJobs + 1
    /\ UNCHANGED <<storeVars, exportVars, have, known, recvVars, importing,
                   asking, dropB, clearB, toB, reqNet, ackNet, faults>>

ChannelLost ==
    /\ link' = "closed"
    /\ toB' = <<>>
    /\ reqNet' = 0
    /\ ackNet' = {}
    /\ UNCHANGED opens

\* The connection fails or is replaced: both sides queue a disconnect job.
Break ==
    /\ Connected
    /\ ChannelLost
    /\ dropA' = dropA + 1
    /\ dropB' = dropB + 1
    /\ UNCHANGED <<storeVars, trusted, outgoing, sendVars, reqJobs, ackJobs,
                   acking, clearA, have, known, recvVars, importing, connJobs,
                   asking, clearB, faults>>

\* handlePeerDisconnected returns when a channel is open, and clears the state
\* kept for the peer otherwise, in a critical section of its own.
handlePeerDisconnectedA ==
    /\ dropA > 0
    /\ dropA' = dropA - 1
    /\ clearA' = IF Connected THEN clearA ELSE clearA + 1
    /\ UNCHANGED <<storeVars, trusted, outgoing, sendVars, reqJobs, ackJobs,
                   acking, importVars, netVars, faults>>

ClearOutgoing ==
    /\ clearA > 0
    /\ clearA' = clearA - 1
    /\ outgoing' = None
    /\ UNCHANGED <<storeVars, trusted, sendVars, reqJobs, ackJobs, acking,
                   dropA, importVars, netVars, faults>>

handlePeerDisconnectedB ==
    /\ dropB > 0
    /\ dropB' = dropB - 1
    /\ clearB' = IF Connected THEN clearB ELSE clearB + 1
    /\ UNCHANGED <<storeVars, exportVars, have, known, recvVars, importing,
                   connJobs, asking, netVars, faults>>

ClearIncoming ==
    /\ clearB > 0
    /\ clearB' = clearB - 1
    /\ requested' = "no"
    /\ incoming' = None
    /\ got' = {}
    /\ UNCHANGED <<storeVars, exportVars, have, known, importing, connJobs,
                   asking, dropB, netVars, faults>>

\* The exporter restarts: its memory is lost, the importer sees the channel go.
CrashA ==
    /\ Fault
    /\ ChannelLost
    /\ trusted' = "unknown"
    /\ outgoing' = None
    /\ step' = [t \in TransferID |-> IF step[t] = "free" THEN "free" ELSE "done"]
    /\ reqJobs' = 0 /\ ackJobs' = {} /\ acking' = {} /\ dropA' = 0 /\ clearA' = 0
    /\ dropB' = IF Connected THEN dropB + 1 ELSE dropB
    /\ UNCHANGED <<storeVars, next, since, check, delta, have, known, recvVars,
                   importing, connJobs, asking, clearB>>

CrashB ==
    /\ Fault
    /\ ChannelLost
    /\ known' = "unknown"
    /\ requested' = "no" /\ incoming' = None /\ got' = {}
    /\ importing' = [t \in TransferID |-> "none"]
    /\ connJobs' = 0 /\ asking' = 0 /\ dropB' = 0 /\ clearB' = 0
    /\ dropA' = IF Connected THEN dropA + 1 ELSE dropA
    /\ UNCHANGED <<storeVars, trusted, outgoing, sendVars, reqJobs, ackJobs,
                   acking, clearA, have>>

-----------------------------------------------------------------------------
Export(t) == sendStateSync(t) \/ SendNext(t) \/ SendError(t)
Import(t) == finishStateSyncImport(t) \/ AcknowledgeImport(t)

Next ==
    \/ Tick
    \/ \E m \in Message : SaveMessage(m) \/ SaveMessageAtImporter(m)
    \/ \E M \in SUBSET Message : ImportReplicationSnapshot(M)
    \/ handlePeerConnected \/ refreshReplicaConnections \/ SendStateSyncRequest
    \/ DeliverRequest \/ handleStateSyncRequest
    \/ \E t \in TransferID : Export(t) \/ Import(t) \/ SetLastStateCheck(t)
    \/ handleStateSyncManifest \/ handleStateSyncChunk
    \/ \E a \in Acks : DeliverAck(a) \/ handleStateSyncAck(a)
    \/ Open \/ Break
    \/ handlePeerDisconnectedA \/ ClearOutgoing
    \/ handlePeerDisconnectedB \/ ClearIncoming
    \/ CrashA \/ CrashB

Spec == Init /\ [][Next]_vars

\* Queued jobs run, started handlers finish and an open channel delivers. Nothing
\* is assumed of the user, of the connection, or of Register.
Fairness ==
    /\ WF_vars(handlePeerConnected) /\ WF_vars(SendStateSyncRequest)
    /\ WF_vars(DeliverRequest) /\ WF_vars(handleStateSyncRequest)
    /\ \A t \in TransferID :
         WF_vars(Export(t)) /\ WF_vars(Import(t)) /\ WF_vars(SetLastStateCheck(t))
    /\ WF_vars(handleStateSyncManifest) /\ WF_vars(handleStateSyncChunk)
    /\ \A a \in Acks : WF_vars(DeliverAck(a)) /\ WF_vars(handleStateSyncAck(a))
    /\ WF_vars(handlePeerDisconnectedA) /\ WF_vars(ClearOutgoing)
    /\ WF_vars(handlePeerDisconnectedB) /\ WF_vars(ClearIncoming)

FairSpec == Spec /\ Fairness

-----------------------------------------------------------------------------
(* Properties.                                                             *)

\* Every variable has its type.
TypeOK ==
    /\ clock \in Nat
    /\ rows \in [Message -> Nat]
    /\ cursor \in Nat
    /\ trusted \in {"unknown", "replica"}
    /\ outgoing \in TransferID \cup {None}
    /\ step \in [TransferID -> {"free", "started", "exported", "failed", "done"}]
    /\ next \in [TransferID -> 0..Parts + 1]
    /\ since \in [TransferID -> Nat]
    /\ check \in [TransferID -> Nat]
    /\ delta \in [TransferID -> SUBSET Message]
    /\ reqJobs \in Nat
    /\ ackJobs \subseteq Acks
    /\ acking \subseteq TransferID
    /\ dropA \in Nat /\ clearA \in Nat
    /\ have \subseteq Message
    /\ known \in {"unknown", "replica"}
    /\ requested \in {"no", "yes"}
    /\ incoming \in TransferID \cup {None}
    /\ got \subseteq 1..Parts
    /\ importing \in [TransferID -> {"none", "queued", "committed"}]
    /\ connJobs \in Nat /\ asking \in Nat /\ dropB \in Nat /\ clearB \in Nat
    /\ link \in {"open", "closed"}
    /\ opens \in Nat
    /\ toB \in Seq(Msg)
    /\ reqNet \in Nat
    /\ ackNet \subseteq Acks
    /\ faults \in Nat

\* The cursor hides nothing: a message the exporter stored before the checkpoint
\* that its last_state_check holds for the importer is in the importer's history,
\* so the next delta may leave it out. (ExportMessagesForStateSync and the
\* acknowledgement after the import)
CursorSafe ==
    \A m \in Message : rows[m] # 0 /\ rows[m] < cursor => m \in have

\* No job or handler is left on either device.
Quiet ==
    /\ reqJobs = 0 /\ dropA = 0 /\ clearA = 0
    /\ connJobs = 0 /\ asking = 0 /\ dropB = 0 /\ clearB = 0
    /\ \A t \in TransferID : step[t] \in {"free", "done"}

\* Once the channel is gone and every job has run, no request, partly received
\* delta or unacknowledged transfer is left over: nothing stale can suppress the
\* request of the next channel. (handlePeerDisconnected, sendStateSync)
CleanWhenDown ==
    ~Connected /\ Quiet => requested = "no" /\ incoming = None /\ outgoing = None

\* A message stored before the devices have had a channel reaches the other device
\* over the first one, if that stays open and nothing fails from its opening on,
\* whatever has failed or been restarted before. (handlePeerConnected up to
\* finishStateSyncImport)
FirstChannelExchanges ==
    \A m \in Message, k \in 0..MaxFaults :
        [](rows[m] # 0 /\ opens = 0 /\ faults = k
              => (<>[](Connected /\ opens = 1 /\ faults = k) => <>(m \in have)))

\* The same of every later channel: what a channel leaves behind does not keep the
\* next one from exchanging a message that was stored between them. (the request at
\* the opening of a channel, handlePeerDisconnected)
ResentAfterBreak ==
    \A m \in Message, k \in 0..MaxFaults :
        [](rows[m] # 0 /\ ~Connected /\ faults = k
              => (<>[](Connected /\ faults = k) => <>(m \in have)))

=============================================================================
