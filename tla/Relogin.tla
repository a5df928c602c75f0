------------------------------ MODULE Relogin ------------------------------
(***************************************************************************)
(* Relogin: a device takes over the identity and the history of a user's   *)
(* other device. ApplyReloginSignature asks the device the signature names *)
(* for its keys and a snapshot of its database; the snapshot comes in      *)
(* chunks, is checked against a hash and imported in one transaction; then *)
(* the keys and the configuration are saved.                               *)
(*                                                                         *)
(* internal/messenger/{relogin,relogin_replication}.go,                    *)
(* internal/store/{replicationStore,configStore}.go,                       *)
(* internal/webrtc/webrtc.go                                               *)
(*                                                                         *)
(* An attempt is one call of ApplyReloginSignature, with the               *)
(* reloginTransferState it allocates, the source's handler that answers it *)
(* and the pool job that finishes it; the transfer ID of the answer is the *)
(* attempt that asked. The call, the handler, the receiving callback and   *)
(* the job run concurrently. Snapshots of a source are told apart by the   *)
(* version of its database: the hash of a snapshot is its version, and     *)
(* each of its chunks holds it.                                            *)
(***************************************************************************)
EXTENDS Integers, Sequences

CONSTANTS
    Peer,        \* sources
    Legacy,      \* sources of an earlier release: they answer with keys only
    Attempt,     \* calls of ApplyReloginSignature
    SourceOf,    \* [Attempt -> Peer], the device that made the signature
    Version,     \* versions of a source's database
    Count,       \* [Version -> Nat], chunks of a snapshot
    MaxFaults,   \* bound: lost messages, failures at the source, restarts
    MaxErrors    \* bound: failures of the target's own store

ASSUME ReloginAssumption ==
    /\ Legacy \subseteq Peer
    /\ "own" \notin Peer /\ "none" \notin Peer
    /\ Attempt \subseteq Nat \ {0}
    /\ SourceOf \in [Attempt -> Peer]
    /\ Version \subseteq Nat \ {0}
    /\ Count \in [Version -> Nat \ {0}]
    /\ MaxFaults \in Nat
    /\ MaxErrors \in Nat

VARIABLES
    \* the source's database and its handlers, the channels to the target
    srv,         \* the handler of an attempt's request: "none", "asked",
                 \* "sending" or "done"
    export,      \* the version it exported, 0: none
    sent,        \* how many chunks it has sent
    channel,     \* messages on their way, in order
    \* the target's memory
    pc,          \* where the call is
    cur,         \* reloginTransfer, 0: nil
    transfer,    \* the reloginTransferState of an attempt
    result,      \* its result channel, of capacity one
    fin,         \* its job finishReloginTransfer
    bytes,       \* what the job has read
    memName,     \* appConfig.Username
    loaded,      \* snapshots whose contacts are in peersMap
    \* the target's database
    imported,    \* snapshots imported
    keys,        \* whose keys are saved
    name,        \* whose name is saved
    faults, errors

sourceVars == <<srv, export, sent>>
jobVars    == <<fin, bytes>>
idVars     == <<memName, keys, name>>
boundVars  == <<faults, errors>>
vars == <<sourceVars, channel, pc, cur, transfer, result, jobVars, idVars, loaded,
          imported, boundVars>>

Fault == faults < MaxFaults /\ faults' = faults + 1 /\ UNCHANGED errors
Error == errors < MaxErrors /\ errors' = errors + 1 /\ UNCHANGED faults

\* The chunks of a snapshot, all there.
Whole(v) == [i \in 1..Count[v] |-> v]

NoTransfer == [tid |-> 0, keys |-> "none", hash |-> 0, chunks |-> <<>>,
               received |-> 0, processing |-> "no", completed |-> "no"]

NoResult == [status |-> "none", keys |-> "none", snapshot |-> <<>>]
Failed   == [status |-> "error", keys |-> "none", snapshot |-> <<>>]
Success(k, s) == [status |-> "ok", keys |-> k, snapshot |-> s]

Init ==
    /\ srv = [a \in Attempt |-> "none"]
    /\ export = [a \in Attempt |-> 0]
    /\ sent = [a \in Attempt |-> 0]
    /\ channel = [p \in Peer |-> <<>>]
    /\ pc = [a \in Attempt |-> "new"]
    /\ cur = 0
    /\ transfer = [a \in Attempt |-> NoTransfer]
    /\ result = [a \in Attempt |-> NoResult]
    /\ fin = [a \in Attempt |-> "no"]
    /\ bytes = [a \in Attempt |-> <<>>]
    /\ memName = "own" /\ keys = "own" /\ name = "own"
    /\ loaded = {} /\ imported = {}
    /\ faults = 0 /\ errors = 0

-----------------------------------------------------------------------------
(* ApplyReloginSignature. The signature is valid and the source connected. *)

Go(a, label) == pc' = [pc EXCEPT ![a] = label]

\* (A variant of clearReloginTransfer: it is not deferred to every return)
clearReloginTransferOnSuccess(a) ==
    cur' = IF cur = a /\ pc'[a] = "ok" THEN 0 ELSE cur

clearReloginTransfer(a) == cur' = IF cur = a THEN 0 ELSE cur

\* Every return of the call, deferred clearReloginTransfer included.
Return(a, outcome) == Go(a, outcome) /\ clearReloginTransfer(a)

\* (A variant of ApplyReloginSignature: a relogin in progress is overridden)
ApplyReloginSignatureAnyway(a) ==
    /\ pc[a] = "new"
    /\ cur' = a /\ Go(a, "send")
    /\ UNCHANGED <<sourceVars, channel, transfer, result, jobVars, idVars, loaded,
                   imported, boundVars>>

\* One relogin at a time; a second call returns at once.
ApplyReloginSignature(a) ==
    /\ pc[a] = "new"
    /\ IF cur = 0
       THEN cur' = a /\ Go(a, "send")
       ELSE Go(a, "failed") /\ UNCHANGED cur
    /\ UNCHANGED <<sourceVars, channel, transfer, result, jobVars, idVars, loaded,
                   imported, boundVars>>

\* The request may be lost on the way without an error.
SendReloginRequest(a) ==
    /\ pc[a] = "send"
    /\ \/ /\ Go(a, "wait") /\ UNCHANGED cur
          /\ \/ srv' = [srv EXCEPT ![a] = "asked"] /\ UNCHANGED boundVars
             \/ Fault /\ UNCHANGED srv
       \/ Fault /\ Return(a, "failed") /\ UNCHANGED srv
    /\ UNCHANGED <<export, sent, channel, transfer, result, jobVars, idVars,
                   loaded, imported>>

\* The two minutes are over. Select may prefer this to a result that is there.
Timeout(a) ==
    /\ pc[a] = "wait"
    /\ Return(a, "failed")
    /\ UNCHANGED <<sourceVars, channel, transfer, result, jobVars, idVars, loaded,
                   imported, boundVars>>

TakeResult(a) ==
    /\ pc[a] = "wait" /\ result[a].status # "none"
    /\ IF result[a].status = "ok"
       THEN Go(a, "keys") /\ UNCHANGED cur
       ELSE Return(a, "failed")
    /\ UNCHANGED <<sourceVars, channel, transfer, result, jobVars, idVars, loaded,
                   imported, boundVars>>

\* (A variant of SaveKeysJSON: appConfig keeps the old name)
SaveKeysJSONNameKept(a) ==
    /\ pc[a] = "keys"
    /\ \/ keys' = result[a].keys /\ Go(a, "config") /\ UNCHANGED <<cur, boundVars>>
       \/ Error /\ Return(a, "failed") /\ UNCHANGED keys
    /\ UNCHANGED <<sourceVars, channel, transfer, result, jobVars, memName, name,
                   loaded, imported>>

\* The keys are saved and taken into use, then the name in appConfig.
SaveKeysJSON(a) ==
    /\ pc[a] = "keys"
    /\ \/ /\ keys' = result[a].keys
          /\ memName' = SourceOf[a]
          /\ Go(a, "config")
          /\ UNCHANGED <<cur, boundVars>>
       \/ Error /\ Return(a, "failed") /\ UNCHANGED <<keys, memName>>
    /\ UNCHANGED <<sourceVars, channel, transfer, result, jobVars, name, loaded,
                   imported>>

\* SaveAppConfig writes its values one by one: an error may come before or after
\* the name.
SaveAppConfig(a) ==
    /\ pc[a] = "config"
    /\ \/ name' = memName /\ Go(a, "reload") /\ UNCHANGED <<cur, boundVars>>
       \/ Error /\ name' \in {name, memName} /\ Return(a, "failed")
    /\ UNCHANGED <<sourceVars, channel, transfer, result, jobVars, memName, keys,
                   loaded, imported>>

\* The contacts of the database go to peersMap; a failed query is only logged.
\* queueFileDownloads is in FileDownload.
reloadReplicatedPeers(a) ==
    /\ pc[a] = "reload"
    /\ \/ loaded' = imported /\ UNCHANGED boundVars
       \/ Error /\ UNCHANGED loaded
    /\ Return(a, "ok")
    /\ UNCHANGED <<sourceVars, channel, transfer, result, jobVars, idVars, imported>>

\* The user saves the settings, the name in appConfig among them.
SaveConfig ==
    /\ name # memName /\ name' = memName
    /\ UNCHANGED <<sourceVars, channel, pc, cur, transfer, result, jobVars, memName,
                   keys, loaded, imported, boundVars>>

-----------------------------------------------------------------------------
(* The source. Its handler runs in the pool, one job per request.          *)

Send(a, msg) ==
    channel' = [channel EXCEPT ![SourceOf[a]] = Append(@, msg)]

\* One transaction reads the messages, contacts and groups. The database may have
\* changed since another export, or not.
ExportReplicationSnapshot(a, v) == export' = [export EXCEPT ![a] = v]

\* The handler reads the keys, exports a snapshot and answers.
handleReloginRequest(a) ==
    /\ srv[a] = "asked"
    /\ \/ /\ SourceOf[a] \notin Legacy
          /\ \E v \in Version :
               /\ ExportReplicationSnapshot(a, v)
               /\ Send(a, [kind |-> "data", tid |-> a, hash |-> v])
          /\ srv' = [srv EXCEPT ![a] = "sending"]
          /\ UNCHANGED boundVars
       \/ /\ SourceOf[a] \in Legacy
          /\ srv' = [srv EXCEPT ![a] = "done"]
          /\ Send(a, [kind |-> "keys", tid |-> 0, hash |-> 0])
          /\ UNCHANGED <<export, boundVars>>
       \/ /\ srv' = [srv EXCEPT ![a] = "done"]
          /\ Send(a, [kind |-> "error", tid |-> 0, hash |-> 0])
          /\ Fault /\ UNCHANGED export
    /\ UNCHANGED <<sent, pc, cur, transfer, result, jobVars, idVars, loaded,
                   imported>>

\* It stops at the first chunk it cannot send.
SendReloginChunk(a) ==
    /\ srv[a] = "sending"
    /\ \/ /\ Send(a, [kind |-> "chunk", tid |-> a, hash |-> export[a],
                      index |-> sent[a] + 1])
          /\ sent' = [sent EXCEPT ![a] = @ + 1]
          /\ srv' = [srv EXCEPT ![a] = IF sent[a] + 1 = Count[export[a]]
                                       THEN "done" ELSE "sending"]
          /\ UNCHANGED boundVars
       \/ /\ srv' = [srv EXCEPT ![a] = "done"]
          /\ Fault /\ UNCHANGED <<channel, sent>>
    /\ UNCHANGED <<export, pc, cur, transfer, result, jobVars, idVars,
                   loaded, imported>>

\* The data channel is ordered and reliable until it is closed.
Disconnect(p) ==
    /\ channel[p] # <<>>
    /\ channel' = [channel EXCEPT ![p] = <<>>]
    /\ Fault
    /\ UNCHANGED <<sourceVars, pc, cur, transfer, result, jobVars, idVars, loaded,
                   imported>>

-----------------------------------------------------------------------------
(* The target receives.                                                    *)

\* completeReloginTransfer does nothing for another attempt than the current.
Current(a) == cur = a /\ transfer[a].completed = "no"

completeReloginTransfer(a, r) ==
    IF Current(a)
    THEN /\ transfer' = [transfer EXCEPT ![a].completed = "yes"]
         /\ result' = [result EXCEPT ![a] = r]
    ELSE UNCHANGED <<transfer, result>>

Expected(p) ==
    /\ cur # 0
    /\ SourceOf[cur] = p
    /\ transfer[cur].completed = "no"

\* A response with a snapshot sets up the chunks; it leaves received and
\* processing as they are.
acceptReloginResponse(p, msg) ==
    CASE ~Expected(p) -> UNCHANGED <<transfer, result>>
      [] Expected(p) /\ msg.kind = "error" -> completeReloginTransfer(cur, Failed)
      [] Expected(p) /\ msg.kind = "keys" -> completeReloginTransfer(cur, Success(p, <<>>))
      [] Expected(p) /\ msg.kind = "data" ->
           /\ transfer' = [transfer EXCEPT
                ![cur].tid = msg.tid,
                ![cur].keys = p,
                ![cur].hash = msg.hash,
                ![cur].chunks = [i \in 1..Count[msg.hash] |-> 0]]
           /\ UNCHANGED result

\* The transfer with a chunk put in its place, counted the first time.
WithChunk(t, msg) ==
    IF t.chunks[msg.index] = 0
    THEN [t EXCEPT !.chunks[msg.index] = msg.hash, !.received = @ + 1]
    ELSE t

Assembled(t) == t.received = Len(t.chunks) /\ t.processing = "no"

\* The last chunk submits the job. (The index is always within the chunks: they
\* were made for the transfer the chunk belongs to.)
acceptReloginChunk(p, msg) ==
    LET t == WithChunk(transfer[cur], msg)
    IN  IF Expected(p) /\ transfer[cur].tid = msg.tid
        THEN IF Assembled(t)
             THEN /\ transfer' = [transfer EXCEPT ![cur] = [t EXCEPT !.processing = "yes"]]
                  /\ fin' = [fin EXCEPT ![cur] = "queued"]
             ELSE /\ transfer' = [transfer EXCEPT ![cur] = t]
                  /\ UNCHANGED fin
        ELSE UNCHANGED <<transfer, fin>>

\* The callback of the data channel handles one message after the other.
ReceiveResponse(p) ==
    /\ channel[p] # <<>> /\ Head(channel[p]).kind # "chunk"
    /\ channel' = [channel EXCEPT ![p] = Tail(@)]
    /\ acceptReloginResponse(p, Head(channel[p]))
    /\ UNCHANGED <<sourceVars, pc, cur, jobVars, idVars, loaded, imported, boundVars>>

ReceiveChunk(p) ==
    /\ channel[p] # <<>> /\ Head(channel[p]).kind = "chunk"
    /\ channel' = [channel EXCEPT ![p] = Tail(@)]
    /\ acceptReloginChunk(p, Head(channel[p]))
    /\ UNCHANGED <<sourceVars, pc, cur, result, bytes, idVars, loaded, imported,
                   boundVars>>

-----------------------------------------------------------------------------
(* finishReloginTransfer. It holds no lock: what it reads of the transfer, *)
(* it reads as a response of the same source may have left it.             *)

Finish(a, label) == fin' = [fin EXCEPT ![a] = label]

finishReloginTransfer(a) ==
    /\ fin[a] = "queued" /\ Finish(a, "hash")
    /\ bytes' = [bytes EXCEPT ![a] = transfer[a].chunks]
    /\ UNCHANGED <<sourceVars, channel, pc, cur, transfer, result, idVars, loaded,
                   imported, boundVars>>

\* (A variant of ChecksumMatches: only the expected hash is looked at)
ChecksumMatchesAny(a) == transfer[a].hash # 0

ChecksumMatches(a) == transfer[a].hash # 0 /\ bytes[a] = Whole(transfer[a].hash)

CheckHash(a) ==
    /\ fin[a] = "hash"
    /\ \/ ChecksumMatches(a) /\ Finish(a, "import") /\ UNCHANGED <<transfer, result>>
       \/ /\ ~ChecksumMatches(a)
          /\ Finish(a, "done")
          /\ completeReloginTransfer(a, Failed)
    /\ UNCHANGED <<sourceVars, channel, pc, cur, bytes, idVars, loaded, imported,
                   boundVars>>

\* (A variant of ImportReplicationSnapshot: a failed import is only logged)
ImportReplicationSnapshotAnyway(a) ==
    /\ fin[a] = "import" /\ Finish(a, "complete")
    /\ \/ imported' = imported \cup {<<SourceOf[a], bytes[a]>>} /\ UNCHANGED boundVars
       \/ Error /\ UNCHANGED imported
    /\ UNCHANGED <<sourceVars, channel, pc, cur, transfer, result, bytes, idVars, loaded>>

\* One transaction, whether or not the call still waits for it.
ImportReplicationSnapshot(a) ==
    /\ fin[a] = "import"
    /\ \/ /\ imported' = imported \cup {<<SourceOf[a], bytes[a]>>}
          /\ Finish(a, "complete")
          /\ UNCHANGED <<transfer, result, boundVars>>
       \/ /\ Error
          /\ Finish(a, "done")
          /\ completeReloginTransfer(a, Failed)
          /\ UNCHANGED imported
    /\ UNCHANGED <<sourceVars, channel, pc, cur, bytes, idVars, loaded>>

CompleteTransfer(a) ==
    /\ fin[a] = "complete" /\ Finish(a, "done")
    /\ completeReloginTransfer(a, Success(transfer[a].keys, bytes[a]))
    /\ UNCHANGED <<sourceVars, channel, pc, cur, bytes, idVars, loaded, imported,
                   boundVars>>

-----------------------------------------------------------------------------
\* The target stops and starts again: calls and jobs are gone, the import is a
\* transaction, and the configuration is loaded from the database.
Crash ==
    /\ \E a \in Attempt : pc[a] \notin {"new", "ok", "failed"} \/ fin[a] \notin {"no", "done"}
    /\ Fault
    /\ pc' = [a \in Attempt |-> IF pc[a] \in {"new", "ok"} THEN pc[a] ELSE "failed"]
    /\ fin' = [a \in Attempt |-> IF fin[a] = "no" THEN "no" ELSE "done"]
    /\ cur' = 0
    /\ channel' = [p \in Peer |-> <<>>]
    /\ memName' = name
    /\ loaded' = imported
    /\ UNCHANGED <<sourceVars, transfer, result, bytes, keys, name, imported>>

Call(a) ==
    \/ SendReloginRequest(a) \/ TakeResult(a) \/ SaveKeysJSON(a) \/ SaveAppConfig(a)
    \/ reloadReplicatedPeers(a)

Job(a) ==
    \/ finishReloginTransfer(a) \/ CheckHash(a) \/ ImportReplicationSnapshot(a)
    \/ CompleteTransfer(a)

Next ==
    \/ \E a \in Attempt : \/ ApplyReloginSignature(a) \/ Call(a) \/ Timeout(a)
                          \/ Job(a)
                          \/ handleReloginRequest(a) \/ SendReloginChunk(a)
    \/ \E p \in Peer : \/ ReceiveResponse(p) \/ ReceiveChunk(p)
                       \/ Disconnect(p)
    \/ SaveConfig
    \/ Crash

Spec == Init /\ [][Next]_vars

\* A call goes on or its timer fires; nothing is assumed of the source.
FairSpec ==
    /\ Spec
    /\ WF_vars(\E a \in Attempt : Call(a) \/ Timeout(a))

-----------------------------------------------------------------------------
Message ==
    [kind : {"data", "keys", "error"}, tid : Attempt \cup {0}, hash : Version \cup {0}]
    \cup [kind : {"chunk"}, tid : Attempt, hash : Version, index : Nat]

Chunks == Seq(Version \cup {0})

Transfer ==
    [tid : Attempt \cup {0}, keys : Peer \cup {"none"}, hash : Version \cup {0},
     chunks : Chunks, received : Nat, processing : {"no", "yes"},
     completed : {"no", "yes"}]

\* Types; contacts in memory come from imported snapshots.
TypeOK ==
    /\ srv \in [Attempt -> {"none", "asked", "sending", "done"}]
    /\ export \in [Attempt -> Version \cup {0}]
    /\ sent \in [Attempt -> Nat]
    /\ channel \in [Peer -> Seq(Message)]
    /\ pc \in [Attempt -> {"new", "send", "wait", "keys", "config", "reload", "ok", "failed"}]
    /\ cur \in Attempt \cup {0}
    /\ transfer \in [Attempt -> Transfer]
    /\ result \in [Attempt -> [status : {"none", "error", "ok"}, keys : Peer \cup {"none"},
                               snapshot : Chunks]]
    /\ fin \in [Attempt -> {"no", "queued", "hash", "import", "complete", "done"}]
    /\ bytes \in [Attempt -> Chunks]
    /\ memName \in Peer \cup {"own"}
    /\ keys \in Peer \cup {"own"}
    /\ name \in Peer \cup {"own"}
    /\ imported \subseteq Peer \X Chunks
    /\ loaded \subseteq imported
    /\ faults \in Nat
    /\ errors \in Nat

\* What is imported is a whole snapshot, never chunks of two of them or with one
\* missing, though the job reads the transfer without the lock
\* (relogin_replication.go:186-212).
ImportsAreWhole ==
    \A s \in imported : \E v \in Version : s[2] = Whole(v)

\* Neither the keys nor the name of a source are saved before a whole snapshot of
\* it has been imported, whatever is lost, late or repeated (relogin.go:116-135,
\* relogin_replication.go:186-212).
ImportBeforeIdentity ==
    \A p \in Peer \ Legacy :
        p \in {keys, name} => \E v \in Version : <<p, Whole(v)>> \in imported

\* A call that succeeds leaves the keys and the name of the device whose signature
\* was applied, with the history that came with the result it took
\* (relogin.go:92-143).
SuccessIsWhole ==
    [][\A a \in Attempt :
        pc[a] # "ok" /\ pc'[a] = "ok" =>
            /\ keys = SourceOf[a] /\ name = SourceOf[a]
            /\ \/ SourceOf[a] \in Legacy
               \/ <<SourceOf[a], result[a].snapshot>> \in imported]_vars

\* Unless something fails, keys and name change together: neither a call that times
\* out nor a late result leaves one of them behind (relogin.go:116-135).
IdentityWhole ==
    errors = 0 /\ faults = 0 =>
        keys = name \/ \E a \in Attempt : pc[a] = "config"

\* A relogin in progress comes to an end, so that another one can be started
\* (relogin.go:78-103).
EventuallyFree == cur # 0 ~> cur = 0
=============================================================================
