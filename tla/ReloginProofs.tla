---------------------------- MODULE ReloginProofs ----------------------------
(***************************************************************************)
(* Safety of Relogin for every set of sources, attempts and versions,      *)
(* every size of a snapshot and every number of failures and restarts.     *)
(***************************************************************************)
EXTENDS Relogin, SequenceTheorems, TLAPS

Running == {"send", "wait", "keys", "config", "reload"}

\* reloginTransfer: one call at a time is under way, and its transfer is the current one.
OneCall == \A a \in Attempt : pc[a] \in Running <=> cur = a

\* What a source sends: keys alone only in an earlier release, otherwise the
\* version it has exported for the attempt that asked.
Honest ==
    /\ \A a \in Attempt : srv[a] = "sending" => export[a] \in Version
    /\ \A p \in Peer : \A i \in 1..Len(channel[p]) :
         LET msg == channel[p][i] IN
         /\ msg.kind = "keys" => p \in Legacy
         /\ msg.kind = "data" => msg.tid \in Attempt /\ msg.hash \in Version

\* A transfer has the keys of the device its attempt has asked as soon as it has
\* an ID, a job belongs to such a transfer, and a transfer with a result is
\* completed.
TransferOfSource ==
    \A a \in Attempt :
        /\ transfer[a].keys = IF transfer[a].tid = 0 THEN "none" ELSE SourceOf[a]
        /\ fin[a] # "no" => transfer[a].tid # 0
        /\ result[a].status # "none" => transfer[a].completed = "yes"

\* A job that imports has a whole snapshot in hand, and one that completes the
\* transfer has imported it.
JobHasWhole ==
    \A a \in Attempt :
        /\ fin[a] \in {"import", "complete"} => \E v \in Version : bytes[a] = Whole(v)
        /\ fin[a] = "complete" => <<SourceOf[a], bytes[a]>> \in imported

\* A result that says ok has the keys of the device that was asked, whose snapshot
\* is imported if it sends one; a call goes on with such a result only.
ResultIsWhole ==
    \A a \in Attempt :
        /\ result[a].status = "ok" =>
             /\ result[a].keys = SourceOf[a]
             /\ SourceOf[a] \in Legacy \/ <<SourceOf[a], result[a].snapshot>> \in imported
        /\ pc[a] \in {"keys", "config", "reload"} => result[a].status = "ok"

Backed(p) ==
    p \in Peer \ Legacy => \E v \in Version : <<p, Whole(v)>> \in imported

\* Keys, name and the name in memory are those of devices with a snapshot here;
\* after SaveKeysJSON keys and the name in memory are the source's, after
\* SaveAppConfig the name is; and they differ only because of a restart.
Identity ==
    /\ Backed(keys) /\ Backed(name) /\ Backed(memName)
    /\ \A a \in Attempt :
         /\ pc[a] \in {"config", "reload"} => keys = SourceOf[a] /\ memName = SourceOf[a]
         /\ pc[a] = "reload" => name = SourceOf[a]
    /\ faults = 0 => keys = memName

IInv ==
    /\ TypeOK
    /\ OneCall
    /\ Honest
    /\ TransferOfSource
    /\ JobHasWhole
    /\ ResultIsWhole
    /\ ImportsAreWhole
    /\ Identity
    /\ IdentityWhole
-----------------------------------------------------------------------------
(* Type correctness.                                                       *)

\* An array of n values is a sequence.
LEMMA ArrayType ==
    ASSUME NEW S, NEW n \in Nat, NEW s \in [1..n -> S]
    PROVE  s \in Seq(S)
OBVIOUS

LEMMA WholeType ==
    ASSUME NEW v \in Version
    PROVE  Whole(v) \in Chunks /\ [i \in 1..Count[v] |-> 0] \in Chunks
<1>1. Count[v] \in Nat  BY ReloginAssumption
<1>2. Whole(v) \in [1..Count[v] -> Version \cup {0}]  BY DEF Whole
<1> QED  BY <1>1, <1>2, ArrayType DEF Chunks

LEMMA ChunkPut ==
    ASSUME NEW s \in Chunks, NEW j, NEW v \in Version
    PROVE  [s EXCEPT ![j] = v] \in Chunks
<1>1. Len(s) \in Nat /\ s \in [1..Len(s) -> Version \cup {0}]  BY DEF Chunks
<1>2. [s EXCEPT ![j] = v] \in [1..Len(s) -> Version \cup {0}]  BY <1>1
<1> QED  BY <1>1, <1>2, ArrayType DEF Chunks

\* Updates of a transfer, field by field.
LEMMA RecordPut ==
    ASSUME NEW A, NEW K, NEW H, NEW C,
           NEW t \in [tid : A, keys : K, hash : H, chunks : C, received : Nat,
                      processing : {"no", "yes"}, completed : {"no", "yes"}]
    PROVE  LET R == [tid : A, keys : K, hash : H, chunks : C, received : Nat,
                     processing : {"no", "yes"}, completed : {"no", "yes"}]
           IN /\ [t EXCEPT !.completed = "yes"] \in R
              /\ [t EXCEPT !.processing = "yes"] \in R
              /\ \A a \in A, k \in K, h \in H, c \in C :
                   [t EXCEPT !.tid = a, !.keys = k, !.hash = h, !.chunks = c] \in R
              /\ \A c \in C, n \in Nat : [t EXCEPT !.chunks = c, !.received = n] \in R
OBVIOUS

LEMMA TransferPut ==
    ASSUME NEW t \in Transfer
    PROVE  /\ [t EXCEPT !.completed = "yes"] \in Transfer
           /\ [t EXCEPT !.processing = "yes"] \in Transfer
           /\ \A a \in Attempt \cup {0}, p \in Peer \cup {"none"}, h \in Version \cup {0},
                 c \in Chunks :
                [t EXCEPT !.tid = a, !.keys = p, !.hash = h, !.chunks = c] \in Transfer
           /\ \A c \in Chunks, n \in Nat :
                [t EXCEPT !.chunks = c, !.received = n] \in Transfer
<1> DEFINE A == Attempt \cup {0}  K == Peer \cup {"none"}  H == Version \cup {0}
<1>1. Transfer = [tid : A, keys : K, hash : H, chunks : Chunks, received : Nat,
                  processing : {"no", "yes"}, completed : {"no", "yes"}]
  BY DEF Transfer
<1> HIDE DEF A, K, H
<1>2. /\ [t EXCEPT !.completed = "yes"] \in Transfer
      /\ [t EXCEPT !.processing = "yes"] \in Transfer
      /\ \A a \in A, p \in K, h \in H, c \in Chunks :
           [t EXCEPT !.tid = a, !.keys = p, !.hash = h, !.chunks = c] \in Transfer
      /\ \A c \in Chunks, n \in Nat : [t EXCEPT !.chunks = c, !.received = n] \in Transfer
  BY <1>1, RecordPut
<1> QED  BY <1>2 DEF A, K, H

LEMMA WithChunkType ==
    ASSUME NEW t \in Transfer, NEW msg \in Message, msg.kind = "chunk"
    PROVE  /\ WithChunk(t, msg) \in Transfer
           /\ WithChunk(t, msg).tid = t.tid /\ WithChunk(t, msg).keys = t.keys
           /\ WithChunk(t, msg).completed = t.completed
<1>1. msg.hash \in Version  BY DEF Message
<1> DEFINE c == [t.chunks EXCEPT ![msg.index] = msg.hash]
           n == t.received + 1
           put == [t EXCEPT !.chunks = c, !.received = n]
<1>2. t.chunks \in Chunks /\ t.received \in Nat  BY DEF Transfer
<1>3. c \in Chunks /\ n \in Nat
  <2>1. c \in Chunks  BY <1>1, <1>2, ChunkPut
  <2>2. n \in Nat  BY <1>2
  <2> QED  BY <2>1, <2>2
<1>4. [t EXCEPT !.chunks[msg.index] = msg.hash, !.received = @ + 1] = put
  OBVIOUS
<1>5. put.tid = t.tid /\ put.keys = t.keys /\ put.completed = t.completed
  OBVIOUS
<1> HIDE DEF c, n
<1>6. put \in Transfer  BY <1>3, TransferPut
<1> HIDE DEF put
<1> QED  BY <1>4, <1>5, <1>6 DEF WithChunk, c, n

\* What a source sends is a message, and the head of a channel is one too.
LEMMA HeadType ==
    ASSUME TypeOK, Honest, NEW p \in Peer, channel[p] # <<>>
    PROVE  /\ Head(channel[p]) \in Message /\ Tail(channel[p]) \in Seq(Message)
           /\ Head(channel[p]).kind = "keys" => p \in Legacy
           /\ Head(channel[p]).kind = "data" =>
                Head(channel[p]).tid \in Attempt /\ Head(channel[p]).hash \in Version
<1>1. channel[p] \in Seq(Message)  BY DEF TypeOK
<1>2. Len(channel[p]) >= 1 /\ Head(channel[p]) = channel[p][1]  BY <1>1
<1>3. 1 \in 1..Len(channel[p])  BY <1>1, <1>2
<1> QED  BY <1>1, <1>2, <1>3 DEF Honest

LEMMA CompleteType ==
    ASSUME transfer \in [Attempt -> Transfer], NEW R, result \in [Attempt -> R],
           NEW a \in Attempt, NEW r \in R, completeReloginTransfer(a, r)
    PROVE  transfer' \in [Attempt -> Transfer] /\ result' \in [Attempt -> R]
<1>1. CASE Current(a)
  <2>1. [transfer[a] EXCEPT !.completed = "yes"] \in Transfer  BY TransferPut
  <2> QED  BY <1>1, <2>1 DEF completeReloginTransfer
<1>2. CASE ~ Current(a)
  BY <1>2 DEF completeReloginTransfer
<1> QED  BY <1>1, <1>2

LEMMA TypeInit == Init => TypeOK
<1>1. <<>> \in Chunks  BY DEF Chunks
<1> QED
  BY <1>1, ReloginAssumption
  DEF Init, TypeOK, NoTransfer, NoResult, Transfer

LEMMA TypeStep == TypeOK /\ Honest /\ ResultIsWhole /\ [Next]_vars => TypeOK'
<1> SUFFICES ASSUME TypeOK, Honest, ResultIsWhole, [Next]_vars PROVE TypeOK'  OBVIOUS
<1> USE ReloginAssumption DEF sourceVars, jobVars, idVars, boundVars, Go, Finish
<1> DEFINE Result == [status : {"none", "error", "ok"}, keys : Peer \cup {"none"},
                      snapshot : Chunks]
<1>a. transfer \in [Attempt -> Transfer] /\ result \in [Attempt -> Result]
  BY DEF TypeOK
<1>0. <<>> \in Chunks  BY DEF Chunks
<1>1. faults' \in Nat /\ errors' \in Nat
  <2>1. Fault \/ Error \/ UNCHANGED boundVars
    BY ZenonT(30) DEF Next, Call, Job, vars, ApplyReloginSignature, SendReloginRequest, Timeout,
      TakeResult, SaveKeysJSON, SaveAppConfig, reloadReplicatedPeers, SaveConfig,
      handleReloginRequest, SendReloginChunk, Disconnect, ReceiveResponse, ReceiveChunk,
      finishReloginTransfer, CheckHash, ImportReplicationSnapshot, CompleteTransfer, Crash
  <2> QED  BY <2>1 DEF Fault, Error, TypeOK
<1>2. ASSUME NEW a \in Attempt, ApplyReloginSignature(a) PROVE TypeOK'
  BY <1>1, <1>2 DEF ApplyReloginSignature, TypeOK
<1>3. ASSUME NEW a \in Attempt, Return(a, "failed") \/ Return(a, "ok")
      PROVE  cur' \in Attempt \cup {0}
             /\ pc' \in [Attempt -> {"new", "send", "wait", "keys", "config", "reload", "ok",
                                     "failed"}]
  BY <1>3 DEF Return, clearReloginTransfer, TypeOK
<1>4. ASSUME NEW a \in Attempt, SendReloginRequest(a) PROVE TypeOK'
  <2>1. CASE Return(a, "failed") /\ UNCHANGED srv
    BY <1>1, <1>3, <1>4, <2>1 DEF SendReloginRequest, TypeOK
  <2>2. CASE pc' = [pc EXCEPT ![a] = "wait"] /\ UNCHANGED cur
    BY <1>1, <1>4, <2>2 DEF SendReloginRequest, TypeOK
  <2> QED  BY <1>4, <2>1, <2>2 DEF SendReloginRequest
<1>5. ASSUME NEW a \in Attempt, Timeout(a) \/ TakeResult(a) PROVE TypeOK'
  <2>1. CASE Return(a, "failed")
    BY <1>1, <1>3, <1>5, <2>1 DEF Timeout, TakeResult, TypeOK
  <2>2. CASE pc' = [pc EXCEPT ![a] = "keys"] /\ UNCHANGED cur
    BY <1>1, <1>5, <2>2 DEF Timeout, TakeResult, TypeOK
  <2> QED  BY <1>5, <2>1, <2>2 DEF Timeout, TakeResult
<1>6. ASSUME NEW a \in Attempt, SaveKeysJSON(a) PROVE TypeOK'
  <2>1. result[a].keys = SourceOf[a]  BY <1>6 DEF SaveKeysJSON, ResultIsWhole
  <2>2. keys' \in Peer \cup {"own"} /\ memName' \in Peer \cup {"own"}
    BY <1>6, <2>1 DEF SaveKeysJSON, TypeOK
  <2>3. CASE Return(a, "failed")
    BY <1>1, <1>3, <1>6, <2>2, <2>3 DEF SaveKeysJSON, TypeOK
  <2>4. CASE pc' = [pc EXCEPT ![a] = "config"] /\ UNCHANGED cur
    BY <1>1, <1>6, <2>2, <2>4 DEF SaveKeysJSON, TypeOK
  <2> QED  BY <1>6, <2>3, <2>4 DEF SaveKeysJSON
<1>7. ASSUME NEW a \in Attempt, SaveAppConfig(a) PROVE TypeOK'
  <2>1. CASE Return(a, "failed")
    BY <1>1, <1>3, <1>7, <2>1 DEF SaveAppConfig, TypeOK
  <2>2. CASE pc' = [pc EXCEPT ![a] = "reload"] /\ UNCHANGED cur
    BY <1>1, <1>7, <2>2 DEF SaveAppConfig, TypeOK
  <2> QED  BY <1>7, <2>1, <2>2 DEF SaveAppConfig
<1>8. ASSUME NEW a \in Attempt, reloadReplicatedPeers(a) PROVE TypeOK'
  <2>1. Return(a, "ok")  BY <1>8 DEF reloadReplicatedPeers
  <2> QED  BY <1>1, <1>3, <1>8, <2>1 DEF reloadReplicatedPeers, TypeOK
<1>9. CASE SaveConfig  BY <1>9 DEF SaveConfig, TypeOK
<1>10. ASSUME NEW a \in Attempt, NEW msg \in Message, Send(a, msg)
       PROVE  channel' \in [Peer -> Seq(Message)]
  BY <1>10 DEF Send, TypeOK
<1>11. ASSUME NEW a \in Attempt, handleReloginRequest(a) PROVE TypeOK'
  <2>1. CASE \E v \in Version :
               /\ export' = [export EXCEPT ![a] = v]
               /\ Send(a, [kind |-> "data", tid |-> a, hash |-> v])
    <3>1. PICK v \in Version :
               /\ export' = [export EXCEPT ![a] = v]
               /\ Send(a, [kind |-> "data", tid |-> a, hash |-> v])
      BY <2>1
    <3>2. [kind |-> "data", tid |-> a, hash |-> v] \in Message  BY DEF Message
    <3>3. channel' \in [Peer -> Seq(Message)]  BY <1>10, <3>1, <3>2
    <3>4. srv' \in [Attempt -> {"none", "asked", "sending", "done"}]
      BY SMTT(20), <1>11 DEF handleReloginRequest, TypeOK
    <3> QED  BY <1>1, <1>11, <3>1, <3>3, <3>4 DEF handleReloginRequest, TypeOK
  <2>2. CASE \E k \in {"keys", "error"} :
               Send(a, [kind |-> k, tid |-> 0, hash |-> 0]) /\ UNCHANGED export
    <3>1. PICK k \in {"keys", "error"} : Send(a, [kind |-> k, tid |-> 0, hash |-> 0])
      BY <2>2
    <3>2. [kind |-> k, tid |-> 0, hash |-> 0] \in Message  BY DEF Message
    <3>3. channel' \in [Peer -> Seq(Message)]  BY <1>10, <3>1, <3>2
    <3>4. srv' \in [Attempt -> {"none", "asked", "sending", "done"}]
      BY <1>11 DEF handleReloginRequest, TypeOK
    <3> QED  BY <1>1, <1>11, <2>2, <3>3, <3>4 DEF handleReloginRequest, TypeOK
  <2> QED  BY <1>11, <2>1, <2>2 DEF handleReloginRequest, ExportReplicationSnapshot
<1>12. ASSUME NEW a \in Attempt, SendReloginChunk(a) PROVE TypeOK'
  <2>1. [kind |-> "chunk", tid |-> a, hash |-> export[a], index |-> sent[a] + 1] \in Message
    <3>1. export[a] \in Version /\ sent[a] \in Nat
      BY <1>12 DEF SendReloginChunk, Honest, TypeOK
    <3> QED  BY <3>1 DEF Message
  <2>2. channel' \in [Peer -> Seq(Message)]
    BY <1>10, <1>12, <2>1 DEF SendReloginChunk, TypeOK
  <2>3. sent' \in [Attempt -> Nat]
    <3>1. sent' = [sent EXCEPT ![a] = @ + 1] \/ sent' = sent
      BY <1>12 DEF SendReloginChunk
    <3>2. sent \in [Attempt -> Nat]  BY DEF TypeOK
    <3> QED  BY <3>1, <3>2
  <2>4. PICK l \in {"done", "sending"} : srv' = [srv EXCEPT ![a] = l]
    BY <1>12 DEF SendReloginChunk
  <2> QED  BY <1>1, <1>12, <2>2, <2>3, <2>4 DEF SendReloginChunk, TypeOK
<1>13. ASSUME NEW p \in Peer, Disconnect(p) PROVE TypeOK'
  <2>1. channel' \in [Peer -> Seq(Message)]  BY <1>13 DEF Disconnect, TypeOK
  <2> QED  BY <1>1, <1>13, <2>1 DEF Disconnect, TypeOK
<1>14. ASSUME NEW p \in Peer, ReceiveResponse(p) PROVE TypeOK'
  <2> DEFINE msg == Head(channel[p])
  <2>1. msg \in Message /\ Tail(channel[p]) \in Seq(Message)
        /\ (msg.kind = "data" => msg.tid \in Attempt /\ msg.hash \in Version)
        /\ msg.kind \in {"data", "keys", "error"}
    BY <1>14, HeadType DEF ReceiveResponse, Message
  <2>2. channel' \in [Peer -> Seq(Message)]
    BY <1>14, <2>1 DEF ReceiveResponse, TypeOK
  <2> HIDE DEF msg
  <2>3. acceptReloginResponse(p, msg)  BY <1>14 DEF ReceiveResponse, msg
  <2>4. Expected(p) => cur \in Attempt  BY DEF Expected, TypeOK
  <2>5. transfer' \in [Attempt -> Transfer] /\ result' \in [Attempt -> Result]
    <3>1. CASE ~ Expected(p)
      <4>1. UNCHANGED <<transfer, result>>
        BY <2>3, <3>1 DEF acceptReloginResponse
      <4> QED  BY <4>1 DEF TypeOK
    <3>2. CASE Expected(p) /\ msg.kind = "error"
      <4>1. completeReloginTransfer(cur, Failed)
        BY <2>3, <3>2 DEF acceptReloginResponse
      <4>2. Failed \in Result  BY <1>0 DEF Failed
      <4> QED  BY <1>a, <2>4, <3>2, <4>1, <4>2, CompleteType
    <3>3. CASE Expected(p) /\ msg.kind = "keys"
      <4>1. completeReloginTransfer(cur, Success(p, <<>>))
        BY <2>3, <3>3 DEF acceptReloginResponse
      <4>2. Success(p, <<>>) \in Result  BY <1>0 DEF Success
      <4> QED  BY <1>a, <2>4, <3>3, <4>1, <4>2, CompleteType
    <3>4. CASE Expected(p) /\ msg.kind = "data"
      <4>1. /\ transfer' = [transfer EXCEPT
                 ![cur].tid = msg.tid, ![cur].keys = p, ![cur].hash = msg.hash,
                 ![cur].chunks = [i \in 1..Count[msg.hash] |-> 0]]
            /\ UNCHANGED result
        BY <2>3, <3>4 DEF acceptReloginResponse
      <4>2. [i \in 1..Count[msg.hash] |-> 0] \in Chunks
        BY <2>1, <3>4, WholeType
      <4> DEFINE t == [transfer[cur] EXCEPT !.tid = msg.tid, !.keys = p, !.hash = msg.hash,
                         !.chunks = [i \in 1..Count[msg.hash] |-> 0]]
      <4>3. t \in Transfer
        BY <1>a, <2>1, <2>4, <3>4, <4>2, TransferPut
      <4>4. transfer' = [transfer EXCEPT ![cur] = t]
        BY <1>a, <2>4, <3>4, <4>1
      <4> HIDE DEF t
      <4>5. transfer' \in [Attempt -> Transfer]  BY <1>a, <2>4, <3>4, <4>3, <4>4
      <4>6. result' \in [Attempt -> Result]  BY <1>a, <4>1
      <4> QED  BY <4>5, <4>6
    <3> QED  BY <2>1, <3>1, <3>2, <3>3, <3>4
  <2> QED  BY <1>1, <1>14, <2>2, <2>5 DEF ReceiveResponse, TypeOK
<1>15. ASSUME NEW p \in Peer, ReceiveChunk(p) PROVE TypeOK'
  <2> DEFINE msg == Head(channel[p])
  <2>1. msg \in Message /\ Tail(channel[p]) \in Seq(Message) /\ msg.kind = "chunk"
    BY <1>15, HeadType DEF ReceiveChunk
  <2>2. channel' \in [Peer -> Seq(Message)]
    BY <1>15, <2>1 DEF ReceiveChunk, TypeOK
  <2> HIDE DEF msg
  <2>3. acceptReloginChunk(p, msg)  BY <1>15 DEF ReceiveChunk, msg
  <2>4. transfer' \in [Attempt -> Transfer]
        /\ fin' \in [Attempt -> {"no", "queued", "hash", "import", "complete", "done"}]
    <3>1. CASE UNCHANGED <<transfer, fin>>
      BY <3>1 DEF TypeOK
    <3>2. CASE Expected(p)
      <4>1. cur \in Attempt  BY <3>2 DEF Expected, TypeOK
      <4> DEFINE t == WithChunk(transfer[cur], msg)
      <4>2. t \in Transfer  BY <2>1, <4>1, WithChunkType DEF TypeOK
      <4>3. [t EXCEPT !.processing = "yes"] \in Transfer  BY <4>2, TransferPut
      <4>4. \/ UNCHANGED <<transfer, fin>>
            \/ transfer' = [transfer EXCEPT ![cur] = t] /\ UNCHANGED fin
            \/ /\ transfer' = [transfer EXCEPT ![cur] = [t EXCEPT !.processing = "yes"]]
               /\ fin' = [fin EXCEPT ![cur] = "queued"]
        BY <2>3 DEF acceptReloginChunk
      <4> HIDE DEF t
      <4>5. transfer' \in [Attempt -> Transfer]  BY <1>a, <4>1, <4>2, <4>3, <4>4
      <4>6. fin' = fin \/ fin' = [fin EXCEPT ![cur] = "queued"]  BY <4>4
      <4> QED  BY <4>1, <4>5, <4>6 DEF TypeOK
    <3> QED  BY <2>3, <3>1, <3>2 DEF acceptReloginChunk
  <2> QED  BY <1>1, <1>15, <2>2, <2>4 DEF ReceiveChunk, TypeOK
<1>16. ASSUME NEW a \in Attempt, finishReloginTransfer(a) PROVE TypeOK'
  BY <1>16 DEF finishReloginTransfer, TypeOK, Transfer
<1>17. ASSUME NEW a \in Attempt,
              UNCHANGED <<transfer, result>> \/ completeReloginTransfer(a, Failed)
       PROVE  transfer' \in [Attempt -> Transfer] /\ result' \in [Attempt -> Result]
  <2>1. Failed \in Result  BY <1>0 DEF Failed
  <2> QED  BY <1>a, <1>17, <2>1, CompleteType
<1>18. ASSUME NEW a \in Attempt, CheckHash(a) PROVE TypeOK'
  <2>1. transfer' \in [Attempt -> Transfer] /\ result' \in [Attempt -> Result]
    BY <1>17, <1>18 DEF CheckHash
  <2> QED  BY <1>18, <2>1 DEF CheckHash, TypeOK
<1>19. ASSUME NEW a \in Attempt, ImportReplicationSnapshot(a) PROVE TypeOK'
  <2>1. transfer' \in [Attempt -> Transfer] /\ result' \in [Attempt -> Result]
    BY <1>17, <1>19 DEF ImportReplicationSnapshot
  <2>2. imported' \subseteq Peer \X Chunks /\ imported \subseteq imported'
    BY <1>19 DEF ImportReplicationSnapshot, TypeOK
  <2> QED  BY <1>1, <1>19, <2>1, <2>2 DEF ImportReplicationSnapshot, TypeOK
<1>20. ASSUME NEW a \in Attempt, CompleteTransfer(a) PROVE TypeOK'
  <2>1. Success(transfer[a].keys, bytes[a]) \in Result
    BY DEF Success, TypeOK, Transfer
  <2>2. completeReloginTransfer(a, Success(transfer[a].keys, bytes[a]))
    BY <1>20 DEF CompleteTransfer
  <2>3. transfer' \in [Attempt -> Transfer] /\ result' \in [Attempt -> Result]
    BY <1>a, <2>1, <2>2, CompleteType
  <2> QED  BY <1>20, <2>3 DEF CompleteTransfer, TypeOK
<1>21. CASE Crash
  <2>1. pc' \in [Attempt -> {"new", "send", "wait", "keys", "config", "reload", "ok", "failed"}]
    BY <1>21 DEF Crash, TypeOK
  <2>2. fin' \in [Attempt -> {"no", "queued", "hash", "import", "complete", "done"}]
    BY <1>21 DEF Crash
  <2>3. channel' \in [Peer -> Seq(Message)]  BY <1>21 DEF Crash
  <2> QED  BY <1>1, <1>21, <2>1, <2>2, <2>3 DEF Crash, TypeOK
<1>22. CASE UNCHANGED vars  BY <1>22 DEF vars, TypeOK
<1> QED
  BY <1>2, <1>4, <1>5, <1>6, <1>7, <1>8, <1>9, <1>11, <1>12, <1>13, <1>14, <1>15, <1>16,
     <1>18, <1>19, <1>20, <1>21, <1>22 DEF Next, Call, Job
-----------------------------------------------------------------------------
(* Calls and messages.                                                     *)

LEMMA CallStep == TypeOK /\ OneCall /\ [Next]_vars => OneCall'
<1> SUFFICES ASSUME TypeOK, OneCall, [Next]_vars PROVE OneCall'  OBVIOUS
<1> USE ReloginAssumption DEF Go, Running, OneCall
<1>1. ASSUME NEW a \in Attempt, ApplyReloginSignature(a) PROVE OneCall'
  BY <1>1 DEF ApplyReloginSignature, TypeOK
<1>2. ASSUME NEW a \in Attempt, NEW o \in {"ok", "failed"}, Return(a, o) PROVE OneCall'
  BY <1>2 DEF Return, clearReloginTransfer, TypeOK
<1>3. ASSUME NEW a \in Attempt, pc[a] \in Running, UNCHANGED cur,
             NEW l \in Running, pc' = [pc EXCEPT ![a] = l]
      PROVE  OneCall'
  BY <1>3 DEF TypeOK
<1>4. ASSUME NEW a \in Attempt, Call(a) \/ Timeout(a) PROVE OneCall'
  BY <1>2, <1>3, <1>4
  DEF Call, Timeout, SendReloginRequest, TakeResult, SaveKeysJSON, SaveAppConfig,
      reloadReplicatedPeers
<1>5. CASE Crash  BY <1>5 DEF Crash
<1>6. CASE UNCHANGED <<pc, cur>>  BY <1>6
<1> QED
  BY <1>1, <1>4, <1>5, <1>6
  DEF Next, Job, vars, SaveConfig, handleReloginRequest, SendReloginChunk, Disconnect,
      ReceiveResponse, ReceiveChunk, finishReloginTransfer, CheckHash,
      ImportReplicationSnapshot, CompleteTransfer

LEMMA HonestStep == TypeOK /\ Honest /\ [Next]_vars => Honest'
<1> SUFFICES ASSUME TypeOK, Honest, [Next]_vars PROVE Honest'  OBVIOUS
<1> USE ReloginAssumption DEF sourceVars
<1> DEFINE Fair(p, msg) == /\ msg.kind = "keys" => p \in Legacy
                           /\ msg.kind = "data" => msg.tid \in Attempt /\ msg.hash \in Version
           Exported == \A a \in Attempt : srv[a] = "sending" => export[a] \in Version
           FairAll == \A p \in Peer : \A i \in 1..Len(channel[p]) : Fair(p, channel[p][i])
<1>1. Exported /\ FairAll  BY DEF Honest
<1>2. SUFFICES Exported' /\ FairAll'  BY DEF Honest
<1> HIDE DEF Fair
<1>3. ASSUME NEW a \in Attempt, NEW msg \in Message, Send(a, msg), Fair(SourceOf[a], msg)
      PROVE  FairAll'
  <2>1. channel' = [channel EXCEPT ![SourceOf[a]] = Append(@, msg)]
    BY <1>3 DEF Send
  <2>2. \A p \in Peer : channel[p] \in Seq(Message)  BY DEF TypeOK
  <2> SUFFICES ASSUME NEW p \in Peer, NEW i \in 1..Len(channel'[p])
               PROVE  Fair(p, channel'[p][i])
    BY DEF Fair
  <2>3. CASE p # SourceOf[a]
    <3>1. channel'[p] = channel[p]  BY <2>1, <2>3 DEF TypeOK
    <3> QED  BY <1>1, <3>1
  <2>4. CASE p = SourceOf[a]
    <3>1. channel'[p] = Append(channel[p], msg)  BY <2>1, <2>4 DEF TypeOK
    <3>2. \/ i \in 1..Len(channel[p]) /\ channel'[p][i] = channel[p][i]
          \/ channel'[p][i] = msg
      BY <2>2, <3>1
    <3> QED  BY <1>1, <1>3, <2>4, <3>2
  <2> QED  BY <2>3, <2>4
<1>4. ASSUME NEW p \in Peer, channel[p] # <<>>, channel' = [channel EXCEPT ![p] = Tail(@)]
      PROVE  FairAll'
  <2>1. channel[p] \in Seq(Message)  BY DEF TypeOK
  <2> SUFFICES ASSUME NEW q \in Peer, NEW i \in 1..Len(channel'[q])
               PROVE  Fair(q, channel'[q][i])
    BY DEF Fair
  <2>2. CASE q # p
    <3>1. channel'[q] = channel[q]  BY <1>4, <2>2 DEF TypeOK
    <3> QED  BY <1>1, <3>1
  <2>3. CASE q = p
    <3>1. channel'[q] = Tail(channel[q])  BY <1>4, <2>3 DEF TypeOK
    <3>2. /\ Len(Tail(channel[p])) = Len(channel[p]) - 1
          /\ \A j \in 1..Len(Tail(channel[p])) : Tail(channel[p])[j] = channel[p][j + 1]
      BY <1>4, <2>1, HeadTailProperties
    <3>3. i \in 1..Len(Tail(channel[p])) /\ Len(channel[p]) \in Nat
      BY <2>1, <2>3, <3>1
    <3>4. i + 1 \in 1..Len(channel[q]) /\ channel'[q][i] = channel[q][i + 1]
      BY <2>3, <3>1, <3>2, <3>3
    <3> QED  BY <1>1, <3>4
  <2> QED  BY <2>2, <2>3
<1>5. ASSUME \A p \in Peer : channel'[p] \in {<<>>, channel[p]}
      PROVE  FairAll'
  <2> SUFFICES ASSUME NEW p \in Peer, NEW i \in 1..Len(channel'[p])
               PROVE  Fair(p, channel'[p][i])
    BY DEF Fair
  <2>1. channel'[p] = channel[p]  BY <1>5
  <2> QED  BY <1>1, <2>1
<1>6. ASSUME NEW a \in Attempt, handleReloginRequest(a) PROVE Exported' /\ FairAll'
  <2>1. CASE \E v \in Version :
               /\ export' = [export EXCEPT ![a] = v]
               /\ Send(a, [kind |-> "data", tid |-> a, hash |-> v])
    <3>1. PICK v \in Version :
               /\ export' = [export EXCEPT ![a] = v]
               /\ Send(a, [kind |-> "data", tid |-> a, hash |-> v])
      BY <2>1
    <3>2. [kind |-> "data", tid |-> a, hash |-> v] \in Message  BY DEF Message
    <3>3. Fair(SourceOf[a], [kind |-> "data", tid |-> a, hash |-> v])  BY DEF Fair
    <3>4. FairAll'  BY <1>3, <3>1, <3>2, <3>3
    <3>5. Exported'
      BY <1>1, <1>6, <3>1 DEF handleReloginRequest, TypeOK
    <3> QED  BY <3>4, <3>5
  <2>2. CASE \E k \in {"keys", "error"} :
               /\ Send(a, [kind |-> k, tid |-> 0, hash |-> 0]) /\ UNCHANGED export
               /\ k = "keys" => SourceOf[a] \in Legacy
               /\ srv' = [srv EXCEPT ![a] = "done"]
    <3>1. PICK k \in {"keys", "error"} :
               /\ Send(a, [kind |-> k, tid |-> 0, hash |-> 0])
               /\ k = "keys" => SourceOf[a] \in Legacy
      BY <2>2
    <3>2. [kind |-> k, tid |-> 0, hash |-> 0] \in Message  BY DEF Message
    <3>3. Fair(SourceOf[a], [kind |-> k, tid |-> 0, hash |-> 0])  BY <3>1 DEF Fair
    <3>4. FairAll'  BY <1>3, <3>1, <3>2, <3>3
    <3>5. Exported'  BY <1>1, <2>2 DEF TypeOK
    <3> QED  BY <3>4, <3>5
  <2> QED  BY <1>6, <2>1, <2>2 DEF handleReloginRequest, ExportReplicationSnapshot
<1>7. ASSUME NEW a \in Attempt, SendReloginChunk(a) PROVE Exported' /\ FairAll'
  <2> DEFINE msg == [kind |-> "chunk", tid |-> a, hash |-> export[a], index |-> sent[a] + 1]
  <2>1. msg \in Message
    BY <1>1, <1>7 DEF SendReloginChunk, Message, TypeOK
  <2>2. Fair(SourceOf[a], msg)  BY DEF Fair
  <2>3. FairAll'
    <3>1. Send(a, msg) \/ UNCHANGED channel  BY <1>7 DEF SendReloginChunk
    <3> QED  BY <1>3, <1>5, <2>1, <2>2, <3>1
  <2>4. PICK l : srv' = [srv EXCEPT ![a] = l]  BY <1>7 DEF SendReloginChunk
  <2>5. Exported'  BY <1>1, <1>7, <2>4 DEF SendReloginChunk, TypeOK
  <2> QED  BY <2>3, <2>5
<1>8. ASSUME NEW a \in Attempt, SendReloginRequest(a) PROVE Exported' /\ FairAll'
  BY <1>1, <1>5, <1>8 DEF SendReloginRequest, TypeOK
<1>9. ASSUME NEW p \in Peer, ReceiveResponse(p) \/ ReceiveChunk(p)
      PROVE  Exported' /\ FairAll'
  <2>1. UNCHANGED <<srv, export>> /\ channel[p] # <<>>
        /\ channel' = [channel EXCEPT ![p] = Tail(@)]
    BY <1>9 DEF ReceiveResponse, ReceiveChunk
  <2> QED  BY <1>1, <1>4, <2>1
<1>10. ASSUME NEW p \in Peer, Disconnect(p) PROVE Exported' /\ FairAll'
  BY <1>1, <1>5, <1>10 DEF Disconnect, TypeOK
<1>11. CASE Crash  BY <1>1, <1>5, <1>11 DEF Crash
<1>12. CASE UNCHANGED <<srv, export, channel>>
  BY <1>1, <1>5, <1>12
<1> QED
  BY <1>6, <1>7, <1>8, <1>9, <1>10, <1>11, <1>12
  DEF Next, Call, Job, vars, ApplyReloginSignature, Timeout, TakeResult, SaveKeysJSON,
      SaveAppConfig, reloadReplicatedPeers, SaveConfig, finishReloginTransfer, CheckHash,
      ImportReplicationSnapshot, CompleteTransfer
-----------------------------------------------------------------------------
(* Transfers, jobs and results.                                            *)

\* completeReloginTransfer sets a result once, and leaves the rest of the transfer.
LEMMA CompleteOnly ==
    ASSUME TypeOK, NEW a \in Attempt, NEW r, completeReloginTransfer(a, r),
           NEW b \in Attempt
    PROVE  /\ transfer'[b].tid = transfer[b].tid /\ transfer'[b].keys = transfer[b].keys
           /\ \/ /\ result'[b] = result[b]
                 /\ transfer'[b].completed = transfer[b].completed
              \/ /\ b = a /\ result'[b] = r
                 /\ transfer[b].completed = "no" /\ transfer'[b].completed = "yes"
<1>1. CASE b = a /\ Current(a)
  <2>1. /\ transfer'[b] = [transfer[b] EXCEPT !.completed = "yes"]
        /\ result'[b] = r
    BY <1>1 DEF completeReloginTransfer, TypeOK
  <2>2. transfer[b] \in Transfer  BY DEF TypeOK
  <2> QED  BY <1>1, <2>1, <2>2 DEF Current, Transfer
<1>2. CASE ~ (b = a /\ Current(a))
  <2>1. transfer'[b] = transfer[b] /\ result'[b] = result[b]
    BY <1>2 DEF completeReloginTransfer, TypeOK
  <2> QED  BY <2>1
<1> QED  BY <1>1, <1>2

\* What a message of a source does to the transfers and the results: the answer of
\* an old release is a success with its keys, another answer with data gives the
\* current transfer its ID and keys.
LEMMA ResponseOnly ==
    ASSUME TypeOK, Honest, NEW p \in Peer, ReceiveResponse(p), NEW b \in Attempt
    PROVE  /\ \/ transfer'[b].tid = transfer[b].tid /\ transfer'[b].keys = transfer[b].keys
              \/ SourceOf[b] = p /\ transfer'[b].tid # 0 /\ transfer'[b].keys = p
           /\ \/ /\ result'[b] = result[b]
                 /\ transfer'[b].completed = transfer[b].completed
              \/ /\ result'[b] = Failed
                 /\ transfer[b].completed = "no" /\ transfer'[b].completed = "yes"
              \/ /\ SourceOf[b] = p /\ p \in Legacy /\ result'[b] = Success(p, <<>>)
                 /\ transfer[b].completed = "no" /\ transfer'[b].completed = "yes"
<1> DEFINE msg == Head(channel[p])
<1>1. /\ msg \in Message /\ msg.kind \in {"data", "keys", "error"}
      /\ msg.kind = "keys" => p \in Legacy
      /\ msg.kind = "data" => msg.tid \in Attempt
  BY HeadType DEF ReceiveResponse, Message
<1>2. acceptReloginResponse(p, msg)  BY DEF ReceiveResponse
<1> HIDE DEF msg
<1>3. Expected(p) => cur \in Attempt /\ SourceOf[cur] = p
  BY DEF Expected, TypeOK
<1>4. CASE ~ Expected(p)
  BY <1>2, <1>4 DEF acceptReloginResponse
<1>5. CASE Expected(p) /\ msg.kind = "error"
  <2>1. completeReloginTransfer(cur, Failed)
    BY <1>2, <1>5 DEF acceptReloginResponse
  <2> QED  BY <1>3, <1>5, <2>1, CompleteOnly
<1>6. CASE Expected(p) /\ msg.kind = "keys"
  <2>1. completeReloginTransfer(cur, Success(p, <<>>))
    BY <1>2, <1>6 DEF acceptReloginResponse
  <2> QED  BY <1>1, <1>3, <1>6, <2>1, CompleteOnly
<1>7. CASE Expected(p) /\ msg.kind = "data"
  <2>1. /\ transfer' = [transfer EXCEPT
             ![cur].tid = msg.tid, ![cur].keys = p, ![cur].hash = msg.hash,
             ![cur].chunks = [i \in 1..Count[msg.hash] |-> 0]]
        /\ UNCHANGED result
    BY <1>2, <1>7 DEF acceptReloginResponse
  <2>2. CASE b # cur
    <3>1. transfer'[b] = transfer[b]  BY <1>3, <1>7, <2>1, <2>2 DEF TypeOK
    <3> QED  BY <2>1, <3>1
  <2>3. CASE b = cur
    <3>1. transfer'[b] = [transfer[b] EXCEPT !.tid = msg.tid, !.keys = p, !.hash = msg.hash,
                                             !.chunks = [i \in 1..Count[msg.hash] |-> 0]]
      BY <1>3, <1>7, <2>1, <2>3 DEF TypeOK
    <3>2. transfer[b] \in Transfer  BY DEF TypeOK
    <3>3. /\ transfer'[b].tid = msg.tid /\ transfer'[b].keys = p
          /\ transfer'[b].completed = transfer[b].completed
      BY <3>1, <3>2 DEF Transfer
    <3> QED  BY <1>1, <1>3, <1>7, <2>1, <2>3, <3>3, ReloginAssumption
  <2> QED  BY <2>2, <2>3
<1> QED  BY <1>1, <1>4, <1>5, <1>6, <1>7

\* A chunk fills the transfer it was exported for, and may submit its job.
LEMMA ChunkOnly ==
    ASSUME TypeOK, Honest, NEW p \in Peer, ReceiveChunk(p), NEW b \in Attempt
    PROVE  /\ transfer'[b].tid = transfer[b].tid /\ transfer'[b].keys = transfer[b].keys
           /\ transfer'[b].completed = transfer[b].completed
           /\ fin'[b] = fin[b] \/ (fin'[b] = "queued" /\ transfer[b].tid # 0)
<1> DEFINE msg == Head(channel[p])
<1>1. msg \in Message /\ msg.kind = "chunk" /\ msg.tid \in Attempt
  BY HeadType DEF ReceiveChunk, Message
<1>2. acceptReloginChunk(p, msg)  BY DEF ReceiveChunk
<1> HIDE DEF msg
<1>3. CASE UNCHANGED <<transfer, fin>>  BY <1>3
<1>4. CASE Expected(p) /\ transfer[cur].tid = msg.tid
  <2>1. cur \in Attempt /\ transfer[cur] \in Transfer
    BY <1>4 DEF Expected, TypeOK
  <2> DEFINE t == WithChunk(transfer[cur], msg)
             u == [t EXCEPT !.processing = "yes"]
  <2>2. /\ t \in Transfer /\ t.tid = transfer[cur].tid /\ t.keys = transfer[cur].keys
        /\ t.completed = transfer[cur].completed
    BY <1>1, <2>1, WithChunkType
  <2>3. \/ transfer' = [transfer EXCEPT ![cur] = t] /\ UNCHANGED fin
        \/ transfer' = [transfer EXCEPT ![cur] = u] /\ fin' = [fin EXCEPT ![cur] = "queued"]
    BY <1>2, <1>4 DEF acceptReloginChunk
  <2> HIDE DEF t
  <2>4. u.tid = t.tid /\ u.keys = t.keys /\ u.completed = t.completed
    BY <2>2 DEF Transfer
  <2> HIDE DEF u
  <2>5. transfer[cur].tid # 0  BY <1>1, <1>4, ReloginAssumption
  <2>6. CASE b # cur
    <3>1. transfer'[b] = transfer[b] /\ fin'[b] = fin[b]
      BY <2>1, <2>3, <2>6 DEF TypeOK
    <3> QED  BY <3>1
  <2>7. CASE b = cur
    <3>1. transfer'[b] \in {t, u} /\ fin'[b] \in {fin[b], "queued"}
      BY <2>1, <2>3, <2>7 DEF TypeOK
    <3> QED  BY <2>2, <2>4, <2>5, <2>7, <3>1
  <2> QED  BY <2>6, <2>7
<1> QED  BY <1>2, <1>3, <1>4 DEF acceptReloginChunk

LEMMA SourceStep ==
    TypeOK /\ Honest /\ TransferOfSource /\ [Next]_vars => TransferOfSource'
<1> SUFFICES ASSUME TypeOK, Honest, TransferOfSource, [Next]_vars,
                    NEW b \in Attempt
             PROVE  /\ transfer'[b].keys = IF transfer'[b].tid = 0 THEN "none" ELSE SourceOf[b]
                    /\ fin'[b] # "no" => transfer'[b].tid # 0
                    /\ result'[b].status # "none" => transfer'[b].completed = "yes"
  BY DEF TransferOfSource
<1> USE DEF sourceVars, jobVars, idVars, Finish
<1>0. /\ transfer[b].keys = IF transfer[b].tid = 0 THEN "none" ELSE SourceOf[b]
      /\ fin[b] # "no" => transfer[b].tid # 0
      /\ result[b].status # "none" => transfer[b].completed = "yes"
  BY DEF TransferOfSource
<1>1. ASSUME NEW p \in Peer, ReceiveResponse(p)
      PROVE  /\ transfer'[b].keys = IF transfer'[b].tid = 0 THEN "none" ELSE SourceOf[b]
             /\ fin'[b] # "no" => transfer'[b].tid # 0
             /\ result'[b].status # "none" => transfer'[b].completed = "yes"
  <2>1. UNCHANGED fin  BY <1>1 DEF ReceiveResponse
  <2> QED  BY <1>0, <1>1, <2>1, ResponseOnly
<1>2. ASSUME NEW p \in Peer, ReceiveChunk(p)
      PROVE  /\ transfer'[b].keys = IF transfer'[b].tid = 0 THEN "none" ELSE SourceOf[b]
             /\ fin'[b] # "no" => transfer'[b].tid # 0
             /\ result'[b].status # "none" => transfer'[b].completed = "yes"
  <2>1. UNCHANGED result  BY <1>2 DEF ReceiveChunk
  <2> QED  BY <1>0, <1>2, <2>1, ChunkOnly
<1>3. ASSUME NEW a \in Attempt, Job(a)
      PROVE  /\ transfer'[b].keys = IF transfer'[b].tid = 0 THEN "none" ELSE SourceOf[b]
             /\ fin'[b] # "no" => transfer'[b].tid # 0
             /\ result'[b].status # "none" => transfer'[b].completed = "yes"
  <2>1. fin'[b] # "no" => fin[b] # "no"
    BY <1>3 DEF Job, finishReloginTransfer, CheckHash, ImportReplicationSnapshot,
                CompleteTransfer, TypeOK
  <2>2. \/ UNCHANGED <<transfer, result>>
        \/ \E r : completeReloginTransfer(a, r)
    BY <1>3 DEF Job, finishReloginTransfer, CheckHash, ImportReplicationSnapshot,
                CompleteTransfer
  <2> QED  BY <1>0, <2>1, <2>2, CompleteOnly
<1>4. CASE Crash
  BY <1>0, <1>4 DEF Crash
<1>5. CASE UNCHANGED <<transfer, result, fin>>
  BY <1>0, <1>5
<1> QED
  BY <1>1, <1>2, <1>3, <1>4, <1>5
  DEF Next, Call, vars, ApplyReloginSignature, SendReloginRequest, Timeout, TakeResult,
      SaveKeysJSON, SaveAppConfig, reloadReplicatedPeers, SaveConfig, handleReloginRequest,
      SendReloginChunk, Disconnect
\* What is imported stays imported.
LEMMA ImportedGrows == [Next]_vars => imported \subseteq imported'
BY DEF Next, Call, Job, vars, sourceVars, jobVars, idVars, ApplyReloginSignature,
  SendReloginRequest, Timeout, TakeResult, SaveKeysJSON, SaveAppConfig,
  reloadReplicatedPeers, SaveConfig, handleReloginRequest, SendReloginChunk, Disconnect,
  ReceiveResponse, ReceiveChunk, finishReloginTransfer, CheckHash,
  ImportReplicationSnapshot, CompleteTransfer, Crash

LEMMA JobStep ==
    TypeOK /\ Honest /\ JobHasWhole /\ ImportsAreWhole /\ [Next]_vars
        => JobHasWhole' /\ ImportsAreWhole'
<1> SUFFICES ASSUME TypeOK, Honest, JobHasWhole, ImportsAreWhole, [Next]_vars
             PROVE  JobHasWhole' /\ ImportsAreWhole'
  OBVIOUS
<1> USE DEF sourceVars, jobVars, idVars, Finish
<1>0. imported \subseteq imported'  BY ImportedGrows
<1>1. ASSUME UNCHANGED bytes,
             \A b \in Attempt : fin'[b] \in {"import", "complete"} => fin'[b] = fin[b]
      PROVE  JobHasWhole'
  <2> SUFFICES ASSUME NEW b \in Attempt
               PROVE  /\ fin'[b] \in {"import", "complete"} =>
                           \E v \in Version : bytes'[b] = Whole(v)
                      /\ fin'[b] = "complete" => <<SourceOf[b], bytes'[b]>> \in imported'
    BY DEF JobHasWhole
  <2> QED  BY <1>0, <1>1 DEF JobHasWhole
<1>2. ASSUME NEW a \in Attempt, finishReloginTransfer(a)
      PROVE  JobHasWhole' /\ ImportsAreWhole'
  <2>1. UNCHANGED imported /\ fin'[a] = "hash"
        /\ \A b \in Attempt : b # a => fin'[b] = fin[b] /\ bytes'[b] = bytes[b]
    BY <1>2 DEF finishReloginTransfer, TypeOK
  <2> QED  BY <2>1 DEF JobHasWhole, ImportsAreWhole
<1>3. ASSUME NEW a \in Attempt, CheckHash(a)
      PROVE  JobHasWhole' /\ ImportsAreWhole'
  <2>1. UNCHANGED <<imported, bytes>> /\ fin'[a] # "complete"
        /\ \A b \in Attempt : b # a => fin'[b] = fin[b]
    BY <1>3 DEF CheckHash, TypeOK
  <2>2. fin'[a] = "import" => \E v \in Version : bytes[a] = Whole(v)
    <3>1. fin'[a] = "import" => ChecksumMatches(a)  BY <1>3 DEF CheckHash, TypeOK
    <3>2. transfer[a] \in Transfer  BY DEF TypeOK
    <3>3. transfer[a].hash \in Version \cup {0}  BY <3>2 DEF Transfer
    <3> QED  BY <3>1, <3>3 DEF ChecksumMatches
  <2> QED  BY <2>1, <2>2 DEF JobHasWhole, ImportsAreWhole
<1>4. ASSUME NEW a \in Attempt, ImportReplicationSnapshot(a)
      PROVE  JobHasWhole' /\ ImportsAreWhole'
  <2>1. UNCHANGED bytes /\ fin[a] = "import"
        /\ (fin'[a] = "complete" => <<SourceOf[a], bytes[a]>> \in imported')
        /\ fin'[a] # "import"
        /\ \A b \in Attempt : b # a => fin'[b] = fin[b]
    BY <1>4 DEF ImportReplicationSnapshot, TypeOK
  <2>2. \E v \in Version : bytes[a] = Whole(v)  BY <2>1 DEF JobHasWhole
  <2>3. imported' \subseteq imported \cup {<<SourceOf[a], bytes[a]>>}
    BY <1>4 DEF ImportReplicationSnapshot
  <2>4. ImportsAreWhole'  BY <2>2, <2>3 DEF ImportsAreWhole
  <2>5. JobHasWhole'  BY <1>0, <2>1, <2>2 DEF JobHasWhole
  <2> QED  BY <2>4, <2>5
<1>5. ASSUME NEW a \in Attempt, CompleteTransfer(a)
      PROVE  JobHasWhole' /\ ImportsAreWhole'
  <2>1. UNCHANGED <<bytes, imported>>  BY <1>5 DEF CompleteTransfer
  <2>2. \A b \in Attempt : fin'[b] \in {"import", "complete"} => fin'[b] = fin[b]
    BY <1>5 DEF CompleteTransfer, TypeOK
  <2> QED  BY <1>1, <2>1, <2>2 DEF ImportsAreWhole
<1>6. ASSUME NEW p \in Peer, ReceiveChunk(p)
      PROVE  JobHasWhole' /\ ImportsAreWhole'
  <2>1. UNCHANGED <<bytes, imported>>  BY <1>6 DEF ReceiveChunk
  <2>2. \A b \in Attempt : fin'[b] \in {"import", "complete"} => fin'[b] = fin[b]
    BY <1>6, ChunkOnly
  <2> QED  BY <1>1, <2>1, <2>2 DEF ImportsAreWhole
<1>7. CASE Crash
  BY <1>1, <1>7 DEF Crash, ImportsAreWhole
<1>8. CASE UNCHANGED <<bytes, fin, imported>>
  BY <1>1, <1>8 DEF ImportsAreWhole
<1> QED
  BY <1>2, <1>3, <1>4, <1>5, <1>6, <1>7, <1>8
  DEF Next, Call, Job, vars, ApplyReloginSignature, SendReloginRequest, Timeout, TakeResult,
      SaveKeysJSON, SaveAppConfig, reloadReplicatedPeers, SaveConfig, handleReloginRequest,
      SendReloginChunk, Disconnect, ReceiveResponse

LEMMA ResultStep ==
    TypeOK /\ Honest /\ TransferOfSource /\ JobHasWhole /\ ResultIsWhole /\ [Next]_vars
        => ResultIsWhole'
<1> SUFFICES ASSUME TypeOK, Honest, TransferOfSource, JobHasWhole, ResultIsWhole,
                    [Next]_vars, NEW b \in Attempt
             PROVE  /\ result'[b].status = "ok" =>
                         /\ result'[b].keys = SourceOf[b]
                         /\ \/ SourceOf[b] \in Legacy
                            \/ <<SourceOf[b], result'[b].snapshot>> \in imported'
                    /\ pc'[b] \in {"keys", "config", "reload"} => result'[b].status = "ok"
  BY DEF ResultIsWhole
<1> DEFINE Good == /\ result'[b].status = "ok" =>
                        /\ result'[b].keys = SourceOf[b]
                        /\ \/ SourceOf[b] \in Legacy
                           \/ <<SourceOf[b], result'[b].snapshot>> \in imported'
                   /\ pc'[b] \in {"keys", "config", "reload"} => result'[b].status = "ok"
<1> USE DEF sourceVars, jobVars, idVars, Go
<1>0. imported \subseteq imported'  BY ImportedGrows
<1>1. /\ result[b].status = "ok" =>
           /\ result[b].keys = SourceOf[b]
           /\ SourceOf[b] \in Legacy \/ <<SourceOf[b], result[b].snapshot>> \in imported
      /\ pc[b] \in {"keys", "config", "reload"} => result[b].status = "ok"
      /\ result[b].status # "none" => transfer[b].completed = "yes"
  BY DEF ResultIsWhole, TransferOfSource
<1>2. ASSUME result'[b] = result[b],
             pc'[b] \in {"keys", "config", "reload"} =>
                 pc[b] \in {"keys", "config", "reload"} \/ result[b].status = "ok"
      PROVE  Good
  BY <1>0, <1>1, <1>2
\* A new result comes to a transfer without one: no call can be past its result.
<1>3. ASSUME UNCHANGED pc, NEW r, result'[b] = r, transfer[b].completed = "no",
             r.status = "ok" =>
                 /\ r.keys = SourceOf[b]
                 /\ SourceOf[b] \in Legacy \/ <<SourceOf[b], r.snapshot>> \in imported
      PROVE  Good
  BY <1>0, <1>1, <1>3
<1>4. ASSUME NEW p \in Peer, ReceiveResponse(p) PROVE Good
  <2>1. UNCHANGED pc  BY <1>4 DEF ReceiveResponse
  <2>2. CASE result'[b] = result[b]  BY <1>2, <2>1, <2>2
  <2>3. CASE result'[b] = Failed /\ transfer[b].completed = "no"
    <3>1. Failed.status # "ok"  BY DEF Failed
    <3> QED  BY <1>3, <2>1, <2>3, <3>1
  <2>4. CASE /\ SourceOf[b] = p /\ p \in Legacy /\ result'[b] = Success(p, <<>>)
             /\ transfer[b].completed = "no"
    <3>1. Success(p, <<>>).keys = p  BY DEF Success
    <3> QED  BY <1>3, <2>1, <2>4, <3>1
  <2> QED  BY <1>4, <2>2, <2>3, <2>4, ResponseOnly
<1>5. ASSUME NEW a \in Attempt, UNCHANGED pc, NEW r, completeReloginTransfer(a, r),
             r.status = "ok" =>
                 /\ r.keys = SourceOf[a]
                 /\ SourceOf[a] \in Legacy \/ <<SourceOf[a], r.snapshot>> \in imported
      PROVE  Good
  <2>1. CASE result'[b] = result[b]  BY <1>2, <1>5, <2>1
  <2>2. CASE b = a /\ result'[b] = r /\ transfer[b].completed = "no"
    BY <1>3, <1>5, <2>2
  <2> QED  BY <1>5, <2>1, <2>2, CompleteOnly
<1>6. ASSUME NEW a \in Attempt, CheckHash(a) \/ ImportReplicationSnapshot(a) PROVE Good
  <2>1. UNCHANGED pc  BY <1>6 DEF CheckHash, ImportReplicationSnapshot
  <2>2. UNCHANGED result \/ completeReloginTransfer(a, Failed)
    BY <1>6 DEF CheckHash, ImportReplicationSnapshot
  <2>3. Failed.status # "ok"  BY DEF Failed
  <2> QED  BY <1>2, <1>5, <2>1, <2>2, <2>3
<1>7. ASSUME NEW a \in Attempt, CompleteTransfer(a) PROVE Good
  <2>1. /\ UNCHANGED pc /\ fin[a] = "complete"
        /\ completeReloginTransfer(a, Success(transfer[a].keys, bytes[a]))
    BY <1>7 DEF CompleteTransfer
  <2>2. transfer[a].keys = SourceOf[a] /\ <<SourceOf[a], bytes[a]>> \in imported
    BY <2>1 DEF TransferOfSource, JobHasWhole
  <2>3. /\ Success(transfer[a].keys, bytes[a]).keys = transfer[a].keys
        /\ Success(transfer[a].keys, bytes[a]).snapshot = bytes[a]
    BY DEF Success
  <2> QED  BY <1>5, <2>1, <2>2, <2>3
<1>8. ASSUME NEW a \in Attempt, UNCHANGED result,
             \/ pc[a] \in {"keys", "config"}
             \/ result[a].status = "ok"
             \/ \E l \in {"send", "wait", "ok", "failed"} : pc' = [pc EXCEPT ![a] = l],
             \E l : pc' = [pc EXCEPT ![a] = l]
      PROVE  Good
  <2>1. CASE b = a  BY <1>1, <1>2, <1>8, <2>1 DEF TypeOK
  <2>2. CASE b # a  BY <1>2, <1>8, <2>2 DEF TypeOK
  <2> QED  BY <2>1, <2>2
<1>9. ASSUME NEW a \in Attempt, ApplyReloginSignature(a) \/ Call(a) \/ Timeout(a) PROVE Good
  <2>1. UNCHANGED result
    BY <1>9 DEF ApplyReloginSignature, Call, Timeout, SendReloginRequest, TakeResult,
                SaveKeysJSON, SaveAppConfig, reloadReplicatedPeers
  <2>2. \E l : pc' = [pc EXCEPT ![a] = l]
    BY <1>9 DEF ApplyReloginSignature, Call, Timeout, SendReloginRequest, TakeResult,
                SaveKeysJSON, SaveAppConfig, reloadReplicatedPeers, Return
  <2>3. \/ pc[a] \in {"keys", "config"}
        \/ result[a].status = "ok"
        \/ \E l \in {"send", "wait", "ok", "failed"} : pc' = [pc EXCEPT ![a] = l]
    BY <1>9 DEF ApplyReloginSignature, Call, Timeout, SendReloginRequest, TakeResult,
                SaveKeysJSON, SaveAppConfig, reloadReplicatedPeers, Return
  <2> QED  BY <1>8, <2>1, <2>2, <2>3
<1>10. CASE Crash
  BY <1>2, <1>10 DEF Crash
<1>11. CASE UNCHANGED <<pc, result>>
  BY <1>2, <1>11
<1> QED
  BY <1>4, <1>6, <1>7, <1>9, <1>10, <1>11
  DEF Next, Job, vars, SaveConfig, handleReloginRequest, SendReloginChunk, Disconnect,
      ReceiveChunk, finishReloginTransfer
-----------------------------------------------------------------------------
(* Keys and names.                                                         *)

\* Only these steps change what Identity is about.
LEMMA IdentityStep ==
    TypeOK /\ OneCall /\ ResultIsWhole /\ ImportsAreWhole /\ Identity /\ IdentityWhole
    /\ [Next]_vars => Identity' /\ IdentityWhole'
<1> SUFFICES ASSUME TypeOK, OneCall, ResultIsWhole, ImportsAreWhole, Identity,
                    IdentityWhole, [Next]_vars
             PROVE  Identity' /\ IdentityWhole'
  OBVIOUS
<1> USE ReloginAssumption DEF sourceVars, jobVars, idVars, boundVars, Go, Return,
        clearReloginTransfer
<1> DEFINE Labels == {"config", "reload"}
<1>1. ASSUME NEW p, Backed(p) PROVE Backed(p)'
  BY <1>1, ImportedGrows DEF Backed
<1>2. faults \in Nat /\ errors \in Nat  BY DEF TypeOK
\* A step that leaves keys and names alone, and every call where it is or out of
\* the way.
<1>3. ASSUME UNCHANGED idVars,
             \A b \in Attempt : /\ pc'[b] \in Labels => pc'[b] = pc[b]
                                /\ pc[b] = "config" => pc'[b] = "config",
             faults' = 0 => faults = 0, errors' = 0 => errors = 0
      PROVE  Identity' /\ IdentityWhole'
  <2>1. Backed(keys)' /\ Backed(name)' /\ Backed(memName)'
    <3>1. Backed(keys) /\ Backed(name) /\ Backed(memName)  BY DEF Identity
    <3> QED  BY <1>3, <3>1, ImportedGrows DEF Backed
  <2>2. \A a \in Attempt :
          /\ pc'[a] \in Labels => keys' = SourceOf[a] /\ memName' = SourceOf[a]
          /\ pc'[a] = "reload" => name' = SourceOf[a]
    BY <1>3 DEF Identity
  <2>3. faults' = 0 => keys' = memName'  BY <1>3 DEF Identity
  <2>4. IdentityWhole'  BY <1>3 DEF IdentityWhole
  <2> HIDE DEF Labels
  <2> QED  BY <2>1, <2>2, <2>3, <2>4 DEF Identity, Labels
\* A call that leaves keys and names alone and goes nowhere near them.
<1>4. ASSUME NEW a \in Attempt, NEW l, pc' = [pc EXCEPT ![a] = l],
             pc[a] # "config", l \notin Labels, UNCHANGED idVars,
             faults' = 0 => faults = 0, errors' = 0 => errors = 0
      PROVE  Identity' /\ IdentityWhole'
  <2>1. \A b \in Attempt : b # a => pc'[b] = pc[b]  BY <1>4 DEF TypeOK
  <2>2. pc'[a] = l  BY <1>4 DEF TypeOK
  <2>3. \A b \in Attempt : /\ pc'[b] \in Labels => pc'[b] = pc[b]
                           /\ pc[b] = "config" => pc'[b] = "config"
    BY <1>4, <2>1, <2>2
  <2> QED  BY <1>3, <1>4, <2>3
<1>5. ASSUME NEW a \in Attempt,
             ApplyReloginSignature(a) \/ SendReloginRequest(a) \/ TakeResult(a) \/ Timeout(a)
      PROVE  Identity' /\ IdentityWhole'
  <2>1. UNCHANGED idVars
    BY <1>5 DEF ApplyReloginSignature, SendReloginRequest, TakeResult, Timeout
  <2>2. pc[a] # "config"
    BY <1>5 DEF ApplyReloginSignature, SendReloginRequest, TakeResult, Timeout
  <2>3. \E l \in {"send", "wait", "keys", "failed"} : pc' = [pc EXCEPT ![a] = l]
    BY <1>5 DEF ApplyReloginSignature, SendReloginRequest, TakeResult, Timeout
  <2>4. (faults' = 0 => faults = 0) /\ (errors' = 0 => errors = 0)
    BY <1>2, <1>5
    DEF ApplyReloginSignature, SendReloginRequest, TakeResult, Timeout, Fault
  <2> QED  BY <1>4, <2>1, <2>2, <2>3, <2>4
\* The call has a result: the source it names sends keys alone, or its snapshot,
\* a whole one, is here.
<1>6. ASSUME NEW a \in Attempt, result[a].status = "ok"
      PROVE  result[a].keys = SourceOf[a] /\ Backed(SourceOf[a])
  BY <1>6 DEF ResultIsWhole, ImportsAreWhole, Backed
<1>7. ASSUME NEW a \in Attempt, pc[a] \in Running
      PROVE  \A b \in Attempt \ {a} : pc[b] \notin Running
  BY <1>7 DEF OneCall
<1>8. ASSUME NEW a \in Attempt, SaveKeysJSON(a) PROVE Identity' /\ IdentityWhole'
  <2>1. pc[a] = "keys" /\ UNCHANGED <<name, result, imported, faults>>
    BY <1>8 DEF SaveKeysJSON, Error
  <2>2. \A b \in Attempt \ {a} : pc'[b] \notin Labels /\ pc[b] \notin Labels
    BY <1>7, <1>8, <2>1 DEF SaveKeysJSON, TypeOK, Running
  <2>3. CASE keys' = result[a].keys /\ memName' = SourceOf[a]
             /\ pc' = [pc EXCEPT ![a] = "config"]
    <3>1. keys' = SourceOf[a] /\ memName' = SourceOf[a] /\ Backed(SourceOf[a])'
      BY <1>1, <1>6, <2>1, <2>3 DEF ResultIsWhole
    <3>2. Backed(keys)' /\ Backed(memName)' /\ Backed(name)'
      BY <2>1, <3>1 DEF Identity, Backed
    <3>3. pc'[a] = "config"  BY <2>3 DEF TypeOK
    <3>4. \A b \in Attempt :
            /\ pc'[b] \in Labels => keys' = SourceOf[b] /\ memName' = SourceOf[b]
            /\ pc'[b] = "reload" => name' = SourceOf[b]
      BY <2>2, <3>1, <3>3
    <3>5. IdentityWhole'  BY <3>3 DEF IdentityWhole
    <3> QED  BY <3>1, <3>2, <3>4, <3>5 DEF Identity
  <2>4. CASE Error /\ pc' = [pc EXCEPT ![a] = "failed"] /\ UNCHANGED <<keys, memName>>
    <3>1. errors' = 0 => errors = 0  BY <1>2, <2>4 DEF Error
    <3>2. faults' = 0 => faults = 0  BY <2>1
    <3>3. pc[a] # "config" /\ "failed" \notin Labels  BY <2>1
    <3>4. UNCHANGED idVars  BY <2>1, <2>4
    <3> HIDE DEF Labels
    <3> QED  BY <1>4, <2>4, <3>1, <3>2, <3>3, <3>4
  <2> QED  BY <1>8, <2>3, <2>4 DEF SaveKeysJSON
<1>9. ASSUME NEW a \in Attempt, SaveAppConfig(a) PROVE Identity' /\ IdentityWhole'
  <2>1. pc[a] = "config" /\ UNCHANGED <<keys, memName, imported, faults>>
    BY <1>9 DEF SaveAppConfig, Error
  <2>2. \A b \in Attempt \ {a} : pc'[b] \notin Labels
    BY <1>7, <1>9, <2>1 DEF SaveAppConfig, TypeOK, Running
  <2>3. keys = SourceOf[a] /\ memName = SourceOf[a]  BY <2>1 DEF Identity
  <2>4. name' \in {name, memName}  BY <1>9 DEF SaveAppConfig
  <2>5. Backed(keys)' /\ Backed(memName)' /\ Backed(name)'
    BY <2>1, <2>4 DEF Identity, Backed
  <2>6. faults' = 0 => keys' = memName'  BY <2>1, <2>3
  <2>7. CASE name' = memName /\ pc' = [pc EXCEPT ![a] = "reload"] /\ UNCHANGED errors
    <3>1. \A b \in Attempt :
            /\ pc'[b] \in Labels => keys' = SourceOf[b] /\ memName' = SourceOf[b]
            /\ pc'[b] = "reload" => name' = SourceOf[b]
      BY <2>1, <2>2, <2>3, <2>7
    <3>2. IdentityWhole'  BY <2>1, <2>3, <2>7 DEF IdentityWhole
    <3> QED  BY <2>5, <2>6, <3>1, <3>2 DEF Identity
  <2>8. CASE Error /\ pc' = [pc EXCEPT ![a] = "failed"]
    <3>1. \A b \in Attempt : pc'[b] \notin Labels  BY <2>2, <2>8 DEF TypeOK
    <3>2. errors' # 0  BY <1>2, <2>8 DEF Error
    <3>3. IdentityWhole'  BY <3>2 DEF IdentityWhole
    <3> QED  BY <2>5, <2>6, <3>1, <3>3 DEF Identity
  <2> QED  BY <1>9, <2>7, <2>8 DEF SaveAppConfig
<1>10. ASSUME NEW a \in Attempt, reloadReplicatedPeers(a) PROVE Identity' /\ IdentityWhole'
  <2>1. /\ pc[a] # "config" /\ UNCHANGED idVars /\ pc' = [pc EXCEPT ![a] = "ok"]
    BY <1>10 DEF reloadReplicatedPeers
  <2>2. (faults' = 0 => faults = 0) /\ (errors' = 0 => errors = 0)
    BY <1>2, <1>10 DEF reloadReplicatedPeers, Error
  <2>3. "ok" \notin Labels  OBVIOUS
  <2> HIDE DEF Labels
  <2> QED  BY <1>4, <2>1, <2>2, <2>3
<1>11. CASE SaveConfig
  <2>1. name' = memName /\ UNCHANGED <<pc, keys, memName, imported, faults, errors>>
    BY <1>11 DEF SaveConfig
  <2>2. Backed(keys)' /\ Backed(memName)' /\ Backed(name)'
    BY <2>1 DEF Identity, Backed
  <2>3. \A a \in Attempt :
          /\ pc'[a] \in Labels => keys' = SourceOf[a] /\ memName' = SourceOf[a]
          /\ pc'[a] = "reload" => name' = SourceOf[a]
    BY <2>1 DEF Identity
  <2>4. faults' = 0 => keys' = memName'  BY <2>1 DEF Identity
  <2>5. IdentityWhole'  BY <2>1 DEF Identity, IdentityWhole
  <2> QED  BY <2>2, <2>3, <2>4, <2>5 DEF Identity
\* The name in memory is the saved one again, whatever the keys are.
<1>12. CASE Crash
  <2>1. memName' = name /\ UNCHANGED <<keys, name, imported>>  BY <1>12 DEF Crash
  <2>2. faults' # 0  BY <1>2, <1>12 DEF Crash, Fault
  <2>3. \A a \in Attempt : pc'[a] \notin Labels  BY <1>12 DEF Crash
  <2>4. Backed(keys)' /\ Backed(memName)' /\ Backed(name)'
    BY <2>1 DEF Identity, Backed
  <2> QED  BY <2>2, <2>3, <2>4 DEF Identity, IdentityWhole
\* What the source, the channel and the job do is none of this.
<1>13. ASSUME UNCHANGED <<pc, idVars>>, faults' = 0 => faults = 0, errors' = 0 => errors = 0
       PROVE  Identity' /\ IdentityWhole'
  BY <1>3, <1>13
<1>14. ASSUME NEW a \in Attempt, Job(a) \/ handleReloginRequest(a) \/ SendReloginChunk(a)
       PROVE  Identity' /\ IdentityWhole'
  <2>1. UNCHANGED <<pc, idVars>>
    BY <1>14 DEF Job, finishReloginTransfer, CheckHash, ImportReplicationSnapshot,
                 CompleteTransfer, handleReloginRequest, SendReloginChunk
  <2>2. (faults' = 0 => faults = 0) /\ (errors' = 0 => errors = 0)
    BY <1>2, <1>14 DEF Job, finishReloginTransfer, CheckHash, ImportReplicationSnapshot,
                 CompleteTransfer, handleReloginRequest, SendReloginChunk, Fault, Error
  <2> QED  BY <1>13, <2>1, <2>2
<1>15. ASSUME NEW p \in Peer, ReceiveResponse(p) \/ ReceiveChunk(p) \/ Disconnect(p)
       PROVE  Identity' /\ IdentityWhole'
  <2>1. UNCHANGED <<pc, idVars>>
    BY <1>15 DEF ReceiveResponse, ReceiveChunk, Disconnect
  <2>2. (faults' = 0 => faults = 0) /\ (errors' = 0 => errors = 0)
    BY <1>2, <1>15 DEF ReceiveResponse, ReceiveChunk, Disconnect, Fault
  <2> QED  BY <1>13, <2>1, <2>2
<1>16. CASE UNCHANGED vars
  BY <1>13, <1>16 DEF vars
<1> QED
  BY <1>5, <1>8, <1>9, <1>10, <1>11, <1>12, <1>14, <1>15, <1>16 DEF Next, Call
-----------------------------------------------------------------------------
(* The inductive invariant, and what it says of the program.               *)

LEMMA RestInit ==
    Init => /\ OneCall /\ Honest /\ TransferOfSource /\ JobHasWhole /\ ResultIsWhole
            /\ ImportsAreWhole /\ Identity /\ IdentityWhole
<1> SUFFICES ASSUME Init
             PROVE  /\ OneCall /\ Honest /\ TransferOfSource /\ JobHasWhole
                    /\ ResultIsWhole /\ ImportsAreWhole /\ Identity /\ IdentityWhole
  OBVIOUS
<1> USE ReloginAssumption DEF Init
<1>1. OneCall  BY DEF OneCall, Running
<1>2. Honest  BY DEF Honest
<1>3. TransferOfSource
  <2>1. NoTransfer.keys = "none" /\ NoTransfer.tid = 0 /\ NoResult.status = "none"
    BY DEF NoTransfer, NoResult
  <2> QED  BY <2>1 DEF TransferOfSource
<1>4. JobHasWhole /\ ImportsAreWhole  BY DEF JobHasWhole, ImportsAreWhole
<1>5. ResultIsWhole
  <2>1. NoResult.status = "none"  BY DEF NoResult
  <2> QED  BY <2>1 DEF ResultIsWhole
<1>6. Identity /\ IdentityWhole  BY DEF Identity, IdentityWhole, Backed
<1> QED  BY <1>1, <1>2, <1>3, <1>4, <1>5, <1>6

LEMMA Inductive == Spec => []IInv
<1>1. Init => IInv  BY TypeInit, RestInit DEF IInv
<1>2. IInv /\ [Next]_vars => IInv'
  BY TypeStep, CallStep, HonestStep, SourceStep, JobStep, ResultStep, IdentityStep
  DEF IInv
<1> QED  BY <1>1, <1>2, PTL DEF Spec

\* The variables keep their types, and the contacts in memory are those of
\* imported snapshots (relogin.go:77-143).
THEOREM TypeCorrect == Spec => []TypeOK
<1>1. IInv => TypeOK  BY DEF IInv
<1> QED  BY <1>1, Inductive, PTL

\* Whatever the network, the source and the store do, an imported snapshot is one
\* the source exported, complete and unmixed, though finishReloginTransfer reads
\* the transfer without its lock (relogin_replication.go:186-212).
THEOREM ImportsAreWholeAlways == Spec => []ImportsAreWhole
<1>1. IInv => ImportsAreWhole  BY DEF IInv
<1> QED  BY <1>1, Inductive, PTL

\* Keys or name of a device that sends its history are never saved here before its
\* history is (relogin.go:116-135, relogin_replication.go:186-212).
THEOREM ImportBeforeIdentityAlways == Spec => []ImportBeforeIdentity
<1>1. IInv => ImportBeforeIdentity
  BY DEF IInv, Identity, Backed, ImportBeforeIdentity
<1> QED  BY <1>1, Inductive, PTL

\* As long as nothing fails, keys and name differ only between SaveKeysJSON and
\* SaveAppConfig of one call (relogin.go:116-135).
THEOREM IdentityWholeAlways == Spec => []IdentityWhole
<1>1. IInv => IdentityWhole  BY DEF IInv
<1> QED  BY <1>1, Inductive, PTL

\* ApplyReloginSignature returns without an error only with the keys and the name
\* of the device that signed, and with the history of the result it took
\* (relogin.go:92-143).
THEOREM SuccessIsWholeAlways == Spec => SuccessIsWhole
<1>1. ASSUME IInv, [Next]_vars
      PROVE  \A a \in Attempt :
               pc[a] # "ok" /\ pc'[a] = "ok" =>
                   /\ keys = SourceOf[a] /\ name = SourceOf[a]
                   /\ \/ SourceOf[a] \in Legacy
                      \/ <<SourceOf[a], result[a].snapshot>> \in imported
  <2> TAKE a \in Attempt
  <2> HAVE pc[a] # "ok" /\ pc'[a] = "ok"
  <2>1. TypeOK /\ ResultIsWhole /\ Identity  BY <1>1 DEF IInv
  \* Only the last step of a call returns without an error.
  <2>2. reloadReplicatedPeers(a)
    <3>1. CASE Crash  BY <3>1 DEF Crash
    <3>2. ASSUME NEW b \in Attempt, NEW l, pc' = [pc EXCEPT ![b] = l], l # "ok" PROVE FALSE
      BY <2>1, <3>2 DEF TypeOK
    <3>3. ASSUME NEW b \in Attempt, reloadReplicatedPeers(b) PROVE b = a
      BY <2>1, <3>3 DEF reloadReplicatedPeers, Return, Go, TypeOK
    <3>4. ASSUME NEW b \in Attempt,
                 \/ ApplyReloginSignature(b) \/ SendReloginRequest(b) \/ TakeResult(b)
                 \/ SaveKeysJSON(b) \/ SaveAppConfig(b) \/ Timeout(b)
          PROVE  FALSE
      <4>1. \E l \in {"send", "wait", "keys", "config", "reload", "failed"} :
               pc' = [pc EXCEPT ![b] = l]
        BY <3>4 DEF ApplyReloginSignature, SendReloginRequest, TakeResult, SaveKeysJSON,
                    SaveAppConfig, Timeout, Return, Go
      <4> QED  BY <3>2, <4>1
    <3>5. CASE UNCHANGED pc  BY <3>5
    <3> QED
      BY <1>1, <3>1, <3>3, <3>4, <3>5
      DEF Next, Call, Job, vars, SaveConfig, handleReloginRequest, SendReloginChunk,
          ReceiveResponse, ReceiveChunk, Disconnect, finishReloginTransfer, CheckHash,
          ImportReplicationSnapshot, CompleteTransfer
  <2>3. pc[a] = "reload"  BY <2>2 DEF reloadReplicatedPeers
  <2>4. keys = SourceOf[a] /\ name = SourceOf[a]  BY <2>1, <2>3 DEF Identity
  <2> QED  BY <2>1, <2>3, <2>4 DEF ResultIsWhole
<1>2. IInv /\ [Next]_vars =>
        [\A a \in Attempt :
            pc[a] # "ok" /\ pc'[a] = "ok" =>
                /\ keys = SourceOf[a] /\ name = SourceOf[a]
                /\ \/ SourceOf[a] \in Legacy
                   \/ <<SourceOf[a], result[a].snapshot>> \in imported]_vars
  BY <1>1
<1> QED  BY <1>2, Inductive, PTL DEF Spec, SuccessIsWhole

\* reloginTransfer is set exactly as long as a call is under way, to that call's
\* transfer: every return, on whatever path, clears it, a late one does not clear
\* another call's, and a call that is turned away sets nothing (relogin.go:84-91,
\* clearReloginTransfer).
THEOREM OneCallAlways == Spec => []OneCall
<1>1. IInv => OneCall  BY DEF IInv
<1> QED  BY <1>1, Inductive, PTL
=============================================================================
