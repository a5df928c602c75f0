-------------------------------- MODULE Pool --------------------------------
(***************************************************************************)
(* Two nodes that store each other's chunks, each with its worker pool:    *)
(* jobs that deliver first dial the message's recipient, a third node,     *)
(* then send the other one a batch and wait for its acknowledgement; the   *)
(* data channel's reader hands batches to the pool and blocks while the    *)
(* queue is full; acknowledgements come by the same channel, behind the    *)
(* batches. Either node may shut down at any time.                         *)
(*                                                                         *)
(* internal/messenger/{async_pool,outgoing,chunk_delivery,chunks,          *)
(* messenger}.go,                                                          *)
(* internal/webrtc/{webrtc,chunk_ack}.go                                   *)
(*                                                                         *)
(* A request is a message accepted by SendMessage, as one batch for the    *)
(* other node; what is kept in the database and when is module Delivery.   *)
(* Every attempt has a request ID of its own, here the number of the try.  *)
(* Workers are told apart by their jobs only. A worker that waits for a    *)
(* connection to request a chunk (chunks.go:178-258) is at a dial as well, *)
(* with nothing to follow it.                                              *)
(***************************************************************************)
EXTENDS PoolState

ASSUME PoolAssumption == PoolConstants

poolVars == <<queue, active, gone, loop>>
sendVars == <<state, tries, acks>>
netVars == <<link, wire, reader>>
vars == <<ctx, poolVars, sendVars, netVars, stop>>

TypeOK ==
    /\ ctx \in [Node -> {"live", "cancelled"}]
    /\ \A n \in Node :
          /\ Len(queue[n]) <= QueueSize
          /\ \A i \in 1..Len(queue[n]) : queue[n][i] \in Jobs
          /\ active[n] \subseteq Busy
          /\ gone[n] \in Nat /\ Cardinality(active[n]) + gone[n] <= Workers
          /\ \A i \in 1..Len(wire[n]) : wire[n][i] \in {"batch", "ack"} \X Try
    /\ loop \in [Node -> Try \cup {Idle, Ended}]
    /\ state \in [Req -> {"new", "pending", "placed"}]
    /\ tries \in [Req -> 0..MaxTries]
    /\ acks \subseteq Waiting(1) \cup Waiting(2)
    /\ link \in {"up", "down"}
    /\ reader \in [Node -> {Nothing} \cup Try]
    /\ stop \in [Node -> {"no", "cancelled", "closed", "joined", "done"}]

Init ==
    /\ ctx = [n \in Node |-> "live"]
    /\ queue = [n \in Node |-> <<>>] /\ active = [n \in Node |-> {}]
    /\ gone = [n \in Node |-> 0] /\ loop = [n \in Node |-> Idle]
    /\ state = [r \in Req |-> "new"] /\ tries = [r \in Req |-> 0] /\ acks = {}
    /\ link = "up" /\ wire = [n \in Node |-> <<>>]
    /\ reader = [n \in Node |-> Nothing]
    /\ stop = [n \in Node |-> "no"]

Room(n) == Len(queue[n]) < QueueSize

TrySubmit(n, job) ==
    queue' = IF ctx[n] = "live" /\ Room(n) THEN [queue EXCEPT ![n] = Append(@, job)]
             ELSE queue

-----------------------------------------------------------------------------
(* Deliveries *)

(* SendMessage: accepted, and handed to the pool if that has room. A node  *)
(* sends its requests in the order of their numbers.                       *)
SendMessage(r) ==
    LET n == OwnerOf[r] IN
    /\ state[r] = "new" /\ stop[n] = "no"
    /\ \A q \in Req : q < r /\ OwnerOf[q] = n => state[q] # "new"
    /\ state' = [state EXCEPT ![r] = "pending"]
    /\ TrySubmit(n, <<"deliver", r>>)
    /\ UNCHANGED <<ctx, active, gone, loop, tries, acks, netVars, stop>>

(* (A variant of MayDeliver: deliveries do not exclude each other.)        *)
MayDeliverAlways(n, r) ==
    ctx[n] = "live" /\ link = "up" /\ tries[r] < MaxTries

(* distributeChunks leaves a request in the outbox while another delivery  *)
(* holds deliveryMu, and without a connection.                             *)
MayDeliver(n, r) ==
    /\ Waiting(n) = {}
    /\ ctx[n] = "live" /\ link = "up" /\ tries[r] < MaxTries

NextTry(r) == <<r, tries[r] + 1>>

(* Register the waiter and send the batch. *)
SendChunkStoreBatchConfirmed(n, r) ==
    /\ tries' = [tries EXCEPT ![r] = @ + 1]
    /\ wire' = [wire EXCEPT ![Other(n)] = Append(@, <<"batch", NextTry(r)>>)]

\* The wait for t is over.
Return(n, t) ==
    /\ active' = [active EXCEPT ![n] = @ \ {<<"wait", t>>}]
    /\ loop' = IF loop[n] = t THEN [loop EXCEPT ![n] = Idle] ELSE loop
    /\ acks' = acks \ {t}

(* The acknowledgement: the batch is placed. *)
Confirmed(n) ==
    \E t \in acks \cap Waiting(n) :
        /\ Return(n, t)
        /\ state' = [state EXCEPT ![t[1]] = "placed"]
        /\ UNCHANGED <<ctx, queue, gone, tries, netVars, stop>>

\* Without a connection or a context nothing comes any more.
Cut(n) == link = "down" \/ ctx[n] = "cancelled"

(* Five seconds, or the end of the context. *)
GivesUp(n) ==
    \E t \in Waiting(n) :
        /\ Cut(n) \/ t[1] \in Slow
        /\ Return(n, t)
        /\ UNCHANGED <<ctx, queue, gone, state, tries, netVars, stop>>

(* pendingChunkLoop *)
PendingChunkLoop(n) ==
    \E r \in Req :
        /\ loop[n] = Idle
        /\ OwnerOf[r] = n /\ state[r] = "pending" /\ MayDeliver(n, r)
        /\ SendChunkStoreBatchConfirmed(n, r)
        /\ loop' = [loop EXCEPT ![n] = NextTry(r)]
        /\ UNCHANGED <<ctx, queue, active, gone, state, acks, link, reader, stop>>

-----------------------------------------------------------------------------
(* The pool *)

(* distributeChunks, in a worker of n whose fellows are at others. *)
DistributeChunks(n, r, others) ==
    \/ /\ MayDeliver(n, r)
       /\ SendChunkStoreBatchConfirmed(n, r)
       /\ active' = [active EXCEPT ![n] = others \cup {<<"wait", NextTry(r)>>}]
    \/ /\ ~MayDeliver(n, r)
       /\ active' = [active EXCEPT ![n] = others]
       /\ UNCHANGED <<tries, wire>>

(* A worker takes a job. A delivery dials its recipient first, unless that *)
(* is connected, a group, or there are files; a report has no effect here. *)
TakeJob(n) ==
    LET job == Head(queue[n])
        Begin(j) == active' = [active EXCEPT ![n] = @ \cup {j}] /\ UNCHANGED <<tries, wire>>
    IN
    /\ IdleWorker(n) /\ queue[n] # <<>> /\ ctx[n] = "live"
    /\ queue' = [queue EXCEPT ![n] = Tail(@)]
    /\ \/ job[1] = "deliver" /\ job[2] \in Apart /\ Begin(<<"dial", job[2]>>)
       \/ job[1] = "deliver" /\ job[2] \notin Apart /\ DistributeChunks(n, job[2], active[n])
       \/ job[1] = "store" /\ Begin(job)
       \/ job[1] = "report" /\ UNCHANGED <<active, tries, wire>>
    /\ UNCHANGED <<ctx, gone, loop, state, acks, link, reader, stop>>

(* deliverOutgoing goes on: the recipient is connected, or the call to     *)
(* Muninn or waitForPeerConnection has timed out, or the context is gone.  *)
DialEnds(n) ==
    \E r \in Req :
        /\ <<"dial", r>> \in active[n]
        /\ DistributeChunks(n, r, active[n] \ {<<"dial", r>>})
        /\ UNCHANGED <<ctx, queue, gone, loop, state, acks, link, reader, stop>>

(* A worker ends with the context; it may have received a job, which it    *)
(* drops.                                                                  *)
WorkerEnds(n) ==
    /\ IdleWorker(n) /\ ctx[n] = "cancelled"
    /\ gone' = [gone EXCEPT ![n] = @ + 1]
    /\ \/ UNCHANGED queue
       \/ queue[n] # <<>> /\ queue' = [queue EXCEPT ![n] = Tail(@)]
    /\ UNCHANGED <<ctx, active, loop, sendVars, netVars, stop>>

LoopEnds(n) ==
    /\ loop[n] = Idle /\ ctx[n] = "cancelled"
    /\ loop' = [loop EXCEPT ![n] = Ended]
    /\ UNCHANGED <<ctx, queue, active, gone, sendVars, netVars, stop>>

(* storeChunkBatch: store, try to have the sender's quality reported, and  *)
(* acknowledge if the connection is there.                                 *)
StoreChunkBatch(n) ==
    \E t \in Try :
        /\ <<"store", t>> \in active[n]
        /\ active' = [active EXCEPT ![n] = @ \ {<<"store", t>>}]
        /\ TrySubmit(n, <<"report">>)
        /\ wire' = IF link = "up" THEN [wire EXCEPT ![Other(n)] = Append(@, <<"ack", t>>)]
                   ELSE wire
        /\ UNCHANGED <<ctx, gone, loop, sendVars, link, reader, stop>>

-----------------------------------------------------------------------------
(* The data channel's reader *)

(* It goes to its waiter, if that still waits. *)
acceptChunkStoreAck(n, t) == acks' = acks \cup ({t} \cap Waiting(n))

(* onMessage: an acknowledgement goes to its waiter, a batch is submitted. *)
OnMessage(n) ==
    /\ reader[n] = Nothing /\ wire[n] # <<>>
    /\ LET m == Head(wire[n]) IN
       CASE m[1] = "ack" ->
               /\ acceptChunkStoreAck(n, m[2])
               /\ UNCHANGED <<queue, reader>>
         [] m[1] = "batch" /\ ctx[n] = "live" /\ Room(n) ->
               /\ TrySubmit(n, <<"store", m[2]>>)
               /\ UNCHANGED <<acks, reader>>
         [] OTHER ->
               /\ reader' = [reader EXCEPT ![n] = m[2]]
               /\ UNCHANGED <<acks, queue>>
    /\ wire' = [wire EXCEPT ![n] = Tail(@)]
    /\ UNCHANGED <<ctx, active, gone, loop, state, tries, link, stop>>

(* submit waits for room or for the end of the context. *)
Submit(n) ==
    /\ reader[n] # Nothing
    /\ \/ Room(n) /\ queue' = [queue EXCEPT ![n] = Append(@, <<"store", reader[n]>>)]
       \/ ctx[n] = "cancelled" /\ UNCHANGED queue
    /\ reader' = [reader EXCEPT ![n] = Nothing]
    /\ UNCHANGED <<ctx, active, gone, loop, sendVars, link, wire, stop>>

-----------------------------------------------------------------------------
(* Shutdown *)

Cancel(n) ==
    /\ stop[n] = "no" /\ n \in Stopping
    /\ stop' = [stop EXCEPT ![n] = "cancelled"]
    /\ ctx' = [ctx EXCEPT ![n] = "cancelled"]
    /\ UNCHANGED <<poolVars, sendVars, netVars>>

(* CloseAll: what is on its way is lost. *)
CloseAll(n) ==
    /\ stop[n] = "cancelled"
    /\ stop' = [stop EXCEPT ![n] = "closed"]
    /\ link' = "down" /\ wire' = [k \in Node |-> <<>>]
    /\ UNCHANGED <<ctx, poolVars, sendVars, reader>>

(* backgroundWG.Wait *)
JoinLoops(n) ==
    /\ stop[n] = "closed" /\ loop[n] = Ended
    /\ stop' = [stop EXCEPT ![n] = "joined"]
    /\ UNCHANGED <<ctx, poolVars, sendVars, netVars>>

(* (A variant of CloseStore: it does not wait for the pool.)               *)
CloseStoreEarly(n) ==
    /\ stop[n] = "joined"
    /\ stop' = [stop EXCEPT ![n] = "done"]
    /\ UNCHANGED <<ctx, poolVars, sendVars, netVars>>

(* async.wait, then store.Close *)
CloseStore(n) ==
    /\ stop[n] = "joined" /\ gone[n] = Workers
    /\ stop' = [stop EXCEPT ![n] = "done"]
    /\ UNCHANGED <<ctx, poolVars, sendVars, netVars>>

-----------------------------------------------------------------------------
PoolStep(n) ==
    \/ TakeJob(n) \/ DialEnds(n) \/ StoreChunkBatch(n)
    \/ Confirmed(n) \/ (Cut(n) /\ GivesUp(n))
    \/ WorkerEnds(n) \/ LoopEnds(n)

ReaderStep(n) == OnMessage(n) \/ Submit(n)

ShutdownStep(n) == CloseAll(n) \/ JoinLoops(n) \/ CloseStore(n)

\* What goroutines do of themselves.
Work == \E n \in Node : PoolStep(n) \/ ReaderStep(n) \/ ShutdownStep(n)

Next ==
    \/ Work
    \/ \E r \in Req : SendMessage(r)
    \/ \E n \in Node : PendingChunkLoop(n) \/ (~Cut(n) /\ GivesUp(n)) \/ Cancel(n)

Spec == Init /\ [][Next]_vars

(* Some goroutine runs as long as one can: this is enough, as none can run *)
(* for ever without the others. A dial ends, by its own timers if need be. *)
(* The timer of an acknowledgement is assumed to fire only once the        *)
(* connection is gone: while it is there the nodes must get on without it. *)
(* Nobody need send, repeat or shut down.                                  *)
FairSpec == Spec /\ WF_vars(Work)

-----------------------------------------------------------------------------
(* Properties *)

(* Everything that has begun ends: the nodes never wait for each other.    *)
(* With both queues full, both readers blocked and every worker at a dial, *)
(* the dials end, and what waits for an acknowledgement gets it without    *)
(* the help of its timer, as the waits never take all the workers; a       *)
(* reader that blocks on a full queue goes on, also while its pool is      *)
(* being shut down; and Shutdown comes to its end, whatever the two nodes  *)
(* are at. That no timer is needed does not say that none fires: while the *)
(* other node's workers dial, a batch may well not be stored in time.      *)
Settles ==
    <>[] \A n \in Node : /\ active[n] = {} /\ loop[n] \in {Idle, Ended}
                         /\ reader[n] = Nothing
                         /\ stop[n] \in {"no", "done"}
=============================================================================
