------------------------------ MODULE PoolState ------------------------------
(***************************************************************************)
(* The worker pools of two nodes, the goroutines around them, and what     *)
(* must hold of them while the nodes deliver and shut down. Module Pool    *)
(* has the steps.                                                          *)
(*                                                                         *)
(* internal/messenger/{async_pool,messenger}.go                            *)
(***************************************************************************)
EXTENDS Integers, Sequences, FiniteSets

CONSTANTS
    Workers,     \* how many workers a pool has
    QueueSize,   \* jobs a pool's queue holds
    Reqs,        \* how many requests there are
    OwnerOf,     \* [Req -> Node], who sends it
    Apart,       \* the requests whose recipient is to be dialled
    Stopping,    \* the nodes that may shut down
    MaxTries,    \* bound: attempts at a request
    Slow         \* bound: the requests whose timer fires while the
                 \* connection is up

Node == {1, 2}
Other(n) == 3 - n
Req == 1..Reqs

PoolConstants ==
    /\ Workers \in Nat \ {0}
    /\ QueueSize \in Nat \ {0}
    /\ Reqs \in Nat
    /\ OwnerOf \in [Req -> Node]
    /\ Apart \subseteq Req
    /\ Stopping \subseteq Node
    /\ MaxTries \in Nat \ {0}
    /\ Slow \subseteq Req

VARIABLES
    ctx,         \* the node's context: "live", "cancelled"
    queue,       \* the pool's queue
    active,      \* the jobs its workers are at: "store", "dial" a message's
                 \* recipient, "wait" for an acknowledgement
    gone,        \* how many of its workers have ended
    loop,        \* the loop that repeats deliveries: the try it waits for,
                 \* Idle or Ended
    state,       \* a request: "new", "pending" (in the outbox), "placed"
    tries,       \* how often it has been sent
    acks,        \* acknowledgements in their waiters' channels
    link,        \* the data channel: "up", "down"
    wire,        \* messages on their way to a node, in order
    reader,      \* the batch the node's reader is submitting, if any
    stop         \* Shutdown: how far it is; the database is closed when "done"

Idle == <<"idle">>
Ended == <<"ended">>
Nothing == <<>>
Try == Req \X (1..MaxTries)
Busy == ({"dial"} \X Req) \cup ({"store", "wait"} \X Try)
Jobs == ({"deliver"} \X Req) \cup ({"store"} \X Try) \cup {<<"report">>}

\* The tries a node waits for.
Waiting(n) == {t \in Try : <<"wait", t>> \in active[n] \/ loop[n] = t}

\* A worker has no job.
IdleWorker(n) == Cardinality(active[n]) + gone[n] < Workers

-----------------------------------------------------------------------------
(* Properties *)

(* The database is closed only when no worker and no loop will use it any  *)
(* more (docs/architecture.md, the end of section 9).                      *)
StoreOutlivesWork ==
    \A n \in Node : stop[n] = "done" => active[n] = {} /\ ~IdleWorker(n) /\ loop[n] = Ended

(* The workers of a node that runs are never all waiting for the other     *)
(* node to acknowledge, however many accepted messages there are to         *)
(* deliver: distributeChunks tries deliveryMu instead of waiting for it     *)
(* (chunk_delivery.go:30-34). With none idle one is storing a batch, or     *)
(* dials a recipient (outgoing.go:132-137), which ends by its own timers.   *)
(* Dials may well take all of them.                                         *)
NotAllWait ==
    \A n \in Node : stop[n] = "no" =>
        IdleWorker(n) \/ \E j \in active[n] : j[1] # "wait"
=============================================================================
