--------------------------- MODULE SignalTransport ---------------------------
(***************************************************************************)
(* What the signaling code may expect of a call that relays a signal       *)
(* through Muninn (ConnectToPeer, RelaySignal): a call that succeeds has   *)
(* been relayed, once; a call that fails may have been relayed, or may     *)
(* still be.                                                               *)
(***************************************************************************)
EXTENDS Naturals

CONSTANT Call

VARIABLES
    call,        \* "idle", "waiting", "ok" or "failed"
    relayed      \* how often Muninn has passed the signal on

vars == <<call, relayed>>

Init ==
    /\ call = [c \in Call |-> "idle"]
    /\ relayed = [c \in Call |-> 0]

Begin(c) ==
    /\ call[c] = "idle"
    /\ call' = [call EXCEPT ![c] = "waiting"]
    /\ UNCHANGED relayed

Relay(c) ==
    /\ call[c] \in {"waiting", "failed"} /\ relayed[c] = 0
    /\ relayed' = [relayed EXCEPT ![c] = 1]
    /\ UNCHANGED call

Succeed(c) ==
    /\ call[c] = "waiting" /\ relayed[c] = 1
    /\ call' = [call EXCEPT ![c] = "ok"]
    /\ UNCHANGED relayed

Fail(c) ==
    /\ call[c] = "waiting"
    /\ call' = [call EXCEPT ![c] = "failed"]
    /\ UNCHANGED relayed

Next == \E c \in Call : Begin(c) \/ Relay(c) \/ Succeed(c) \/ Fail(c)

Spec == Init /\ [][Next]_vars
=============================================================================
