------------------------------- MODULE MCNode -------------------------------
(* One endpoint, started a few times. *)
EXTENDS Node
=============================================================================
