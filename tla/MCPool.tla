------------------------------- MODULE MCPool -------------------------------
(* A node with more requests than it has workers, and another with one. *)
EXTENDS Pool

ThreeAndOne == <<1, 1, 1, 2>>
=============================================================================
