------------------------------ MODULE MCRelogin ------------------------------
(* Small instances of Relogin for TLC.                                     *)
EXTENDS Relogin, TLC

CONSTANTS p1, p2

ThereAndBack == (1 :> p1 @@ 2 :> p2 @@ 3 :> p1)

\* A larger database gives a larger snapshot.
Growing == (1 :> 1 @@ 2 :> 2)
=============================================================================
