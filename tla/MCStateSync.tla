---------------------------- MODULE MCStateSync ----------------------------
(* Small instances of StateSync for TLC; a small set of model values is    *)
(* given for each constant in the .cfg files.                              *)
EXTENDS StateSync
=============================================================================
