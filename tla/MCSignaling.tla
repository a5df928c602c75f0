---------------------------- MODULE MCSignaling ----------------------------
(* Small instances of Signaling; the cfg files give the bounds. *)
EXTENDS Signaling
=============================================================================
