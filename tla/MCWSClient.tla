---------------------------- MODULE MCWSClient ----------------------------
(* Small instances of WSClient; the cfg file gives the bounds. *)
EXTENDS WSClient
=============================================================================
