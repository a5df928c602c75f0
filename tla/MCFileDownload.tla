--------------------------- MODULE MCFileDownload ---------------------------
(* Small instances of FileDownload for TLC.                                *)
EXTENDS FileDownload, TLC

CONSTANTS f1, n1

OneFile == (f1 :> n1)
=============================================================================
