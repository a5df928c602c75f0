------------------------------ MODULE MCInbox ------------------------------
(* Small instances of Inbox for TLC.                                       *)
EXTENDS Inbox, TLC

CONSTANTS m1, x1, x2, c1, c2

\* One message of two chunks.
OneMessage == {m1}
OneMsgOf == (x1 :> m1 @@ x2 :> m1)

\* One message of one chunk.
ShortMsgOf == (x1 :> m1)
=============================================================================
