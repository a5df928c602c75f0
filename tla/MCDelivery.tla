---------------------------- MODULE MCDelivery ----------------------------
(* Small instances of Delivery for TLC.                                    *)
EXTENDS Delivery, TLC

CONSTANTS p1, p2, p3, r1, r2, me, m1, a1, c1, c2, kMe, kTo, kOther, kGroup, noKey

\* One message m1 for a group: a text of one chunk with an attachment a1 of one chunk.
OneMessage == {m1}
OneFiles == {m1, a1}
OneMsgOf == (c1 :> m1 @@ c2 :> m1)
OneFileOf == (c1 :> m1 @@ c2 :> a1)
OneTextFile == (m1 :> m1)
OneRecipientOf == (m1 :> kGroup @@ a1 :> noKey)

\* One text message of one chunk for a user.
ShortFiles == {m1}
ShortMsgOf == (c1 :> m1)
ShortRecipientOf == (m1 :> kTo)

\* Request IDs are only compared with one another.
ReqSymmetry == Permutations(ReqId)

Keys == {kMe, kTo, kOther, kGroup, noKey}
\* A member of the group.
WithMember == (p2 :> kTo)
OneMembersOf == [k \in Keys |-> IF k = kGroup THEN {kTo} ELSE {}]
\* A stranger, another device of the sender and the recipient's device.
WithReplica == (p1 :> kOther @@ p2 :> kMe @@ p3 :> kTo)
=============================================================================
