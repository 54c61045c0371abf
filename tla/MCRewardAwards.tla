--------------------------- MODULE MCRewardAwards ---------------------------
(* The instances TLC checks. *)
EXTENDS RewardAwards, TLC

CONSTANTS w1, w2, e1, e2, n1

WorkerSymmetry == Permutations(Workers)

\* Rule 1 answers a message, rule 2 a balance.
EarnThenConvert == <<"message", "threshold">>
EarnConvertBenefits == <<{"points"}, {"convert"}>>
CapFirst == <<1, 0>>
NoneHeld == <<FALSE, FALSE>>
Reversing == <<"on_content_deleted", "on_content_deleted">>
OneAdjustment == [n \in {n1} |-> -1]

\* Both rules answer a message, one at once, one after a hold; the second is
\* the next version of the first.
TwoMessageRules == <<"message", "message">>
PointsAndRight == <<{"points"}, {"points", "entitlement"}>>
SecondHeld == <<FALSE, TRUE>>
CapBoth == <<1, 1>>
Edited == <<0, 1>>
NoPolicy == <<"none", "none">>
NoAdjustment == [n \in {} |-> 0]
NoEdit == <<0, 0>>
=============================================================================
