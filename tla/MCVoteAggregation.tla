-------------------------- MODULE MCVoteAggregation -------------------------
(* Six authorities of unequal stake, a light and a heavy one of them       *)
(* Byzantine: the total is 13, a quorum is 9, the stake of the honest.  v4 *)
(* weighs more than v2, so that the drop of an invalid vote of v2 can      *)
(* leave a quorum behind, and nobody more than v3: after the drop of its   *)
(* vote the votes of the others must still make the certificate.           *)
EXTENDS VoteAggregation

CONSTANTS v1, v2, v3, v4, v5, v6

SixAuthorities == {v1, v2, v3, v4, v5, v6}
TwoByzantine == {v2, v3}
UnequalStake ==
    [a \in Authority |-> CASE a = v2 -> 1 [] a \in {v3, v4} -> 3 [] OTHER -> 2]
=============================================================================
