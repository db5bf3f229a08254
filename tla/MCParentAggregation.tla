------------------------- MODULE MCParentAggregation ------------------------
(* Four authorities of stake one: a quorum is three of them.               *)
EXTENDS ParentAggregation, TLC

CONSTANTS v1, v2, v3, v4

Symmetry == Permutations(Authority)

EqualStake == [a \in Authority |-> 1]
=============================================================================
