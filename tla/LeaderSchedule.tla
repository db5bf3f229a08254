--------------------------- MODULE LeaderSchedule ---------------------------
(***************************************************************************)
(* The leader of an even round: a choice seeded by the round, replaced by  *)
(* a well-performing authority when the chosen one is among the worst of   *)
(* the last schedule (leader_schedule.rs, ReputationScores).               *)
(* Authorities are integers, as AuthorityIdentifier is: ties are broken by *)
(* identifier.                                                             *)
(***************************************************************************)
EXTENDS Committee, Sequences, SequencesExt

CONSTANTS
    BaseLeader,         \* Committee::leader: the authority chosen for a round
    SwapSeed,           \* the random draw among the good nodes for a round
    BadNodesThreshold   \* consensus_bad_nodes_stake_threshold, in percent

ASSUME LeaderScheduleAssumption ==
    /\ Authority \subseteq Int
    /\ BadNodesThreshold \in 0 .. 33

Scores == [Authority -> Nat]

NoTable == [good |-> <<>>, bad |-> {}]

(* The elements of S in the strict order Before.                           *)
InOrder(S, Before(_, _)) ==
    [i \in 1 .. Cardinality(S) |->
        CHOOSE x \in S : Cardinality({y \in S : Before(y, x)}) = i - 1]

(* Highest score first, then highest identifier.                           *)
AuthoritiesByScoreDesc(scores) ==
    InOrder(Authority, LAMBDA a, b : \/ scores[a] > scores[b]
                                     \/ scores[a] = scores[b] /\ a > b)

(* The first authorities of s that together stay within the threshold.     *)
RetrieveFirstNodes(s) ==
    LET fits == {n \in 0 .. Len(s) :
                   StakeOf(ToSet(SubSeq(s, 1, n)))
                      <= (BadNodesThreshold * TotalStake) \div 100}
    IN SubSeq(s, 1, CHOOSE n \in fits : \A m \in fits : m <= n)

(* LeaderSwapTable::new.                                                   *)
LeaderSwapTable(scores) ==
    LET byScore == AuthoritiesByScoreDesc(scores) IN
    [good |-> RetrieveFirstNodes(byScore),
     bad  |-> ToSet(RetrieveFirstNodes(Reverse(byScore)))]

(* LeaderSwapTable::swap expects a good node when the leader is a bad one. *)
SwapPanics(table, r) == BaseLeader[r] \in table.bad /\ table.good = <<>>

(* Mutant: a bad leader keeps its round.                                   *)
Leader_NoSwap(table, r) == BaseLeader[r]

Leader(table, r) ==
    IF BaseLeader[r] \in table.bad
    THEN table.good[(SwapSeed[r] % Len(table.good)) + 1]
    ELSE BaseLeader[r]
=============================================================================
