----------------------------- MODULE Committee -----------------------------
(***************************************************************************)
(* The Narwhal committee: authorities, their voting stake, and the quorum  *)
(* and validity thresholds derived from the total stake                    *)
(* (narwhal/config/src/committee.rs).                                      *)
(***************************************************************************)
EXTENDS Integers, FiniteSets, Functions

CONSTANTS
    Authority,  \* the authorities of the committee
    Stake,      \* the voting power of each authority
    Byzantine   \* the authorities that may deviate from the protocol

ASSUME CommitteeAssumption ==
    /\ IsFiniteSet(Authority)
    /\ Stake \in [Authority -> Nat \ {0}]
    /\ Byzantine \in SUBSET Authority

(* Sum of the stakes of a set of authorities. *)
StakeOf(S) == SumFunctionOnSet(Stake, S)

TotalStake == StakeOf(Authority)

(* calculate_quorum_threshold: 2N/3 + 1, with integer division. *)
QuorumThreshold == ((2 * TotalStake) \div 3) + 1

(* calculate_validity_threshold: (N + 2)/3, with integer division. *)
ValidityThreshold == (TotalStake + 2) \div 3

ReachedQuorum(S) == StakeOf(S) >= QuorumThreshold

ReachedValidity(S) == StakeOf(S) >= ValidityThreshold

(* The fault assumption of the protocol: less than a third of the stake.   *)
ASSUME FaultAssumption == 3 * StakeOf(Byzantine) < TotalStake
=============================================================================
