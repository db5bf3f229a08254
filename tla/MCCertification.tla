-------------------------- MODULE MCCertification --------------------------
(***************************************************************************)
(* Instances of Certification for TLC: four authorities of stake one, at   *)
(* most one of them Byzantine.                                             *)
(***************************************************************************)
EXTENDS Certification, TLC

CONSTANTS a1, a2, a3, b, p1, p2

UnitStake == [a \in Authority |-> 1]

(* The authorities that only vote are interchangeable, as are payloads.    *)
VoterSymmetry == Permutations(Authority \ (Author \cup Byzantine))
                 \cup Permutations(Payload)

(* The requests of the Byzantine author b are followed, or the headers of  *)
(* a1, but not both: no step for one author reads what belongs to the      *)
(* other.  One primary crashes; among the voters of b, which are all       *)
(* alike, it is a1.                                                        *)
NothingOf_a1 ==
    /\ rxParents[a1] = <<>> /\ frontier[a1] = 0
    /\ round[a1] = 0 /\ lastParents[a1]
    /\ recovery[a1] = "pending" /\ proposed = {}

NothingOf_b ==
    /\ \A v \in Honest : inflight[v][b] = {} /\ voteInfo[v][b] = NoHeader
    /\ \A h \in certificates : h.author # b

(* A header of b that can be certified stays so, and no step reads its     *)
(* certificate: it is certified at once.                                   *)
Certifiable ==
    {h \in Requested(b) \ certificates : ReachedQuorum(Signers(h))}

MCNext ==
    IF Certifiable # {} THEN \E h \in Certifiable : FormCertificate(h)
    ELSE \/ NothingOf_b /\ (ProposerStep(a1)
                              \/ \E v \in Honest : VoteFor(v, a1))
         \/ NothingOf_a1 /\ \E v \in Honest : VoteFor(v, b)
         \/ \E h \in Requested(a1) : FormCertificate(h)
         \/ /\ \A a \in Honest : crashes[a] = 0
            /\ \E a \in Honest : (a = a1 \/ ~NothingOf_a1) /\ Crash(a)

MCSpec == Init /\ [][MCNext]_vars
=============================================================================
