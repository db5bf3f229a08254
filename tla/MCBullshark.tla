---------------------------- MODULE MCBullshark ----------------------------
(***************************************************************************)
(* Four authorities with one unit of stake each and DAGs of a few rounds   *)
(* in which a chosen set of authors leaves a leader candidate out of its   *)
(* parents.  The validator `ref' processes everything first, in the order  *)
(* of rounds and without crashes; the validator `v' then takes any order.  *)
(***************************************************************************)
EXTENDS Bullshark

CONSTANTS LastRound, Omitting3, Omitting4, Omitting5, Ref

MCAuthority == 0 .. 3
UnitStake == [a \in MCAuthority |-> 1]

(* Authority 0 leads rounds 2 and 4 until it becomes a bad node.           *)
MCBaseLeader == [r \in {2, 4, 6} |-> IF r = 6 THEN 1 ELSE 0]
MCSwapSeed == [r \in {2, 4, 6} |-> r]
MCCertificate == {<<r, a>> : r \in 1 .. LastRound, a \in MCAuthority}

(* Timestamps that go back from the leader of round 2 to that of round 4.  *)
MCCreatedAt == [c \in MCCertificate |-> IF c[1] = 2 THEN 5 ELSE c[1]]

(* Which authors a certificate leaves out unless chosen otherwise: the     *)
(* slow authority 2, so that its certificates may come after garbage       *)
(* collection, or the one opposite to its author.                          *)
AllButSlow(a) == IF a = 2 THEN MCAuthority ELSE MCAuthority \ {2}
AllButOne(a) == MCAuthority \ {(a + 2) % 4}

(* The authors in o3 omit the round-2 leader 0; those in o4 omit authority *)
(* x4 in round 4; those in o5 omit the candidate x5 of round 4.            *)
DagWith(Usual(_), o3, o4, x4, o5, x5) ==
    [c \in MCCertificate |->
        CASE c[1] = 1 -> {}
          [] c[1] = 3 /\ c[2] \in o3 -> MCAuthority \ {0}
          [] c[1] = 4 /\ c[2] \in o4 -> MCAuthority \ {x4}
          [] c[1] = 5 /\ c[2] \in o5 -> MCAuthority \ {x5}
          [] OTHER -> Usual(c[2])]

MCDags == UNION {{DagWith(AllButSlow, o3, o4, x4, o5, x5),
                  DagWith(AllButOne, o3, o4, x4, o5, x5)} :
             o3 \in Omitting3, o4 \in Omitting4, x4 \in {2, 3},
             o5 \in Omitting5, x5 \in {0, 3}}

(* Certificates in the order in which `ref' takes them.                    *)
Canonical == [i \in 1 .. 4 * LastRound |-> <<((i - 1) \div 4) + 1, (i - 1) % 4>>]

RefStep ==
    \/ CommitSubDag(Ref)
    \/ /\ Cardinality(delivered[Ref]) < Len(Canonical)
       /\ ProcessCertificate(Ref, Canonical[Cardinality(delivered[Ref]) + 1])

RefDone == Cardinality(delivered[Ref]) = Len(Canonical) /\ toCommit[Ref] = <<>>

MCNext ==
    /\ ~panicked
    /\ \/ ~RefDone /\ RefStep
       \/ RefDone /\ \E v \in Validator \ {Ref} : Step(v)

MCSpec == Init /\ [][MCNext]_vars
=============================================================================
