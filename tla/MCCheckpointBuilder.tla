------------------------ MODULE MCCheckpointBuilder ------------------------
(* Three transactions, and a fourth that an earlier epoch executed and     *)
(* that is sequenced again.                                                *)
EXTENDS CheckpointBuilder

New == 1 .. 3

MCTransaction == 1 .. 4

MCSize == <<1, 1, 2, 1>>

None == [t \in MCTransaction |-> {}]

Make(deps, reads, commits) ==
    [deps |-> deps @@ None, reads |-> reads @@ None, previous |-> {4},
     commits |-> commits]

(* All ways in which three transactions depend on each other along two     *)
(* edges without a cycle (chains, forks and joins, in any order of their   *)
(* digests); the first one also depends on the old one.                    *)
Shapes ==
    {d \in [New -> SUBSET New] :
       /\ \A S \in SUBSET New \ {{}} : \E t \in S : d[t] \cap S = {}
       /\ Cardinality({e \in New \X New : e[2] \in d[e[1]]}) = 2}

WithOld(d) == [d EXCEPT ![1] = @ \cup {4}]

(* One or two are sequenced first, before or after what they depend on,    *)
(* then the others with the old one, then an empty commit.  At last,       *)
(* a transaction reads what another one, with a smaller digest, overwrites *)
(* in the same commit.                                                     *)
MCScenarios ==
    {Make(WithOld(d), <<>>, <<S, (New \cup {4}) \ S, {}>>) :
       d \in Shapes, S \in {{1}, {2, 3}}}
    \cup {Make((2 :> {3}), (1 :> {2}), <<{1, 2}, {}, {3, 4}>>)}
=============================================================================
