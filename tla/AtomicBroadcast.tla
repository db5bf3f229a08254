-------------------------- MODULE AtomicBroadcast --------------------------
(***************************************************************************)
(* What the consensus layer promises to whoever executes its output (the   *)
(* ExecutionState trait of narwhal/executor): every process delivers the   *)
(* entries of one common sequence, one at a time, in its order, without a  *)
(* gap and none of them twice.  A crash is a stutter.                      *)
(***************************************************************************)
EXTENDS Naturals, Sequences

CONSTANTS Process, Entry

VARIABLE outputs    \* what each process has delivered so far

Init == outputs = [p \in Process |-> <<>>]

(* The next entry of p is the one that every process further ahead has     *)
(* delivered in this place, and is new to p.                               *)
Deliver(p) ==
    LET n == Len(outputs[p]) + 1
        e == outputs'[p][n]
    IN /\ Len(outputs'[p]) = n
       /\ e \in Entry
       /\ \A q \in Process : n <= Len(outputs[q]) => outputs[q][n] = e
       /\ \A i \in 1 .. n - 1 : outputs[p][i] # e
       /\ outputs' = [outputs EXCEPT ![p] = Append(@, e)]

Next == \E p \in Process : Deliver(p)

Spec == Init /\ [][Next]_outputs

(* Every process has delivered a sequence of entries.                      *)
TypeOK == outputs \in [Process -> Seq(Entry)]

(* Any two processes have delivered the same entry in the same place.      *)
TotalOrder ==
    \A p, q \in Process : \A i \in 1 .. Len(outputs[p]) :
       i <= Len(outputs[q]) => outputs[p][i] = outputs[q][i]

(* No process has delivered an entry twice.                                *)
NoRepeat ==
    \A p \in Process : \A i, j \in 1 .. Len(outputs[p]) :
       outputs[p][i] = outputs[p][j] => i = j
=============================================================================
