----------------------- MODULE AtomicBroadcastProofs -----------------------
(***************************************************************************)
(* What a client of the atomic broadcast may rely on.                      *)
(***************************************************************************)
EXTENDS AtomicBroadcast, TLAPS

Inv == TypeOK /\ TotalOrder /\ NoRepeat

(* A delivery extends the sequence of one process by one entry.            *)
LEMMA Delivered ==
    ASSUME Inv, NEW p \in Process, Deliver(p)
    PROVE  \E e \in Entry :
              /\ outputs' = [outputs EXCEPT ![p] = Append(@, e)]
              /\ Len(outputs'[p]) = Len(outputs[p]) + 1
              /\ outputs'[p][Len(outputs[p]) + 1] = e
              /\ \A i \in 1 .. Len(outputs[p]) : outputs'[p][i] = outputs[p][i]
              /\ \A i \in 1 .. Len(outputs[p]) : outputs[p][i] # e
              /\ \A q \in Process : Len(outputs[p]) + 1 <= Len(outputs[q])
                                       => outputs[q][Len(outputs[p]) + 1] = e
<1>1. outputs[p] \in Seq(Entry) /\ Len(outputs[p]) \in Nat
  BY DEF Inv, TypeOK
<1>2. PICK e \in Entry :
         /\ outputs' = [outputs EXCEPT ![p] = Append(@, e)]
         /\ outputs'[p][Len(outputs[p]) + 1] = e
         /\ Len(outputs'[p]) = Len(outputs[p]) + 1
         /\ \A q \in Process : Len(outputs[p]) + 1 <= Len(outputs[q])
                                  => outputs[q][Len(outputs[p]) + 1] = e
         /\ \A i \in 1 .. (Len(outputs[p]) + 1) - 1 : outputs[p][i] # e
  BY DEF Deliver
<1>3. 1 .. (Len(outputs[p]) + 1) - 1 = 1 .. Len(outputs[p])
  BY <1>1
<1>4. outputs'[p] = Append(outputs[p], e)
  BY <1>2 DEF Inv, TypeOK
<1>5. \A i \in 1 .. Len(outputs[p]) : outputs'[p][i] = outputs[p][i]
  BY <1>1, <1>4
<1>6. QED
  BY <1>2, <1>3, <1>5

(* A delivery keeps the order and repeats nothing.                         *)
LEMMA InvDeliver == ASSUME Inv, NEW p \in Process, Deliver(p) PROVE Inv'
<1>1. PICK e \in Entry :
              /\ outputs' = [outputs EXCEPT ![p] = Append(@, e)]
              /\ Len(outputs'[p]) = Len(outputs[p]) + 1
              /\ outputs'[p][Len(outputs[p]) + 1] = e
              /\ \A i \in 1 .. Len(outputs[p]) : outputs'[p][i] = outputs[p][i]
              /\ \A i \in 1 .. Len(outputs[p]) : outputs[p][i] # e
              /\ \A q \in Process : Len(outputs[p]) + 1 <= Len(outputs[q])
                                       => outputs[q][Len(outputs[p]) + 1] = e
  BY Delivered
<1> DEFINE n == Len(outputs[p]) + 1
<1>2. outputs \in [Process -> Seq(Entry)] /\ \A q \in Process : Len(outputs[q]) \in Nat
  BY DEF Inv, TypeOK
<1>3. \A q \in Process : q # p => outputs'[q] = outputs[q]
  BY <1>1, <1>2
<1>4. TypeOK'
  BY <1>1, <1>2 DEF TypeOK
<1>5. \A i \in 1 .. Len(outputs'[p]) : i # n => i \in 1 .. Len(outputs[p])
  BY <1>1, <1>2
<1>6. ASSUME NEW q \in Process, q # p, NEW i \in 1 .. Len(outputs'[p]), i <= Len(outputs[q])
      PROVE  outputs'[p][i] = outputs[q][i]
  BY <1>1, <1>2, <1>5, <1>6 DEF Inv, TotalOrder
<1>7. TotalOrder'
  <2> SUFFICES ASSUME NEW q \in Process, NEW r \in Process,
                      NEW i \in 1 .. Len(outputs'[q]), i <= Len(outputs'[r])
               PROVE  outputs'[q][i] = outputs'[r][i]
    BY DEF TotalOrder
  <2>1. CASE q = r
    BY <2>1
  <2>2. CASE q = p /\ r # p
    BY <2>2, <1>3, <1>6
  <2>3. CASE q # p /\ r = p
    <3>1. i \in 1 .. Len(outputs'[p]) /\ i <= Len(outputs[q])
      BY <2>3, <1>1, <1>2, <1>3
    <3>2. QED
      BY <2>3, <3>1, <1>3, <1>6
  <2>4. CASE q # p /\ r # p
    BY <2>4, <1>3 DEF Inv, TotalOrder
  <2>5. QED
    BY <2>1, <2>2, <2>3, <2>4
<1>8. NoRepeat'
  <2> SUFFICES ASSUME NEW q \in Process, NEW i \in 1 .. Len(outputs'[q]),
                      NEW j \in 1 .. Len(outputs'[q]), outputs'[q][i] = outputs'[q][j]
               PROVE  i = j
    BY DEF NoRepeat
  <2>1. CASE q # p
    BY <2>1, <1>3 DEF Inv, NoRepeat
  <2>2. CASE q = p /\ i # n /\ j # n
    BY <2>2, <1>1, <1>5 DEF Inv, NoRepeat
  <2>3. CASE q = p /\ i = n /\ j # n
    BY <2>3, <1>1, <1>5
  <2>4. CASE q = p /\ i # n /\ j = n
    BY <2>4, <1>1, <1>5
  <2>5. QED
    BY <2>1, <2>2, <2>3, <2>4
<1>9. QED
  BY <1>4, <1>7, <1>8 DEF Inv

(* The invariant of the broadcast.                                         *)
LEMMA Invariance == Spec => []Inv
<1>1. Init => Inv
  BY DEF Init, Inv, TypeOK, TotalOrder, NoRepeat
<1>2. Inv /\ [Next]_outputs => Inv'
  <2>1. Inv /\ Next => Inv'
    BY InvDeliver DEF Next
  <2>2. Inv /\ UNCHANGED outputs => Inv'
    BY DEF Inv, TypeOK, TotalOrder, NoRepeat
  <2>3. QED
    BY <2>1, <2>2
<1>3. QED
  BY <1>1, <1>2, PTL DEF Spec

(* All processes agree on the entry in every place that they have reached. *)
THEOREM BroadcastTotalOrder == Spec => []TotalOrder
<1>1. Inv => TotalOrder
  BY DEF Inv
<1>2. QED
  BY <1>1, Invariance, PTL

(* No process delivers an entry twice.                                     *)
THEOREM BroadcastNoRepeat == Spec => []NoRepeat
<1>1. Inv => NoRepeat
  BY DEF Inv
<1>2. QED
  BY <1>1, Invariance, PTL
=============================================================================
