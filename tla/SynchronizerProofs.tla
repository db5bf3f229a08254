------------------------- MODULE SynchronizerProofs -------------------------
(***************************************************************************)
(* The safety of the synchronizer for every set of certificates, every     *)
(* garbage collection depth and any number of restarts.                    *)
(***************************************************************************)
EXTENDS Synchronizer, FiniteSetTheorems, TLAPS

(* A sequence that is not empty is its head and its tail.                  *)
LEMMA HeadTail ==
    ASSUME NEW S, NEW s \in Seq(S), s # <<>>
    PROVE  /\ Head(s) \in S /\ Tail(s) \in Seq(S)
           /\ Head(s) = s[1] /\ Len(s) \in Nat /\ 1 \in DOMAIN s
           /\ Len(Tail(s)) = Len(s) - 1
           /\ \A i \in DOMAIN Tail(s) : i + 1 \in DOMAIN s /\ Tail(s)[i] = s[i + 1]
           /\ \A i \in DOMAIN s : i = 1 \/ (i - 1 \in DOMAIN Tail(s) /\ s[i] = Tail(s)[i - 1])
           /\ Range(s) = {Head(s)} \cup Range(Tail(s))
<1>1. /\ Head(s) \in S /\ Tail(s) \in Seq(S)
      /\ Head(s) = s[1] /\ Len(s) \in Nat /\ Len(s) > 0
      /\ Len(Tail(s)) = Len(s) - 1
      /\ DOMAIN s = 1 .. Len(s) /\ DOMAIN Tail(s) = 1 .. (Len(s) - 1)
      /\ \A i \in 1 .. (Len(s) - 1) : Tail(s)[i] = s[i + 1]
  OBVIOUS
<1>2. \A i \in DOMAIN Tail(s) : i + 1 \in DOMAIN s /\ Tail(s)[i] = s[i + 1]
  BY <1>1
<1>3. \A i \in DOMAIN s : i = 1 \/ (i - 1 \in DOMAIN Tail(s) /\ s[i] = Tail(s)[i - 1])
  BY <1>1
<1>4. Range(s) = {Head(s)} \cup Range(Tail(s))
  <2>1. Range(s) \subseteq {Head(s)} \cup Range(Tail(s))
    BY <1>1, <1>3 DEF Range
  <2>2. Head(s) \in Range(s)
    BY <1>1 DEF Range
  <2>3. Range(Tail(s)) \subseteq Range(s)
    BY <1>2, Zenon DEF Range
  <2>4. QED
    BY <2>1, <2>2, <2>3, Zenon
<1>5. QED
  BY <1>1, <1>2, <1>3, <1>4

(* The elements of two sequences in a row.                                 *)
LEMMA Joined ==
    ASSUME NEW S, NEW s \in Seq(S), NEW t \in Seq(S)
    PROVE  /\ s \o t \in Seq(S)
           /\ \A i \in DOMAIN s : i \in DOMAIN (s \o t) /\ (s \o t)[i] = s[i]
           /\ \A i \in DOMAIN (s \o t) : i \in DOMAIN s \/
                 (i \in Nat /\ i > Len(s) /\ (s \o t)[i] \in Range(t))
           /\ Range(s \o t) = Range(s) \cup Range(t)
<1>1. /\ s \o t \in Seq(S) /\ Len(s) \in Nat /\ Len(t) \in Nat
      /\ DOMAIN s = 1 .. Len(s) /\ DOMAIN t = 1 .. Len(t)
      /\ DOMAIN (s \o t) = 1 .. (Len(s) + Len(t))
      /\ \A i \in 1 .. (Len(s) + Len(t)) :
            (s \o t)[i] = IF i <= Len(s) THEN s[i] ELSE t[i - Len(s)]
  OBVIOUS
<1>2. \A i \in DOMAIN s : i \in DOMAIN (s \o t) /\ (s \o t)[i] = s[i]
  BY <1>1
<1>3. \A i \in DOMAIN (s \o t) : i \in DOMAIN s \/
         (i \in Nat /\ i > Len(s) /\ i - Len(s) \in DOMAIN t /\ (s \o t)[i] = t[i - Len(s)])
  BY <1>1
<1>4. \A k \in DOMAIN t : k + Len(s) \in DOMAIN (s \o t) /\ (s \o t)[k + Len(s)] = t[k]
  BY <1>1
<1>5. Range(s \o t) = Range(s) \cup Range(t)
  <2>1. ASSUME NEW x \in Range(s \o t)
        PROVE  x \in Range(s) \cup Range(t)
    <3>1. PICK i \in DOMAIN (s \o t) : x = (s \o t)[i]
      BY Zenon DEF Range
    <3>2. QED
      BY <1>2, <1>3, <3>1, Zenon DEF Range
  <2>2. Range(s) \subseteq Range(s \o t)
    BY <1>2, Zenon DEF Range
  <2>3. Range(t) \subseteq Range(s \o t)
    BY <1>4, Zenon DEF Range
  <2>4. QED
    BY <2>1, <2>2, <2>3, Zenon
<1>6. QED
  BY <1>1, <1>2, <1>3, <1>5, Zenon DEF Range

(* A sequence with an element more.                                        *)
LEMMA Appended ==
    ASSUME NEW S, NEW s \in Seq(S), NEW x \in S
    PROVE  Append(s, x) \in Seq(S)
OBVIOUS

(* The elements of a sequence at a sequence of its positions.              *)
LEMMA Selected ==
    ASSUME NEW S, NEW s \in Seq(S), NEW n \in Nat, NEW at \in [1 .. n -> DOMAIN s]
    PROVE  [k \in DOMAIN at |-> s[at[k]]] \in Seq(S)
<1>1. \A k \in 1 .. n : s[at[k]] \in S
  OBVIOUS
<1>2. DOMAIN at = 1 .. n
  BY Zenon
<1>3. [k \in 1 .. n |-> s[at[k]]] \in [1 .. n -> S]
  BY <1>1, Zenon
<1>4. \A f \in [1 .. n -> S] : f \in Seq(S)
  OBVIOUS
<1>5. QED
  BY <1>2, <1>3, <1>4, Zenon

(* An enumeration of a finite set is a sequence of its members.            *)
LEMMA Enumerated ==
    ASSUME NEW S, NEW T \in SUBSET S, IsFiniteSet(T), NEW s \in Enumerations(T)
    PROVE  s \in Seq(S) /\ Range(s) \subseteq T
<1>1. Cardinality(T) \in Nat
  BY FS_CardinalityType, Zenon
<1>2. s \in [1 .. Cardinality(T) -> T]
  BY Zenon DEF Enumerations, Bijection, Injection
<1>3. QED
  BY <1>1, <1>2 DEF Range
-----------------------------------------------------------------------------
(* The inductive invariant.                                                *)

Accepting == Range(toAccept)
Visiting  == Range(toTraverse)

(* The suspended certificates are those with missing parents, and          *)
(* `missing' is the inverse of `missing_parents', at every step.           *)
Waiting ==
    /\ IsFiniteSet(suspended)
    /\ \A p, c \in Certificate : c \in missing[p] <=> c \in suspended /\ p \in missingOf[c]
    /\ \A c \in Certificate : c \in suspended <=> missingOf[c] # {}
    /\ \A c \in Certificate : missingOf[c] \subseteq Parents[c]

(* The parents of c are collected, or are being collected.                 *)
Excused(c) == collector = "locked" /\ RoundOf[c] <= gcRound + 1

(* Nobody waits for what is stored, or is to be accepted and was visited;  *)
(* what a suspended certificate no longer waits for is stored, is to be    *)
(* accepted or is garbage.                                                 *)
Released ==
    /\ \A p \in store : missing[p] = {}
    /\ \A p \in Accepting : p \in Visiting \/ missing[p] = {}
    /\ \A c \in suspended : c \notin store /\ c \notin Accepting
    /\ \A d \in Visiting :
          d \in Accepting \/ (collector = "locked" /\ RoundOf[d] <= gcRound)
    /\ \A c \in suspended : \A p \in Parents[c] \ missingOf[c] :
          p \in store \/ p \in Accepting \/ Excused(c)

(* Every certificate to accept comes after its parents, unless they are    *)
(* garbage.                                                                *)
InOrder ==
    \A i \in DOMAIN toAccept :
       \/ RoundOf[toAccept[i]] <= gcRound + 1
       \/ \A p \in Parents[toAccept[i]] :
             p \in store \/ \E j \in DOMAIN toAccept : j < i /\ toAccept[j] = p

(* StoreCausal, for the round that the synchronizer knows, which is behind *)
(* that of consensus.                                                      *)
Causal ==
    /\ gcRound <= consensusGc
    /\ \A c \in store : RoundOf[c] > gcRound + 1 => Parents[c] \subseteq store

(* c is the certificate that is stored and not sent on yet.                *)
InHand(c) == written /\ c = Head(toAccept)

(* Consensus has what is stored above its round.                           *)
InDag == \A c \in store : RoundOf[c] > consensusGc => c \in dag \/ InHand(c)

(* What is written and not sent heads the list, its children released.     *)
Writing ==
    written => toTraverse = <<>> /\ toAccept # <<>> /\ Head(toAccept) \in store

(* Between two rounds of garbage collection nothing waits for garbage.     *)
Rested == collector = "idle" => \A c \in suspended : RoundOf[c] > gcRound + 1

(* The last two rounds are in the aggregators or on the way there.         *)
Recovered ==
    \A c \in LastTwoRounds : RoundOf[c] > gcRound =>
       c \in aggregated \/ c \in recovering \/ InHand(c)

(* The store has a highest round.                                          *)
HasHighest == store = {} \/ \E m \in store : \A c \in store : RoundOf[c] <= RoundOf[m]

Inv ==
    /\ TypeOK /\ OnlySuspendedPanic
    /\ Waiting /\ Released /\ InOrder
    /\ Causal /\ InDag /\ Writing /\ Rested
    /\ Recovered /\ HasHighest

(* The invariant is about these variables, apart from types and panics.    *)
core == <<store, consensusGc, dag, gcRound, State, aggregated, recovering,
          collector, traversal>>

(* What a step that leaves the order and the store alone preserves.        *)
LEMMA OrderUnchanged ==
    ASSUME InOrder, UNCHANGED <<toAccept, gcRound, store>>
    PROVE  InOrder'
BY DEF InOrder

(* Nor does anything that leaves the store and the gc round alone disturb  *)
(* the causal order of the store.                                          *)
LEMMA CausalUnchanged ==
    ASSUME Causal, UNCHANGED <<gcRound, store>>, gcRound <= consensusGc'
    PROVE  Causal'
BY Zenon DEF Causal

(* Nothing is out of order, and nothing visited, when the queue is empty.  *)
LEMMA NothingToAccept ==
    /\ toAccept = <<>> => InOrder /\ Accepting = {}
    /\ toTraverse = <<>> => Visiting = {}
<1>1. \A s : s = <<>> => Range(s) = {} /\ DOMAIN s = {}
  BY DEF Range
<1>2. QED
  BY <1>1, Zenon DEF InOrder, Accepting, Visiting

(* A step that leaves them alone preserves it.                             *)
LEMMA CoreUnchanged ==
    ASSUME Inv, UNCHANGED core, TypeOK', OnlySuspendedPanic'
    PROVE  Inv'
<1> USE DEF core, State, traversal, Accepting, Visiting
<1>1. Waiting' /\ Released'
  BY Zenon DEF Inv, Waiting, Released, Excused
<1>2. InOrder' /\ Causal'
  BY DEF Inv, InOrder, Causal
<1>3. InDag' /\ Writing' /\ Rested' /\ HasHighest'
  BY Zenon DEF Inv, InDag, Writing, Rested, HasHighest, InHand
<1>4. Recovered'
  BY Zenon DEF Inv, Recovered, LastTwoRounds, HighestProcessedRound, InHand
<1>5. QED
  BY <1>1, <1>2, <1>3, <1>4, Zenon DEF Inv

(* The types of what a step leaves alone.                                  *)
LEMMA TypesUnchanged ==
    ASSUME TypeOK, UNCHANGED <<store, consensusGc, dag, gcRound, State, aggregated,
                               recovering, traversal, panicked, crashes>>,
           queue' \in Seq(Message), batch' \in Message,
           acceptor' \in {"idle", "filtered", "locked"},
           collector' \in {"idle", "stored", "locked"},
           ~(acceptor' = "locked" /\ collector' = "locked"),
           \/ toTraverse = <<>> /\ toAccept = <<>>
           \/ acceptor' = acceptor /\ collector' = collector
    PROVE  TypeOK'
BY Zenon DEF TypeOK, State, traversal

(* Rounds are numbers, and parents are one round below.                    *)
LEMMA Rounds ==
    ASSUME TypeOK
    PROVE  /\ gcRound \in Nat /\ consensusGc \in Nat
           /\ \A c \in Certificate : RoundOf[c] \in Nat
           /\ \A c \in Certificate : \A p \in Parents[c] :
                 p \in Certificate /\ RoundOf[c] = RoundOf[p] + 1
BY SynchronizerAssumption, Zenon DEF TypeOK

-----------------------------------------------------------------------------
(* The steps, one lemma for each kind.                                     *)

(* Certificates arrive, the acceptor filters, takes and frees the lock.    *)
LEMMA IntakeStep ==
    ASSUME Inv,
           \/ \E c \in Certificate : ReceiveBroadcast(c)
           \/ \E s \in Batches : ReceiveFetched(s)
           \/ FilterStored \/ AcceptorLock \/ AcceptorUnlock
    PROVE  Inv'
<1> USE SynchronizerAssumption
<1>1. TypeOK /\ OnlySuspendedPanic
  BY Zenon DEF Inv
<1>2. ASSUME NEW c \in Certificate, ReceiveBroadcast(c)
      PROVE  Inv'
  <2>1. [certificates |-> <<c>>, early |-> TRUE] \in Message
    BY DEF Message
  <2>2. queue' \in Seq(Message)
    BY <1>1, <1>2, <2>1, Appended, Zenon DEF ReceiveBroadcast, TypeOK
  <2>3. TypeOK'
    BY <1>1, <1>2, <2>2, TypesUnchanged, Zenon DEF ReceiveBroadcast, TypeOK
  <2>4. QED
    BY <1>1, <1>2, <2>3, CoreUnchanged, Zenon DEF ReceiveBroadcast, core,
       OnlySuspendedPanic
<1>3. ASSUME NEW s \in Batches, ReceiveFetched(s)
      PROVE  Inv'
  <2>1. s \in Seq(Certificate)
    BY DEF Batches
  <2>2. [certificates |-> s, early |-> FALSE] \in Message
    BY <2>1, Zenon DEF Message
  <2>3. queue' \in Seq(Message)
    BY <1>1, <1>3, <2>2, Appended, Zenon DEF ReceiveFetched, TypeOK
  <2>4. TypeOK'
    BY <1>1, <1>3, <2>3, TypesUnchanged, Zenon DEF ReceiveFetched, TypeOK
  <2>5. QED
    BY <1>1, <1>3, <2>4, CoreUnchanged, Zenon DEF ReceiveFetched, core,
       OnlySuspendedPanic
<1>4. ASSUME FilterStored
      PROVE  Inv'
  <2> DEFINE m == Head(queue)
             s == m.certificates
             unstored == {i \in DOMAIN s : s[i] \notin store}
  <2>1. queue \in Seq(Message) /\ queue # <<>> /\ acceptor = "idle" /\ queue' = Tail(queue)
    BY <1>1, <1>4, Zenon DEF FilterStored, TypeOK
  <2>2. m \in Message /\ queue' \in Seq(Message)
    BY <2>1
  <2>3. s \in Seq(Certificate)
    BY <2>2, Zenon DEF Message
  <2>4. IsFiniteSet(unstored)
    <3>1. DOMAIN s = 1 .. Len(s) /\ Len(s) \in Nat
      BY <2>3
    <3>2. unstored \subseteq 1 .. Len(s)
      BY <3>1, Zenon
    <3> HIDE DEF unstored, s
    <3>2a. IsFiniteSet(1 .. Len(s))
      BY <3>1, FS_Interval
    <3>3. QED
      BY <3>2, <3>2a, FS_Subset, Zenon
  <2>5. PICK at \in Enumerations(unstored) :
             IF at = <<>>
             THEN UNCHANGED <<batch, acceptor>>
             ELSE /\ batch' = [m EXCEPT !.certificates = [k \in DOMAIN at |-> s[at[k]]]]
                  /\ acceptor' = "filtered"
    BY <1>4, Zenon DEF FilterStored
  <2>6. Cardinality(unstored) \in Nat /\ at \in [1 .. Cardinality(unstored) -> unstored]
    BY <2>4, FS_CardinalityType, Zenon DEF Enumerations, Bijection, Injection
  <2>7. [k \in DOMAIN at |-> s[at[k]]] \in Seq(Certificate)
    <3>1. at \in [1 .. Cardinality(unstored) -> DOMAIN s]
      BY <2>6, Zenon
    <3> HIDE DEF s, unstored
    <3>2. QED
      BY ONLY <2>3, <2>6, <3>1, Selected, Zenon
  <2>8. batch' \in Message /\ acceptor' \in {"idle", "filtered"}
    <3> HIDE DEF s, unstored, m
    <3>1. CASE at = <<>>
      BY <1>1, <2>1, <2>5, <3>1, Zenon DEF TypeOK
    <3>2. CASE at # <<>>
      BY <2>2, <2>5, <2>7, <3>2, Zenon DEF Message
    <3>3. QED
      BY <3>1, <3>2, Zenon
  <2>9. UNCHANGED <<store, consensusGc, dag, gcRound, State, aggregated,
                    recovering, collector, traversal, panicked, crashes>>
    BY <1>4, Zenon DEF FilterStored
  <2>10. toTraverse # <<>> \/ toAccept # <<>> => collector = "locked"
    BY <1>1, <2>1, Zenon DEF TypeOK
  <2>11. TypeOK'
    BY <1>1, <2>2, <2>8, <2>9, <2>10, Zenon DEF TypeOK, State, traversal
  <2>12. QED
    BY <1>1, <2>9, <2>11, CoreUnchanged, Zenon DEF core, OnlySuspendedPanic
<1>5. ASSUME AcceptorLock
      PROVE  Inv'
  <2>1. TypeOK'
    BY <1>1, <1>5, TypesUnchanged, Zenon DEF AcceptorLock, LockFree, TypeOK
  <2>2. QED
    BY <1>1, <1>5, <2>1, CoreUnchanged, Zenon DEF AcceptorLock, core,
       OnlySuspendedPanic
<1>6. ASSUME AcceptorUnlock
      PROVE  Inv'
  <2>1. NoMessage \in Message
    BY DEF NoMessage, Message
  <2>2. TypeOK'
    BY <1>1, <1>6, <2>1, TypesUnchanged, Zenon DEF AcceptorUnlock, TypeOK
  <2>3. QED
    BY <1>1, <1>6, <2>2, CoreUnchanged, Zenon DEF AcceptorUnlock, core,
       OnlySuspendedPanic
<1>7. QED
  BY <1>2, <1>3, <1>4, <1>5, <1>6, Zenon

(* While the acceptor has the lock and accepts nothing, a suspended        *)
(* certificate waits for exactly its parents that are not stored.          *)
LEMMA WaitsForMissing ==
    ASSUME Inv, toTraverse = <<>>, toAccept = <<>>, collector # "locked",
           NEW c \in suspended
    PROVE  c \notin store /\ missingOf[c] = MissingParents(c) /\ missingOf[c] # {}
<1>1. Accepting = {} /\ ~Excused(c)
  BY DEF Accepting, Range, Excused
<1>2. c \in Certificate
  BY Zenon DEF Inv, TypeOK
<1>3. \A p \in Parents[c] \ missingOf[c] : p \in store
  BY <1>1, Zenon DEF Inv, Released
<1>4. ASSUME NEW p \in missingOf[c]
      PROVE  p \in Parents[c] /\ p \notin store
  <2>1. p \in Certificate /\ p \in Parents[c]
    BY <1>2, SynchronizerAssumption, Zenon DEF Inv, Waiting
  <2>2. c \in missing[p]
    BY <1>2, <2>1, Zenon DEF Inv, Waiting
  <2>3. QED
    BY <2>1, <2>2, Zenon DEF Inv, Released
<1>5. QED
  BY <1>2, <1>3, <1>4, Zenon DEF Inv, Released, Waiting, MissingParents

(* A new certificate is suspended on its missing parents.                  *)
LEMMA InsertStep ==
    ASSUME Inv, NEW c \in Certificate, c \notin suspended,
           toTraverse = <<>>, toAccept = <<>>, collector # "locked",
           ~ParentsCollected(c), MissingParents(c) # {},
           suspended' = suspended \cup {c},
           missingOf' = [missingOf EXCEPT ![c] = MissingParents(c)],
           missing' = [p \in Certificate |->
                         IF p \in MissingParents(c) THEN missing[p] \cup {c}
                                                    ELSE missing[p]],
           UNCHANGED <<store, consensusGc, dag, gcRound, aggregated, recovering,
                       collector, traversal>>,
           TypeOK', OnlySuspendedPanic'
    PROVE  Inv'
<1>1. RoundOf[c] > gcRound + 1 /\ c \notin store
  <2>1. TypeOK
    BY Zenon DEF Inv
  <2>2. RoundOf[c] \in Nat /\ gcRound \in Nat
    BY <2>1, Rounds, Zenon
  <2>3. RoundOf[c] > gcRound + 1
    BY <2>2 DEF ParentsCollected
  <2>4. QED
    BY <2>3, Zenon DEF MissingParents, Inv, Causal
<1>2. /\ missingOf \in [Certificate -> SUBSET Certificate]
      /\ missing \in [Certificate -> SUBSET Certificate]
      /\ missingOf'[c] = Parents[c] \ store
      /\ \A b \in Certificate : b # c => missingOf'[b] = missingOf[b]
      /\ \A p, b \in Certificate :
            b \in missing'[p] <=> b \in missing[p] \/ (b = c /\ p \in Parents[c] \ store)
      /\ Parents[c] \subseteq Certificate /\ Parents[c] \ store # {}
      /\ suspended \subseteq Certificate /\ store \subseteq Certificate
  BY SynchronizerAssumption, Zenon DEF Inv, TypeOK, MissingParents
<1>3. \A p \in Certificate : c \notin missing[p]
  BY Zenon DEF Inv, Waiting
<1>4. Waiting'
  <2>1. IsFiniteSet(suspended')
    BY FS_AddElement, Zenon DEF Inv, Waiting
  <2>2. \A p, b \in Certificate : b \in missing'[p] <=> b \in suspended' /\ p \in missingOf'[b]
    BY <1>2, <1>3, Zenon DEF Inv, Waiting
  <2>3. \A b \in Certificate : b \in suspended' <=> missingOf'[b] # {}
    BY <1>2, Zenon DEF Inv, Waiting
  <2>4. \A b \in Certificate : missingOf'[b] \subseteq Parents[b]
    BY <1>2, Zenon DEF Inv, Waiting
  <2>5. QED
    BY <2>1, <2>2, <2>3, <2>4, Zenon DEF Waiting
<1>5. Released'
  <2>1. Accepting = {} /\ Visiting = {} /\ Accepting' = {} /\ Visiting' = {} /\ store' = store
        /\ collector' = collector /\ gcRound' = gcRound
    BY DEF Accepting, Visiting, Range, traversal
  <2>2. \A p \in store : missing'[p] = {}
    <3>1. SUFFICES ASSUME NEW p \in store, NEW b \in missing'[p] PROVE FALSE
      BY Zenon
    <3>2. p \in Certificate /\ b \in Certificate /\ missing[p] = {}
      BY <1>2, <3>1, Zenon DEF TypeOK, Inv, Released
    <3>3. QED
      BY <1>2, <3>2, Zenon
  <2>3. \A b \in suspended' : b \notin store
    BY <1>1, Zenon DEF Inv, Released
  <2>4. \A b \in suspended' : \A p \in Parents[b] \ missingOf'[b] :
            p \in store \/ Excused(b)'
    BY <1>2, <2>1, Zenon DEF Inv, Released, Excused
  <2>5. QED
    BY <2>1, <2>2, <2>3, <2>4, Zenon DEF Released
<1>6. InOrder' /\ Causal'
  BY DEF Inv, InOrder, Causal, traversal
<1>7. InDag' /\ Writing' /\ HasHighest'
  BY Zenon DEF Inv, InDag, Writing, HasHighest, InHand, traversal
<1>8. Rested'
  BY <1>1, Zenon DEF Inv, Rested
<1>9. Recovered'
  BY Zenon DEF Inv, Recovered, LastTwoRounds, HighestProcessedRound, InHand,
     traversal
<1>10. QED
  BY <1>4, <1>5, <1>6, <1>7, <1>8, <1>9, Zenon DEF Inv

(* A certificate whose parents are there starts accept_children.           *)
LEMMA AcceptStep ==
    ASSUME Inv, NEW c \in Certificate, c \notin suspended,
           toTraverse = <<>>, toAccept = <<>>,
           ParentsCollected(c) \/ MissingParents(c) = {},
           toTraverse' = <<c>>, toAccept' = <<c>>,
           UNCHANGED <<store, consensusGc, dag, gcRound, State, aggregated, recovering,
                       collector, written>>,
           TypeOK', OnlySuspendedPanic'
    PROVE  Inv'
<1> USE DEF State
<1>1. Accepting = {} /\ Visiting = {} /\ Accepting' = {c} /\ Visiting' = {c}
  BY DEF Accepting, Visiting, Range
<1>2. ~written
  BY Zenon DEF Inv, Writing
<1>3. Waiting'
  BY Zenon DEF Inv, Waiting
<1>4. Released'
  BY <1>1, Zenon DEF Inv, Released, Excused
<1>5. InOrder'
  <2>1. DOMAIN toAccept' = {1} /\ toAccept'[1] = c
    OBVIOUS
  <2>2. QED
    BY <2>1, Zenon DEF InOrder, ParentsCollected, MissingParents
<1>6. Causal' /\ Writing' /\ Rested' /\ HasHighest'
  BY <1>2, Zenon DEF Inv, Causal, Writing, Rested, HasHighest
<1>7. InDag' /\ Recovered'
  BY <1>2, Zenon DEF Inv, InDag, Recovered, LastTwoRounds,
     HighestProcessedRound, InHand
<1>8. QED
  BY <1>3, <1>4, <1>5, <1>6, <1>7, Zenon DEF Inv

(* The acceptor processes a certificate of its batch.                      *)
LEMMA ProcessStep ==
    ASSUME Inv, panicked = "none", ProcessCertificate
    PROVE  Inv'
<1> DEFINE c == Head(batch.certificates)
<1>1. /\ acceptor = "locked" /\ batch.certificates # <<>>
      /\ toTraverse = <<>> /\ toAccept = <<>> /\ collector # "locked"
      /\ UNCHANGED <<store, consensusGc, dag, gcRound, aggregated, recovering,
                     queue, acceptor, collector, crashes>>
  BY Zenon DEF ProcessCertificate, Inv, TypeOK
<1>2. batch \in Message /\ c \in Certificate /\ Tail(batch.certificates) \in Seq(Certificate)
  <2>1. batch \in Message /\ batch.certificates \in Seq(Certificate)
    BY Zenon DEF Inv, TypeOK, Message
  <2>2. QED
    BY <1>1, <2>1, HeadTail, Zenon
<1>3. ASSUME NextInBatch PROVE batch' \in Message
  BY <1>2, <1>3, Zenon DEF NextInBatch, Message
<1> HIDE DEF c
<1>4. TypeOK
  BY Zenon DEF Inv
<1>5. ASSUME NextInBatch, UNCHANGED <<State, traversal, panicked>>
      PROVE  Inv'
  <2>1. TypeOK'
    BY <1>1, <1>3, <1>4, <1>5, Zenon DEF TypeOK, State, traversal
  <2>2. QED
    BY <1>1, <1>5, <2>1, CoreUnchanged, Zenon DEF core, Inv, OnlySuspendedPanic
<1>6. ASSUME Panic("still suspended")
      PROVE  Inv'
  <2>1. TypeOK'
    BY <1>4, <1>6, Zenon DEF TypeOK, Panic, State, traversal, intake
  <2>2. QED
    BY <1>6, <2>1, CoreUnchanged, Zenon DEF Panic, core, OnlySuspendedPanic
<1>7. CASE batch.early /\ c \in suspended /\ NextInBatch /\ UNCHANGED <<State, traversal, panicked>>
  BY <1>5, <1>7, Zenon
<1>8. CASE /\ ~(batch.early /\ c \in suspended)
           /\ ~ParentsCollected(c) /\ MissingParents(c) # {}
           /\ Insert(c) /\ UNCHANGED traversal
  <2>1. CASE c \in suspended
    <3>1. missingOf[c] = MissingParents(c)
      BY <1>1, <2>1, WaitsForMissing, Zenon
    <3>2. NextInBatch /\ UNCHANGED <<State, panicked>>
      BY <1>8, <2>1, <3>1, Zenon DEF Insert
    <3>3. QED
      BY <1>5, <1>8, <3>2, Zenon
  <2>2. CASE c \notin suspended
    <3>1. ~\E p \in MissingParents(c) : c \in missing[p]
      BY <1>2, <2>2, SynchronizerAssumption, Zenon DEF Inv, Waiting,
         MissingParents
    <3>2. /\ suspended' = suspended \cup {c}
          /\ missingOf' = [missingOf EXCEPT ![c] = MissingParents(c)]
          /\ missing' = [p \in Certificate |->
                           IF p \in MissingParents(c) THEN missing[p] \cup {c}
                                                      ELSE missing[p]]
          /\ NextInBatch /\ UNCHANGED panicked
      BY <1>8, <2>2, <3>1, Zenon DEF Insert
    <3>3. MissingParents(c) \in SUBSET Certificate
      BY <1>2, SynchronizerAssumption, Zenon DEF MissingParents
    <3>4. suspended' \subseteq Certificate
          /\ missingOf' \in [Certificate -> SUBSET Certificate]
          /\ missing' \in [Certificate -> SUBSET Certificate]
      BY <1>2, <1>4, <3>2, <3>3, Zenon DEF TypeOK
    <3>5. TypeOK' /\ OnlySuspendedPanic'
      BY <1>1, <1>3, <1>4, <1>8, <3>2, <3>4, Zenon DEF TypeOK, traversal,
         OnlySuspendedPanic
    <3>6. QED
      BY <1>1, <1>2, <1>8, <2>2, <3>2, <3>5, InsertStep, Zenon
  <2>3. QED
    BY <2>1, <2>2, Zenon
<1>9. CASE /\ ~(batch.early /\ c \in suspended)
           /\ ParentsCollected(c) \/ MissingParents(c) = {}
           /\ IF c \in suspended
              THEN Panic("still suspended")
              ELSE /\ toTraverse' = <<c>> /\ toAccept' = <<c>>
                   /\ NextInBatch /\ UNCHANGED <<State, written, panicked>>
  <2>1. CASE c \in suspended
    BY <1>6, <1>9, <2>1, Zenon
  <2>2. CASE c \notin suspended
    <3>a. toTraverse' \in Seq(Certificate) /\ toAccept' \in Seq(Certificate)
      <4>1. <<c>> \in Seq(Certificate)
        BY <1>2
      <4>2. QED
        BY <1>9, <2>2, <4>1, Zenon
    <3>1. TypeOK' /\ OnlySuspendedPanic'
      BY <1>1, <1>3, <1>4, <1>9, <2>2, <3>a, Zenon DEF TypeOK, State,
         OnlySuspendedPanic
    <3>2. QED
      BY <1>1, <1>2, <1>9, <2>2, <3>1, AcceptStep, Zenon
  <2>3. QED
    BY <2>1, <2>2, Zenon
<1>10. QED
  BY <1>7, <1>8, <1>9, Zenon DEF ProcessCertificate, c

(* One turn of the loop of accept_children.                                *)
LEMMA VisitStep ==
    ASSUME Inv, VisitChildren
    PROVE  Inv'
<1> DEFINE d == Head(toTraverse)
           children == missing[d]
           ready == {c \in children : missingOf[c] \subseteq {d}}
<1>1. TypeOK /\ Waiting /\ Released
  BY Zenon DEF Inv
<1>2. /\ toTraverse # <<>> /\ toTraverse \in Seq(Certificate) /\ toAccept \in Seq(Certificate)
      /\ d \in Certificate /\ Tail(toTraverse) \in Seq(Certificate)
      /\ Visiting = {d} \cup Range(Tail(toTraverse))
  BY <1>1, HeadTail, Zenon DEF VisitChildren, TypeOK, Visiting
<1>3. ~written
  BY <1>2, Zenon DEF Inv, Writing
<1>4. children \subseteq suspended /\ children \subseteq Certificate
      /\ suspended \subseteq Certificate
      /\ \A c \in children : d \in missingOf[c] /\ d \in Parents[c]
  BY <1>1, <1>2, Zenon DEF Waiting, TypeOK
<1>5. PICK s \in Enumerations(ready) :
          /\ missing' = [missing EXCEPT ![d] = {}]
          /\ missingOf' = [c \in Certificate |->
                IF c \in children THEN missingOf[c] \ {d} ELSE missingOf[c]]
          /\ suspended' = suspended \ ready
          /\ toTraverse' = Tail(toTraverse) \o s
          /\ toAccept' = toAccept \o s
          /\ UNCHANGED <<written, panicked>>
  BY <1>4, Zenon DEF VisitChildren
<1>6. UNCHANGED <<store, consensusGc, dag, gcRound, aggregated, recovering,
                  intake, collector, crashes, written, panicked>>
  BY <1>5, Zenon DEF VisitChildren
<1>7. ready \subseteq suspended /\ ready \subseteq Certificate /\ IsFiniteSet(ready)
  <2>1. ready \subseteq suspended /\ IsFiniteSet(suspended)
    BY <1>1, <1>4, Zenon DEF Waiting
  <2>2. QED
    BY <1>4, <2>1, FS_Subset, Zenon
<1>8. s \in Seq(Certificate) /\ Range(s) \subseteq ready
  <2> HIDE DEF ready
  <2>1. QED
    BY <1>7, Enumerated, Zenon
<1>9. /\ \A c \in ready : c \in children /\ missingOf[c] = {d}
      /\ \A c \in children : c \notin ready => missingOf[c] \ {d} # {}
  BY <1>4, Zenon
<1>10. /\ \A p \in Certificate : missing'[p] = IF p = d THEN {} ELSE missing[p]
       /\ \A c \in Certificate :
             missingOf'[c] = IF c \in children THEN missingOf[c] \ {d} ELSE missingOf[c]
       /\ suspended' = suspended \ ready
  BY <1>1, <1>2, <1>5, Zenon DEF TypeOK
<1>11. /\ toTraverse' \in Seq(Certificate) /\ toAccept' \in Seq(Certificate)
       /\ Visiting' = Range(Tail(toTraverse)) \cup Range(s)
       /\ Accepting' = Accepting \cup Range(s)
  <2>1. toTraverse' = Tail(toTraverse) \o s /\ toAccept' = toAccept \o s
    BY <1>5, Zenon
  <2> HIDE DEF d, children, ready
  <2> DEFINE t == Tail(toTraverse)
  <2>2. t \in Seq(Certificate)
    BY <1>2, Zenon
  <2> HIDE DEF t
  <2>2a. t \o s \in Seq(Certificate) /\ Range(t \o s) = Range(t) \cup Range(s)
    BY ONLY <1>8, <2>2, Joined
  <2>3. /\ toAccept \o s \in Seq(Certificate)
        /\ Range(toAccept \o s) = Range(toAccept) \cup Range(s)
    BY ONLY <1>2, <1>8, Joined
  <2>4. QED
    BY <2>1, <2>2a, <2>3, Zenon DEF Visiting, Accepting, t
<1>12. TypeOK'
  <2>1. /\ missing' \in [Certificate -> SUBSET Certificate]
        /\ missingOf' \in [Certificate -> SUBSET Certificate]
    BY <1>1, <1>2, <1>5, Zenon DEF TypeOK
  <2>2. acceptor = "locked" \/ collector = "locked"
    BY <1>1, <1>2, Zenon DEF TypeOK
  <2> HIDE DEF d, children, ready
  <2>3. QED
    BY <1>1, <1>6, <1>10, <1>11, <2>1, <2>2, Zenon DEF TypeOK, intake
<1>13. Waiting'
  <2> HIDE DEF d, children, ready
  <2>1. IsFiniteSet(suspended')
    BY <1>1, <1>10, FS_Subset, Zenon DEF Waiting
  <2>a. ASSUME NEW c \in Certificate, c \in children
        PROVE  /\ missingOf'[c] = missingOf[c] \ {d} /\ c \in suspended
               /\ c \in suspended' <=> missingOf'[c] # {}
    BY <1>4, <1>9, <1>10, <2>a, Zenon
  <2>b. ASSUME NEW c \in Certificate, c \notin children
        PROVE  /\ missingOf'[c] = missingOf[c]
               /\ c \in suspended' <=> c \in suspended
    BY <1>9, <1>10, <2>b, Zenon
  <2>2. \A c \in Certificate : c \in suspended' <=> missingOf'[c] # {}
    BY <1>1, <2>a, <2>b, Zenon DEF Waiting
  <2>3. ASSUME NEW p \in Certificate, NEW c \in Certificate
        PROVE  c \in missing'[p] <=> c \in suspended' /\ p \in missingOf'[c]
    <3>1. c \in missing[p] <=> c \in suspended /\ p \in missingOf[c]
      BY <1>1, Zenon DEF Waiting
    <3>2. CASE p = d
      <4>1. missing'[p] = {} /\ (c \in children <=> c \in missing[p])
        BY <1>2, <1>10, <3>2, Zenon DEF children
      <4>2. CASE c \in children
        BY <2>a, <3>2, <4>1, <4>2, Zenon
      <4>3. CASE c \notin children
        BY <2>b, <3>1, <4>1, <4>3, Zenon
      <4>4. QED
        BY <4>2, <4>3, Zenon
    <3>3. CASE p # d
      <4>1. missing'[p] = missing[p]
        BY <1>10, <3>3, Zenon
      <4>2. CASE c \in children
        BY <2>a, <3>1, <3>3, <4>1, <4>2, Zenon
      <4>3. CASE c \notin children
        BY <2>b, <3>1, <4>1, <4>3, Zenon
      <4>4. QED
        BY <4>2, <4>3, Zenon
    <3>4. QED
      BY <3>2, <3>3, Zenon
  <2>4. \A c \in Certificate : missingOf'[c] \subseteq Parents[c]
    BY <1>1, <1>10, Zenon DEF Waiting
  <2>5. QED
    BY <2>1, <2>2, <2>3, <2>4, Zenon DEF Waiting
<1>14. \A c \in children : d \in store \/ d \in Accepting \/ Excused(c)
  <2> SUFFICES ASSUME NEW c \in children PROVE d \in store \/ d \in Accepting \/ Excused(c)
    BY Zenon
  <2>1. RoundOf[c] = RoundOf[d] + 1 /\ RoundOf[d] \in Nat /\ gcRound \in Nat
    BY <1>1, <1>2, <1>4, Rounds, Zenon
  <2>2. d \in Accepting \/ (collector = "locked" /\ RoundOf[d] <= gcRound)
    BY <1>1, <1>2, Zenon DEF Released
  <2> HIDE DEF d, children
  <2>3. QED
    BY <2>1, <2>2 DEF Excused
<1> HIDE DEF d, children, ready
<1>15. Released'
  <2>1. \A p \in store' : missing'[p] = {}
    BY <1>1, <1>6, <1>10, Zenon DEF Released, TypeOK
  <2>2. \A p \in Accepting' : p \in Visiting' \/ missing'[p] = {}
    <3>1. Accepting \subseteq Certificate
      BY <1>2 DEF Accepting, Range
    <3>2. QED
      BY <1>1, <1>2, <1>10, <1>11, <3>1, Zenon DEF Released
  <2>3. \A c \in suspended' : c \notin store' /\ c \notin Accepting'
    BY <1>1, <1>6, <1>8, <1>10, <1>11, Zenon DEF Released
  <2>4. \A e \in Visiting' :
           e \in Accepting' \/ (collector' = "locked" /\ RoundOf[e] <= gcRound')
    BY <1>1, <1>2, <1>6, <1>11, Zenon DEF Released
  <2>5. \A c \in suspended' : \A p \in Parents[c] \ missingOf'[c] :
           p \in store' \/ p \in Accepting' \/ Excused(c)'
    <3> SUFFICES ASSUME NEW c \in suspended', NEW p \in Parents[c] \ missingOf'[c]
                 PROVE  p \in store \/ p \in Accepting \/ Excused(c)
      BY <1>6, <1>11, Zenon DEF Excused
    <3>1. c \in Certificate /\ c \in suspended
      BY <1>4, <1>10, Zenon
    <3>2. (p = d /\ c \in children) \/ p \in Parents[c] \ missingOf[c]
      BY <1>10, <3>1, Zenon
    <3>3. QED
      BY <1>1, <1>14, <3>1, <3>2, Zenon DEF Released
  <2>6. QED
    BY <2>1, <2>2, <2>3, <2>4, <2>5, Zenon DEF Released
<1>16. InOrder'
  <2> SUFFICES ASSUME NEW i \in DOMAIN toAccept', ~(RoundOf[toAccept'[i]] <= gcRound + 1),
                      NEW p \in Parents[toAccept'[i]], p \notin store
               PROVE  \E j \in DOMAIN toAccept' : j < i /\ toAccept'[j] = p
    BY <1>6, Zenon DEF InOrder
  <2> DEFINE c == toAccept'[i]
  <2>1. toAccept' = toAccept \o s
    BY <1>5, Zenon
  <2>2. /\ \A k \in DOMAIN toAccept : k \in DOMAIN toAccept' /\ toAccept'[k] = toAccept[k]
        /\ i \in DOMAIN toAccept \/ (i \in Nat /\ i > Len(toAccept) /\ c \in Range(s))
    BY <1>2, <1>8, <2>1, Joined
  <2>3. CASE i \in DOMAIN toAccept
    <3>1. toAccept'[i] = toAccept[i]
      BY <2>2, <2>3, Zenon
    <3>2. \E j \in DOMAIN toAccept : j < i /\ toAccept[j] = p
      BY <2>3, <3>1, Zenon DEF Inv, InOrder
    <3>3. QED
      BY <2>2, <3>2, Zenon
  <2>4. CASE i \in Nat /\ i > Len(toAccept) /\ c \in Range(s)
    <3>1. c \in ready /\ c \in suspended /\ c \in children /\ missingOf[c] = {d} /\ ~Excused(c)
      BY <1>4, <1>8, <1>9, <2>4, Zenon DEF Excused
    <3> HIDE DEF c
    <3>2. p \in Accepting
      <4>1. CASE p = d
        BY <1>14, <3>1, <4>1, Zenon
      <4>2. CASE p # d
        BY <1>1, <3>1, <4>2, Zenon DEF Released, c
      <4>3. QED
        BY <4>1, <4>2, Zenon
    <3>3. PICK j \in DOMAIN toAccept : toAccept[j] = p
      BY <3>2, Zenon DEF Accepting, Range
    <3>4. j < i
      BY <1>2, <2>4, <3>3
    <3>5. QED
      BY <2>2, <3>3, <3>4, Zenon
  <2>5. QED
    BY <2>2, <2>3, <2>4, Zenon
<1>17. Causal' /\ Writing' /\ HasHighest' /\ OnlySuspendedPanic'
  BY <1>3, <1>6, Zenon DEF Inv, Causal, Writing, HasHighest, OnlySuspendedPanic
<1>18. Rested'
  BY <1>6, <1>10, Zenon DEF Inv, Rested
<1>19. InDag' /\ Recovered'
  BY <1>3, <1>6, Zenon DEF Inv, InDag, Recovered, LastTwoRounds,
     HighestProcessedRound, InHand
<1>20. QED
  BY <1>12, <1>13, <1>15, <1>16, <1>17, <1>18, <1>19, Zenon DEF Inv

HighestOf(S) ==
    IF S = {} THEN 0
    ELSE CHOOSE r \in {RoundOf[c] : c \in S} : \A c \in S : RoundOf[c] <= r

(* The highest round of a store that has one.                              *)
LEMMA Highest ==
    ASSUME NEW S \in SUBSET Certificate,
           S = {} \/ \E m \in S : \A c \in S : RoundOf[c] <= RoundOf[m]
    PROVE  /\ HighestOf(S) \in Nat /\ \A c \in S : RoundOf[c] <= HighestOf(S)
           /\ S # {} => \E m \in S : RoundOf[m] = HighestOf(S)
<1> DEFINE h == HighestOf(S)
<1>1. CASE S = {}
  BY <1>1, Zenon DEF HighestOf
<1>2. CASE S # {}
  <2> DEFINE R == {RoundOf[c] : c \in S}
             Top(r) == \A c \in S : RoundOf[c] <= r
  <2>1. \E r \in R : Top(r)
    BY <1>2, Zenon
  <2>2. h = CHOOSE r \in R : Top(r)
    BY <1>2, Zenon DEF HighestOf
  <2> HIDE DEF Top, h
  <2>3. h \in R /\ Top(h)
    <3> HIDE DEF R
    <3>1. QED
      BY <2>1, <2>2, Zenon
  <2>4. QED
    BY <2>3, SynchronizerAssumption, Zenon DEF Top, h
<1>3. QED
  BY <1>1, <1>2, Zenon

(* A write keeps the last two rounds, but for the certificate written.     *)
LEMMA WriteHighest ==
    ASSUME TypeOK, HasHighest, NEW c \in Certificate, store' = store \cup {c}
    PROVE  /\ HasHighest'
           /\ LastTwoRounds' \subseteq LastTwoRounds \cup {c}
<1>1. store \in SUBSET Certificate /\ store' \in SUBSET Certificate
  BY Zenon DEF TypeOK
<1>2. \A b \in Certificate : RoundOf[b] \in Nat
  BY Rounds, Zenon
<1>3. HasHighest'
  <2>1. CASE store = {}
    BY <1>2, <2>1 DEF HasHighest
  <2>2. CASE store # {}
    <3>1. PICK m \in store : \A b \in store : RoundOf[b] <= RoundOf[m]
      BY <2>2, Zenon DEF HasHighest
    <3>2. m \in Certificate
      BY <1>1, Zenon
    <3>3. CASE RoundOf[c] <= RoundOf[m]
      BY <3>1, <3>3, Zenon DEF HasHighest
    <3>4. CASE ~(RoundOf[c] <= RoundOf[m])
      <4>1. \A b \in store' : RoundOf[b] <= RoundOf[c]
        BY <1>1, <1>2, <3>1, <3>2, <3>4
      <4>2. QED
        BY <4>1, Zenon DEF HasHighest
    <3>5. QED
      BY <3>3, <3>4, Zenon
  <2>3. QED
    BY <2>1, <2>2, Zenon
<1> DEFINE h == HighestOf(store)
           k == HighestOf(store')
<1>4. h \in Nat /\ (store # {} => \E m \in store : RoundOf[m] = h)
  BY <1>1, Highest, Zenon DEF HasHighest
<1>5. k \in Nat /\ \A b \in store' : RoundOf[b] <= k
  BY <1>1, <1>3, Highest, Zenon DEF HasHighest
<1>6. store # {} => h <= k
  BY <1>4, <1>5, Zenon
<1>7. LastTwoRounds' = {b \in store' : RoundOf[b] >= k - 1}
      /\ LastTwoRounds = {b \in store : RoundOf[b] >= h - 1}
  BY Zenon DEF LastTwoRounds, HighestProcessedRound, HighestOf
<1> HIDE DEF h, k
<1>8. QED
  BY <1>1, <1>2, <1>3, <1>4, <1>5, <1>6, <1>7

(* accept_certificate_internal writes a certificate.                       *)
LEMMA WriteStep ==
    ASSUME Inv, WriteCertificate
    PROVE  Inv'
<1> DEFINE c == Head(toAccept)
<1>1. TypeOK /\ HasHighest
  BY Zenon DEF Inv
<1>2. /\ toTraverse = <<>> /\ toAccept # <<>> /\ ~written
      /\ toAccept \in Seq(Certificate) /\ c \in Certificate /\ c = toAccept[1]
      /\ 1 \in DOMAIN toAccept /\ c \in Accepting /\ Visiting = {}
      /\ \A j \in DOMAIN toAccept : ~(j < 1)
  <2>1. toTraverse = <<>> /\ toAccept # <<>> /\ ~written /\ toAccept \in Seq(Certificate)
    BY <1>1, Zenon DEF WriteCertificate, TypeOK
  <2>2. c \in Certificate /\ c = toAccept[1] /\ 1 \in DOMAIN toAccept /\ c \in Accepting
    BY <2>1, HeadTail, Zenon DEF Accepting
  <2>3. \A j \in DOMAIN toAccept : ~(j < 1)
    BY <2>1
  <2>4. QED
    BY <2>1, <2>2, <2>3 DEF Visiting, Range
<1> HIDE DEF c
<1>3. ParentsCollected(c) \/ MissingParents(c) = {}
  BY <1>2, Zenon DEF Inv, InOrder, ParentsCollected, MissingParents
<1>4. /\ store' = store \cup {c} /\ written' = TRUE /\ UNCHANGED panicked
      /\ UNCHANGED <<consensusGc, dag, gcRound, State, aggregated, recovering,
                     intake, collector, toTraverse, toAccept, crashes>>
  BY <1>3, Zenon DEF WriteCertificate, c
<1>5. TypeOK' /\ OnlySuspendedPanic'
  BY <1>1, <1>2, <1>4, Zenon DEF Inv, TypeOK, State, intake, OnlySuspendedPanic
<1>6. HasHighest' /\ LastTwoRounds' \subseteq LastTwoRounds \cup {c}
  BY <1>1, <1>2, <1>4, WriteHighest, Zenon
<1>7. Accepting' = Accepting /\ Visiting' = Visiting
  BY <1>4, Zenon DEF Accepting, Visiting
<1>8. Waiting'
  BY <1>4, Zenon DEF Inv, Waiting, State
<1>9. Released'
  BY <1>2, <1>4, <1>7, Zenon DEF Inv, Released, Excused, State
<1>10. InOrder'
  BY <1>4 DEF Inv, InOrder
<1>11. Causal'
  <2>1. RoundOf[c] > gcRound + 1 => Parents[c] \subseteq store
    <3>1. RoundOf[c] \in Nat /\ gcRound \in Nat
      BY <1>1, <1>2, Rounds, Zenon
    <3>2. QED
      BY <1>3, <3>1 DEF ParentsCollected, MissingParents
  <2>2. QED
    BY <1>4, <2>1, Zenon DEF Inv, Causal
<1>12. InDag'
  BY <1>2, <1>4, Zenon DEF Inv, InDag, InHand, c
<1>13. Writing'
  BY <1>2, <1>4, Zenon DEF Writing, c
<1>14. Rested'
  BY <1>4, Zenon DEF Inv, Rested, State
<1>15. Recovered'
  BY <1>2, <1>4, <1>6, Zenon DEF Inv, Recovered, InHand, c
<1>16. QED
  BY <1>5, <1>6, <1>8, <1>9, <1>10, <1>11, <1>12, <1>13, <1>14, <1>15, Zenon
     DEF Inv

(* The certificate goes to its aggregator and to consensus.                *)
LEMMA SendStep ==
    ASSUME Inv, SendCertificate
    PROVE  Inv'
<1> DEFINE c == Head(toAccept)
<1>1. TypeOK
  BY Zenon DEF Inv
<1>2. /\ written /\ toTraverse = <<>> /\ toAccept # <<>> /\ c \in store
      /\ toAccept \in Seq(Certificate) /\ Tail(toAccept) \in Seq(Certificate)
      /\ c \in Certificate /\ Visiting = {} /\ c = toAccept[1]
      /\ Accepting = {c} \cup Range(Tail(toAccept))
      /\ \A i \in DOMAIN Tail(toAccept) :
            i \in Nat /\ i + 1 \in DOMAIN toAccept /\ Tail(toAccept)[i] = toAccept[i + 1]
      /\ \A i \in DOMAIN toAccept : i \in Nat /\
            (i = 1 \/ (i - 1 \in DOMAIN Tail(toAccept) /\ toAccept[i] = Tail(toAccept)[i - 1]))
  <2>1. written /\ toTraverse = <<>> /\ toAccept # <<>> /\ c \in store
        /\ toAccept \in Seq(Certificate)
    BY <1>1, Zenon DEF SendCertificate, Inv, Writing, TypeOK
  <2>2. /\ c \in Certificate /\ Tail(toAccept) \in Seq(Certificate)
        /\ c = toAccept[1]
        /\ Range(toAccept) = {c} \cup Range(Tail(toAccept))
        /\ \A i \in DOMAIN Tail(toAccept) :
              i + 1 \in DOMAIN toAccept /\ Tail(toAccept)[i] = toAccept[i + 1]
        /\ \A i \in DOMAIN toAccept :
              i = 1 \/ (i - 1 \in DOMAIN Tail(toAccept) /\ toAccept[i] = Tail(toAccept)[i - 1])
    BY <2>1, HeadTail, Zenon
  <2>3. (\A i \in DOMAIN toAccept : i \in Nat) /\ (\A i \in DOMAIN Tail(toAccept) : i \in Nat)
    BY <2>1, <2>2
  <2>4. Visiting = {}
    BY <2>1 DEF Visiting, Range
  <2>5. QED
    BY <2>1, <2>2, <2>3, <2>4, Zenon DEF Accepting
<1>3. ASSUME RoundOf[c] > consensusGc + 1
      PROVE  Parents[c] \subseteq dag
  <2> SUFFICES ASSUME NEW p \in Parents[c] PROVE p \in dag
    BY Zenon
  <2>1. /\ gcRound \in Nat /\ consensusGc \in Nat /\ RoundOf[c] \in Nat
        /\ p \in Certificate /\ RoundOf[p] \in Nat /\ RoundOf[c] = RoundOf[p] + 1
        /\ gcRound <= consensusGc
    BY <1>1, <1>2, Rounds, Zenon DEF Inv, Causal
  <2>2. RoundOf[c] > gcRound + 1 /\ RoundOf[p] > consensusGc /\ p # c
    BY <1>3, <2>1
  <2>3. p \in store
    BY <1>2, <2>2, Zenon DEF Inv, Causal
  <2>4. QED
    BY <2>2, <2>3, Zenon DEF Inv, InDag, InHand
<1>4. /\ aggregated' = aggregated \cup {c}
      /\ dag' = IF RoundOf[c] > consensusGc THEN dag \cup {c} ELSE dag
      /\ UNCHANGED panicked
      /\ toAccept' = Tail(toAccept) /\ written' = FALSE
      /\ UNCHANGED <<store, consensusGc, gcRound, State, recovering, intake,
                     collector, toTraverse, crashes>>
  BY <1>3, Zenon DEF SendCertificate
<1> HIDE DEF c
<1>5. TypeOK' /\ OnlySuspendedPanic'
  <2>1. aggregated' \subseteq Certificate /\ dag' \subseteq Certificate
    BY <1>1, <1>2, <1>4, Zenon DEF TypeOK
  <2>2. QED
    BY <1>1, <1>2, <1>4, <2>1, Zenon DEF Inv, TypeOK, State, intake,
       OnlySuspendedPanic
<1>6. Accepting' = Range(Tail(toAccept)) /\ Visiting' = {}
  BY <1>2, <1>4, Zenon DEF Accepting, Visiting
<1>7. Waiting'
  BY <1>4, Zenon DEF Inv, Waiting, State
<1>8. Released'
  <2>1. /\ \A p \in store : missing[p] = {}
        /\ \A p \in Accepting : missing[p] = {}
        /\ \A b \in suspended : b \notin store /\ b \notin Accepting
        /\ \A b \in suspended : \A p \in Parents[b] \ missingOf[b] :
              p \in store \/ p \in Accepting \/ Excused(b)
    BY <1>2, Zenon DEF Inv, Released
  <2>2. Accepting' \subseteq Accepting /\ Accepting \subseteq Accepting' \cup store
    BY <1>2, <1>6, Zenon
  <2>3. UNCHANGED <<store, suspended, missingOf, missing, collector, gcRound>>
    BY <1>4, Zenon DEF State
  <2>4. QED
    BY <1>6, <2>1, <2>2, <2>3, Zenon DEF Released, Excused
<1>9. InOrder'
  <2> SUFFICES ASSUME NEW i \in DOMAIN toAccept', ~(RoundOf[toAccept'[i]] <= gcRound + 1),
                      NEW p \in Parents[toAccept'[i]], p \notin store
               PROVE  \E j \in DOMAIN toAccept' : j < i /\ toAccept'[j] = p
    BY <1>4, Zenon DEF InOrder
  <2>1. i \in Nat /\ i + 1 \in DOMAIN toAccept /\ toAccept'[i] = toAccept[i + 1]
    BY <1>2, <1>4, Zenon
  <2>2. PICK j \in DOMAIN toAccept : j < i + 1 /\ toAccept[j] = p
    BY <2>1, Zenon DEF Inv, InOrder
  <2>3. j \in Nat /\ j # 1 /\ j - 1 \in DOMAIN toAccept' /\ toAccept'[j - 1] = p
    BY <1>2, <1>4, <2>2, Zenon
  <2>4. j - 1 < i
    BY <2>1, <2>2, <2>3
  <2>5. QED
    BY <2>3, <2>4, Zenon
<1>10. Causal' /\ Writing' /\ HasHighest' /\ Rested'
  BY <1>4, Zenon DEF Inv, Causal, Writing, HasHighest, Rested, State
<1>11. InDag'
  BY <1>4, Zenon DEF Inv, InDag, InHand, c
<1>12. Recovered'
  BY <1>4, Zenon DEF Inv, Recovered, LastTwoRounds, HighestProcessedRound,
     InHand, c
<1>13. QED
  BY <1>5, <1>7, <1>8, <1>9, <1>10, <1>11, <1>12, Zenon DEF Inv

(* gc_round is raised, without the lock.                                   *)
LEMMA StoreGcStep ==
    ASSUME Inv, StoreGcRound
    PROVE  Inv'
<1>1. TypeOK
  BY Zenon DEF Inv
<1>2. /\ collector = "idle" /\ gcRound < consensusGc
      /\ gcRound' = consensusGc /\ collector' = "stored"
      /\ aggregated' = {c \in aggregated : RoundOf[c] > consensusGc}
      /\ UNCHANGED <<store, consensusGc, dag, State, recovering, intake,
                     traversal, panicked, crashes>>
  BY Zenon DEF StoreGcRound
<1>3. gcRound \in Nat /\ consensusGc \in Nat /\ store \subseteq Certificate
      /\ \A c \in Certificate : RoundOf[c] \in Nat
  BY <1>1, Rounds, Zenon DEF TypeOK
<1>4. TypeOK' /\ OnlySuspendedPanic'
  BY <1>1, <1>2, <1>3, Zenon DEF Inv, TypeOK, State, intake, traversal,
     OnlySuspendedPanic
<1>5. Accepting' = Accepting /\ Visiting' = Visiting
  BY <1>2, Zenon DEF Accepting, Visiting, traversal
<1>6. Waiting'
  BY <1>2, Zenon DEF Inv, Waiting, State
<1>7. Released'
  BY <1>2, <1>5, Zenon DEF Inv, Released, Excused, State
<1>8. InOrder'
  <2>1. \A i \in DOMAIN toAccept : toAccept[i] \in Certificate
    <3>1. toAccept \in Seq(Certificate)
      BY <1>1, Zenon DEF TypeOK
    <3>2. QED
      BY <3>1
  <2>2. \A i \in DOMAIN toAccept :
           RoundOf[toAccept[i]] <= gcRound + 1 => RoundOf[toAccept[i]] <= consensusGc + 1
    BY <1>2, <1>3, <2>1
  <2>3. InOrder /\ UNCHANGED <<toAccept, store>> /\ gcRound' = consensusGc
    BY <1>2, Zenon DEF Inv, traversal
  <2>4. QED
    BY <2>2, <2>3 DEF InOrder
<1>9. Causal'
  <2>1. \A c \in store : RoundOf[c] > consensusGc + 1 => RoundOf[c] > gcRound + 1
    BY <1>2, <1>3
  <2>2. QED
    BY <1>2, <1>3, <2>1 DEF Inv, Causal
<1>10. InDag' /\ Writing' /\ Rested' /\ HasHighest'
  BY <1>2, Zenon DEF Inv, InDag, Writing, Rested, HasHighest, InHand, traversal
<1>11. Recovered'
  <2>1. LastTwoRounds' = LastTwoRounds /\ LastTwoRounds \subseteq store
    BY <1>2, Zenon DEF LastTwoRounds, HighestProcessedRound
  <2>2. \A c \in LastTwoRounds : RoundOf[c] > consensusGc => RoundOf[c] > gcRound
    BY <1>2, <1>3, <2>1
  <2>3. QED
    BY <1>2, <2>1, <2>2, Zenon DEF Inv, Recovered, InHand, traversal
<1>12. QED
  BY <1>4, <1>6, <1>7, <1>8, <1>9, <1>10, <1>11, Zenon DEF Inv

(* The collector takes the lock.                                           *)
LEMMA CollectorLockStep ==
    ASSUME Inv, CollectorLock
    PROVE  Inv'
<1>1. TypeOK
  BY Zenon DEF Inv
<1>2. /\ collector = "stored" /\ collector' = "locked" /\ acceptor # "locked"
      /\ UNCHANGED <<store, consensusGc, dag, gcRound, State, aggregated,
                     recovering, intake, traversal, panicked, crashes>>
  BY Zenon DEF CollectorLock, LockFree
<1>3. toTraverse = <<>> /\ toAccept = <<>>
  BY <1>1, <1>2, Zenon DEF TypeOK
<1>4. TypeOK' /\ OnlySuspendedPanic'
  BY <1>1, <1>2, <1>3, Zenon DEF Inv, TypeOK, State, intake, traversal,
     OnlySuspendedPanic
<1>5. Accepting' = Accepting /\ Visiting' = Visiting /\ Accepting = {} /\ Visiting = {}
  BY <1>2, <1>3 DEF Accepting, Visiting, traversal, Range
<1>6. Waiting'
  BY <1>2, Zenon DEF Inv, Waiting, State
<1>7. Released'
  BY <1>2, <1>5, Zenon DEF Inv, Released, Excused, State
<1>8. InOrder' /\ Causal'
  <2>1. InOrder /\ Causal /\ gcRound <= consensusGc
    BY Zenon DEF Inv, Causal
  <2>2. QED
    BY <1>2, <2>1, OrderUnchanged, CausalUnchanged, Zenon DEF traversal
<1>9. InDag' /\ Writing' /\ Rested' /\ HasHighest'
  BY <1>2, Zenon DEF Inv, InDag, Writing, Rested, HasHighest, InHand, traversal
<1>10. Recovered'
  BY <1>2, Zenon DEF Inv, Recovered, LastTwoRounds, HighestProcessedRound,
     InHand, traversal
<1>11. QED
  BY <1>4, <1>6, <1>7, <1>8, <1>9, <1>10, Zenon DEF Inv

(* run_gc_once takes the lowest missing certificate.  It is not suspended: *)
(* its own missing parent would be lower.                                  *)
LEMMA CollectOneStep ==
    ASSUME Inv, NEW d \in Certificate, CollectOne(d)
    PROVE  Inv'
<1>1. TypeOK
  BY Zenon DEF Inv
<1>2. /\ collector = "locked" /\ toTraverse = <<>> /\ toAccept = <<>>
      /\ RoundOf[d] <= gcRound
      /\ \A p \in Certificate : missing[p] # {} => RoundOf[d] <= RoundOf[p]
  BY Zenon DEF CollectOne, Collectable
<1>3. d \notin suspended /\ missingOf[d] = {}
  <2>1. SUFFICES ASSUME missingOf[d] # {} PROVE FALSE
    BY Zenon DEF Inv, Waiting
  <2>2. PICK p \in missingOf[d] : TRUE
    BY <2>1, Zenon
  <2>3. p \in Parents[d] /\ d \in suspended
    BY <2>1, Zenon DEF Inv, Waiting
  <2>4. p \in Certificate /\ RoundOf[d] = RoundOf[p] + 1 /\ RoundOf[p] \in Nat
    BY <1>1, <2>3, Rounds, Zenon
  <2>5. d \in missing[p]
    BY <2>3, <2>4, Zenon DEF Inv, Waiting
  <2>6. RoundOf[d] <= RoundOf[p]
    BY <1>2, <2>4, <2>5, Zenon
  <2>7. QED
    BY <2>4, <2>6
<1>4. /\ toTraverse' = <<d>> /\ toAccept' = <<>>
      /\ UNCHANGED <<store, consensusGc, dag, gcRound, missing, aggregated,
                     recovering, intake, collector, written, panicked, crashes>>
      /\ suspended' = suspended /\ missingOf' = missingOf
  BY <1>1, <1>3, Zenon DEF CollectOne, TypeOK
<1>5. TypeOK' /\ OnlySuspendedPanic'
  <2>1. <<d>> \in Seq(Certificate)
    OBVIOUS
  <2>2. QED
    BY <1>1, <1>2, <1>4, <2>1, Zenon DEF Inv, TypeOK, intake, OnlySuspendedPanic
<1>6. Accepting' = {} /\ Visiting' = {d} /\ Accepting = {} /\ Visiting = {}
  BY <1>2, <1>4 DEF Accepting, Visiting, Range
<1>7. ~written
  BY <1>2, Zenon DEF Inv, Writing
<1>8. Waiting'
  BY <1>4, Zenon DEF Inv, Waiting
<1>9. Released'
  BY <1>2, <1>4, <1>6, Zenon DEF Inv, Released, Excused
<1>10. InOrder' /\ Causal'
  <2>1. InOrder /\ Causal /\ gcRound <= consensusGc
    BY Zenon DEF Inv, Causal
  <2>2. QED
    BY <1>2, <1>4, <2>1, OrderUnchanged, CausalUnchanged, Zenon
<1>10a. HasHighest' /\ Rested' /\ Writing'
  BY <1>4, <1>7, Zenon DEF Inv, HasHighest, Rested, Writing
<1>11. InDag' /\ Recovered'
  BY <1>4, <1>7, Zenon DEF Inv, InDag, Recovered, LastTwoRounds,
     HighestProcessedRound, InHand
<1>12. QED
  BY <1>5, <1>8, <1>9, <1>10, <1>10a, <1>11, Zenon DEF Inv

(* The collector frees the lock: what is left missing is above gc_round.   *)
LEMMA CollectorUnlockStep ==
    ASSUME Inv, CollectorUnlock
    PROVE  Inv'
<1>1. TypeOK
  BY Zenon DEF Inv
<1>2. /\ collector = "locked" /\ collector' = "idle"
      /\ toTraverse = <<>> /\ toAccept = <<>>
      /\ \A p \in Certificate : ~(missing[p] # {} /\ RoundOf[p] <= gcRound)
      /\ UNCHANGED <<store, consensusGc, dag, gcRound, State, aggregated,
                     recovering, intake, traversal, panicked, crashes>>
  BY Zenon DEF CollectorUnlock, Collectable
<1>3. \A c \in suspended : RoundOf[c] > gcRound + 1
  <2> SUFFICES ASSUME NEW c \in suspended PROVE RoundOf[c] > gcRound + 1
    BY Zenon
  <2>1. c \in Certificate /\ missingOf[c] # {} /\ missingOf[c] \subseteq Parents[c]
    BY <1>1, Zenon DEF Inv, Waiting, TypeOK
  <2>2. PICK p \in missingOf[c] : TRUE
    BY <2>1, Zenon
  <2>3. p \in Certificate /\ RoundOf[c] = RoundOf[p] + 1 /\ RoundOf[p] \in Nat
        /\ gcRound \in Nat
    BY <1>1, <2>1, Rounds, Zenon
  <2>4. c \in missing[p]
    BY <2>1, <2>3, Zenon DEF Inv, Waiting
  <2>5. ~(RoundOf[p] <= gcRound)
    BY <1>2, <2>3, <2>4, Zenon
  <2>6. QED
    BY <2>3, <2>5
<1>4. TypeOK' /\ OnlySuspendedPanic'
  BY <1>1, <1>2, Zenon DEF Inv, TypeOK, State, intake, traversal,
     OnlySuspendedPanic
<1>5. Accepting' = Accepting /\ Visiting' = Visiting /\ Accepting = {} /\ Visiting = {}
  BY <1>2, NothingToAccept, Zenon DEF Accepting, Visiting, traversal
<1>6. Waiting'
  BY <1>2, Zenon DEF Inv, Waiting, State
<1>7. Released'
  <2>1. \A c \in suspended : ~Excused(c)
    <3>1. \A c \in suspended : RoundOf[c] \in Nat /\ gcRound \in Nat
      BY <1>1, Rounds, Zenon DEF TypeOK
    <3>2. QED
      BY <1>3, <3>1 DEF Excused
  <2>2. QED
    BY <1>2, <1>5, <2>1, Zenon DEF Inv, Released, State
<1>8. InOrder' /\ Causal'
  <2>1. InOrder /\ Causal /\ gcRound <= consensusGc
    BY Zenon DEF Inv, Causal
  <2>2. QED
    BY <1>2, <2>1, OrderUnchanged, CausalUnchanged, Zenon DEF traversal
<1>9. InDag' /\ Writing' /\ Rested' /\ HasHighest'
  BY <1>2, <1>3, Zenon DEF Inv, InDag, Writing, Rested, HasHighest, InHand,
     State, traversal
<1>10. Recovered'
  BY <1>2, Zenon DEF Inv, Recovered, LastTwoRounds, HighestProcessedRound,
     InHand, traversal
<1>11. QED
  BY <1>4, <1>6, <1>7, <1>8, <1>9, <1>10, Zenon DEF Inv

(* Consensus commits: its round moves on and the dag is purged.            *)
LEMMA CommitStep ==
    ASSUME Inv, NEW l \in Certificate, ConsensusCommit(l)
    PROVE  Inv'
<1>1. TypeOK
  BY Zenon DEF Inv
<1>2. /\ RoundOf[l] > consensusGc + GcDepth
      /\ consensusGc' = RoundOf[l] - GcDepth
      /\ dag' = {c \in dag : RoundOf[c] > RoundOf[l] - GcDepth}
      /\ UNCHANGED <<store, gcRound, State, aggregated, recovering, intake,
                     collector, traversal, panicked, crashes>>
  BY Zenon DEF ConsensusCommit
<1>3. gcRound \in Nat /\ consensusGc \in Nat /\ RoundOf[l] \in Nat /\ GcDepth \in Nat
      /\ gcRound <= consensusGc /\ store \subseteq Certificate
      /\ \A c \in Certificate : RoundOf[c] \in Nat
  BY <1>1, Rounds, SynchronizerAssumption, Zenon DEF TypeOK, Inv, Causal
<1>4. consensusGc' \in Nat /\ consensusGc < consensusGc' /\ gcRound <= consensusGc'
  BY <1>2, <1>3
<1>5. TypeOK' /\ OnlySuspendedPanic'
  <2>1. dag' \subseteq Certificate
    BY <1>1, <1>2, Zenon DEF TypeOK
  <2>2. QED
    BY <1>1, <1>2, <1>4, <2>1, Zenon DEF Inv, TypeOK, State, intake, traversal,
       OnlySuspendedPanic
<1>6. Accepting' = Accepting /\ Visiting' = Visiting
  BY <1>2, Zenon DEF Accepting, Visiting, traversal
<1>7. Waiting' /\ Released'
  BY <1>2, <1>6, Zenon DEF Inv, Waiting, Released, Excused, State
<1>8. InOrder' /\ Causal'
  <2>1. InOrder /\ Causal
    BY Zenon DEF Inv
  <2>2. QED
    BY <1>2, <1>4, <2>1, OrderUnchanged, CausalUnchanged, Zenon DEF traversal
<1>9. InDag'
  <2>1. \A c \in store : RoundOf[c] > consensusGc' => RoundOf[c] > consensusGc
    BY <1>3, <1>4
  <2>2. QED
    BY <1>2, <2>1, Zenon DEF Inv, InDag, InHand, traversal
<1>10. Writing' /\ Rested' /\ HasHighest'
  BY <1>2, Zenon DEF Inv, Writing, Rested, HasHighest, State, traversal
<1>11. Recovered'
  BY <1>2, Zenon DEF Inv, Recovered, LastTwoRounds, HighestProcessedRound,
     InHand, traversal
<1>12. QED
  BY <1>5, <1>7, <1>8, <1>9, <1>10, <1>11, Zenon DEF Inv

(* A recovered certificate goes to its aggregator.                         *)
LEMMA RecoverStep ==
    ASSUME Inv, NEW c \in Certificate, RecoverCertificate(c)
    PROVE  Inv'
<1>1. TypeOK
  BY Zenon DEF Inv
<1>2. /\ recovering' = recovering \ {c} /\ aggregated' = aggregated \cup {c}
      /\ UNCHANGED <<store, consensusGc, dag, gcRound, State, intake, collector,
                     traversal, panicked, crashes>>
  BY Zenon DEF RecoverCertificate
<1>3. TypeOK' /\ OnlySuspendedPanic'
  <2>1. recovering' \in SUBSET Certificate /\ aggregated' \subseteq Certificate
    BY <1>1, <1>2, Zenon DEF TypeOK
  <2>2. QED
    BY <1>1, <1>2, <2>1, Zenon DEF Inv, TypeOK, State, intake, traversal,
       OnlySuspendedPanic
<1>4. Accepting' = Accepting /\ Visiting' = Visiting
  BY <1>2, Zenon DEF Accepting, Visiting, traversal
<1>5. Waiting' /\ Released'
  BY <1>2, <1>4, Zenon DEF Inv, Waiting, Released, Excused, State
<1>6. InOrder' /\ Causal'
  <2>1. InOrder /\ Causal /\ gcRound <= consensusGc
    BY Zenon DEF Inv, Causal
  <2>2. QED
    BY <1>2, <2>1, OrderUnchanged, CausalUnchanged, Zenon DEF traversal
<1>7. InDag' /\ Writing' /\ Rested' /\ HasHighest'
  BY <1>2, Zenon DEF Inv, InDag, Writing, Rested, HasHighest, InHand, State,
     traversal
<1>8. Recovered'
  BY <1>2, Zenon DEF Inv, Recovered, LastTwoRounds, HighestProcessedRound,
     InHand, traversal
<1>9. QED
  BY <1>3, <1>5, <1>6, <1>7, <1>8, Zenon DEF Inv

(* A restart: the memory is empty, the stores are as they were left.       *)
LEMMA RestartStep ==
    ASSUME Inv, Restart
    PROVE  Inv'
<1>1. TypeOK
  BY Zenon DEF Inv
<1>2. /\ crashes < MaxCrash /\ crashes' = crashes + 1
      /\ dag' = {c \in store : RoundOf[c] > consensusGc} /\ gcRound' = consensusGc
      /\ suspended' = {}
      /\ missingOf' = [c \in Certificate |-> {}] /\ missing' = [c \in Certificate |-> {}]
      /\ aggregated' = {} /\ recovering' = LastTwoRounds
      /\ queue' = <<>> /\ batch' = NoMessage /\ acceptor' = "idle" /\ collector' = "idle"
      /\ toTraverse' = <<>> /\ toAccept' = <<>> /\ written' = FALSE /\ panicked' = "none"
      /\ UNCHANGED <<store, consensusGc>>
  BY Zenon DEF Restart, RecoveredDag, RecoveredParents
<1>3. gcRound \in Nat /\ consensusGc \in Nat /\ gcRound <= consensusGc
      /\ store \subseteq Certificate /\ \A c \in Certificate : RoundOf[c] \in Nat
  BY <1>1, Rounds, Zenon DEF TypeOK, Inv, Causal
<1>4. TypeOK' /\ OnlySuspendedPanic'
  <2>1. /\ dag' \subseteq Certificate /\ recovering' \in SUBSET Certificate
        /\ missingOf' \in [Certificate -> SUBSET Certificate]
        /\ missing' \in [Certificate -> SUBSET Certificate]
    BY <1>2, <1>3, Zenon DEF LastTwoRounds
  <2>2. batch' \in Message /\ queue' \in Seq(Message)
        /\ toTraverse' \in Seq(Certificate) /\ toAccept' \in Seq(Certificate)
    <3>1. NoMessage \in Message
      BY DEF NoMessage, Message
    <3>2. QED
      BY <1>2, <3>1
  <2>3. crashes' \in 0 .. MaxCrash
    <3>1. MaxCrash \in Nat
      BY SynchronizerAssumption, Zenon
    <3>2. crashes \in 0 .. MaxCrash
      BY <1>1, Zenon DEF TypeOK
    <3>3. QED
      BY <1>2, <3>1, <3>2
  <2>4. QED
    BY <1>2, <1>3, <2>1, <2>2, <2>3, Zenon DEF TypeOK, OnlySuspendedPanic
<1>5. Accepting' = {} /\ Visiting' = {}
  BY <1>2 DEF Accepting, Visiting, Range
<1>6. Waiting'
  BY <1>2, FS_EmptySet, Zenon DEF Waiting
<1>7. Released'
  BY <1>2, <1>3, <1>5, Zenon DEF Released
<1>8. InOrder' /\ Writing' /\ Rested'
  <2>1. DOMAIN toAccept' = {}
    BY <1>2
  <2>2. QED
    BY <1>2, <2>1, Zenon DEF InOrder, Writing, Rested
<1>9. Causal' /\ InDag' /\ HasHighest'
  <2>1. \A c \in store : RoundOf[c] > consensusGc + 1 => Parents[c] \subseteq store
    <3>1. \A c \in store : RoundOf[c] > consensusGc + 1 => RoundOf[c] > gcRound + 1
      BY <1>3
    <3>2. QED
      BY <3>1, Zenon DEF Inv, Causal
  <2>2. Causal'
    BY <1>2, <1>3, <2>1 DEF Causal
  <2>3. InDag' /\ HasHighest'
    BY <1>2, Zenon DEF Inv, InDag, HasHighest
  <2>4. QED
    BY <2>2, <2>3, Zenon
<1>10. Recovered'
  BY <1>2, Zenon DEF Recovered, LastTwoRounds, HighestProcessedRound
<1>11. QED
  BY <1>4, <1>6, <1>7, <1>8, <1>9, <1>10, Zenon DEF Inv
-----------------------------------------------------------------------------
(* The invariant holds from the start ...                                  *)
LEMMA InvInit == Init => Inv
<1> SUFFICES ASSUME Init PROVE Inv
  BY Zenon
<1>1. TypeOK
  <2>1. batch \in Message /\ queue \in Seq(Message)
        /\ toTraverse \in Seq(Certificate) /\ toAccept \in Seq(Certificate)
    <3>1. NoMessage \in Message
      BY DEF NoMessage, Message
    <3>2. QED
      BY <3>1 DEF Init
  <2>2. crashes \in 0 .. MaxCrash
    <3>1. MaxCrash \in Nat /\ crashes = 0
      BY SynchronizerAssumption, Zenon DEF Init
    <3>2. QED
      BY <3>1
  <2>3. QED
    BY <2>1, <2>2, Zenon DEF Init, TypeOK
<1>2. Accepting = {} /\ Visiting = {}
  BY NothingToAccept, Zenon DEF Init
<1>3. Waiting
  BY FS_EmptySet, Zenon DEF Init, Waiting
<1>4. Released /\ InOrder
  BY <1>2, NothingToAccept, Zenon DEF Init, Released
<1>5. store = {} /\ suspended = {} /\ ~written /\ gcRound <= consensusGc
      /\ panicked = "none"
  BY DEF Init
<1>5a. Causal /\ InDag /\ Writing /\ Rested /\ HasHighest /\ OnlySuspendedPanic
  BY <1>5, Zenon DEF Causal, InDag, Writing, Rested, HasHighest,
     OnlySuspendedPanic
<1>6. Recovered
  BY Zenon DEF Init, Recovered, LastTwoRounds
<1>7. QED
  BY <1>1, <1>3, <1>4, <1>5a, <1>6, Zenon DEF Inv

(* ... and every step preserves it.                                        *)
LEMMA InvStep == Inv /\ [Next]_vars => Inv'
<1> SUFFICES ASSUME Inv, [Next]_vars PROVE Inv'
  BY Zenon
<1>1. CASE UNCHANGED vars
  <2>1. UNCHANGED core /\ UNCHANGED <<intake, panicked, crashes>>
    BY <1>1, Zenon DEF vars, core
  <2>2. TypeOK' /\ OnlySuspendedPanic'
    BY <2>1, Zenon DEF Inv, TypeOK, OnlySuspendedPanic, core, intake, State,
       traversal
  <2>3. QED
    BY <2>1, <2>2, CoreUnchanged, Zenon
<1>2. CASE Restart
  BY <1>2, RestartStep, Zenon
<1>3. CASE panicked = "none" /\
           \/ \E c \in Certificate : ReceiveBroadcast(c)
           \/ \E s \in Batches : ReceiveFetched(s)
           \/ Acceptor
  BY <1>3, IntakeStep, ProcessStep, Zenon DEF Acceptor
<1>4. CASE Locked
  BY <1>4, VisitStep, WriteStep, SendStep, Zenon DEF Locked
<1>5. CASE Collector
  BY <1>5, StoreGcStep, CollectorLockStep, CollectOneStep, CollectorUnlockStep,
     Zenon DEF Collector
<1>6. CASE \E l \in Certificate : ConsensusCommit(l)
  BY <1>6, CommitStep, Zenon
<1>7. CASE \E c \in Certificate : RecoverCertificate(c)
  BY <1>7, RecoverStep, Zenon
<1>8. QED
  BY <1>1, <1>2, <1>3, <1>4, <1>5, <1>6, <1>7, Zenon DEF Next

(* No assertion of the synchronizer or of the consensus dag fails but the  *)
(* one in accept_children: `missing' and `suspended' never disagree, a     *)
(* parent is never absent from the store or the dag when it is needed.     *)
THEOREM NoOtherPanic == Spec => []OnlySuspendedPanic
<1>1. Inv => OnlySuspendedPanic
  BY Zenon DEF Inv
<1>2. QED
  BY <1>1, InvInit, InvStep, PTL DEF Spec

(* At every moment, also between the write of a certificate and its way to *)
(* consensus, a restart finds a store that is causally complete above the  *)
(* last persisted commit (construct_dag_from_cert_store).                  *)
THEOREM StoreIsCausal == Spec => []StoreCausal
<1>1. Inv => StoreCausal
  <2> SUFFICES ASSUME Inv, NEW c \in store, RoundOf[c] > consensusGc + 1
               PROVE  Parents[c] \subseteq store
    BY Zenon DEF StoreCausal
  <2>1. TypeOK /\ c \in Certificate /\ gcRound <= consensusGc
    BY Zenon DEF Inv, TypeOK, Causal
  <2>2. gcRound \in Nat /\ consensusGc \in Nat /\ RoundOf[c] \in Nat
    BY <2>1, Rounds, Zenon
  <2>3. RoundOf[c] > gcRound + 1
    BY <2>1, <2>2
  <2>4. QED
    BY <2>3, Zenon DEF Inv, Causal
<1>2. QED
  BY <1>1, InvInit, InvStep, PTL DEF Spec

(* Whenever the lock is free, State is consistent with the store: what is  *)
(* suspended waits for exactly its parents that are not stored.            *)
THEOREM SuspensionIsConsistent == Spec => []SuspensionConsistent
<1>1. Inv => SuspensionConsistent
  <2> SUFFICES ASSUME Inv, LockFree
               PROVE  /\ \A c \in suspended : /\ c \notin store
                                              /\ missingOf[c] = MissingParents(c)
                                              /\ missingOf[c] # {}
                      /\ \A p, c \in Certificate :
                            c \in missing[p] <=> c \in suspended /\ p \in missingOf[c]
    BY Zenon DEF SuspensionConsistent
  <2>1. toTraverse = <<>> /\ toAccept = <<>> /\ collector # "locked"
    BY Zenon DEF LockFree, Inv, TypeOK
  <2>2. QED
    BY <2>1, WaitsForMissing, Zenon DEF Inv, Waiting
<1>2. QED
  BY <1>1, InvInit, InvStep, PTL DEF Spec

(* While the collector rests, what is suspended waits for certificates     *)
(* above gc_round only: garbage collection releases all the others.        *)
THEOREM SuspendedHaveAReason == Spec => []SuspendedForAReason
<1>1. Inv => SuspendedForAReason
  BY Zenon DEF Inv, Rested, SuspendedForAReason
<1>2. QED
  BY <1>1, InvInit, InvStep, PTL DEF Spec

(* Once the recovery task is done, every stored certificate of the last    *)
(* two rounds above gc_round is in an aggregator, after any restart.       *)
THEOREM ParentsAreRecovered == Spec => []ParentsRecovered
<1>1. Inv => ParentsRecovered
  <2> SUFFICES ASSUME Inv, LockFree, recovering = {},
                      NEW c \in LastTwoRounds, RoundOf[c] > gcRound
               PROVE  c \in aggregated
    BY Zenon DEF ParentsRecovered
  <2>1. toAccept = <<>>
    BY Zenon DEF LockFree, Inv, TypeOK
  <2>2. ~written
    BY <2>1, Zenon DEF Inv, Writing
  <2>3. QED
    BY <2>2, Zenon DEF Inv, Recovered, InHand
<1>2. QED
  BY <1>1, InvInit, InvStep, PTL DEF Spec
=============================================================================
