---------------------- MODULE ParentAggregationProofs ----------------------
(***************************************************************************)
(* Proofs about the parents of headers, for every committee, any number of *)
(* rounds and any number of crashes.                                       *)
(***************************************************************************)
EXTENDS ParentAggregation, CommitteeProofs

Origins(S) == {c.origin : c \in S}

OfRound(S, r) == {c \in S : c.round = r}

IsQuorum(S) == ReachedQuorum(Origins(S))

(* Whatever travels from the store to a header is accepted, and is kept    *)
(* under its round.                                                        *)
Kept ==
    /\ \A r \in Round : certificates[r] \subseteq OfRound(store, r)
    /\ recovering \subseteq store
    /\ \A t \in Task : sending[t].parents \subseteq OfRound(store, sending[t].round)
    /\ \A i \in 1 .. Len(rxParents) :
          rxParents[i].parents \subseteq OfRound(store, rxParents[i].round)
    /\ lastParents \subseteq OfRound(store, round)
    /\ ParentsAccepted
    /\ genesis => round = 0

(* An aggregator counts what was appended, which the recovery task no      *)
(* longer has, and it keeps exactly that until it weighs a quorum.         *)
Counted ==
    \A r \in Round :
       /\ \A o \in used[r] : [origin |-> o, round |-> r] \in store \ recovering
       /\ ReachedQuorum(used[r]) => certificates[r] = {}
       /\ ~ReachedQuorum(used[r]) => Origins(certificates[r]) = used[r]

(* What is accepted has its parents.                                       *)
Grounded == \A c \in store : HasParents(c)

HasHighest == store # {} => \E c \in store : \A d \in store : d.round <= c.round

(* The recovery task reads the last two rounds only.                       *)
Passed(c) == \E d \in store : d.round > c.round + 1

OnItsWay(c) ==
    \/ c \in certificates[c.round]
    \/ \E t \in Task : c \in sending[t].parents
    \/ \E i \in 1 .. Len(rxParents) : c \in rxParents[i].parents

Arrived(c) == round > c.round \/ (round = c.round /\ c \in lastParents)

(* Where an accepted certificate is.                                       *)
Traced ==
    \A c \in store : c.round > gcRound =>
       \/ Passed(c)
       \/ c \in recovering
       \/ c.origin \in used[c.round] /\ (OnItsWay(c) \/ Arrived(c))

(* A proposer in round p with the parents S has, or gets from the first n  *)
(* messages of the channel q, a quorum of round r.                         *)
Backed(q, p, S, r, n) ==
    \/ p > r
    \/ p = r /\ IsQuorum(S)
    \/ \E j \in 1 .. n : q[j].round = r /\ IsQuorum(q[j].parents)

(* While the acceptor is the only task that appends, no message overtakes  *)
(* the one with the quorum of its round.                                   *)
QuorumFirst ==
    crashes = 0 =>
       /\ recovering = {} /\ sending["recovery"] = Nothing
       /\ \A i \in 1 .. Len(rxParents) :
             \/ rxParents[i].parents = {}
             \/ IsQuorum(rxParents[i].parents)
             \/ Backed(rxParents, round, lastParents, rxParents[i].round, i - 1)
       /\ \/ sending["acceptor"].parents = {}
          \/ IsQuorum(sending["acceptor"].parents)
          \/ Backed(rxParents, round, lastParents, sending["acceptor"].round,
                    Len(rxParents))
       /\ \A r \in Round : ReachedQuorum(used[r]) =>
             \/ Backed(rxParents, round, lastParents, r, Len(rxParents))
             \/ sending["acceptor"].round = r /\ IsQuorum(sending["acceptor"].parents)
       /\ lastParents # {} => IsQuorum(lastParents)

(* The inductive invariant.                                                *)
Inv ==
    /\ TypeOK /\ Kept /\ Counted /\ Grounded /\ HasHighest
    /\ Traced /\ QuorumFirst /\ HeaderHasQuorum
-----------------------------------------------------------------------------
(* A set of certificates that grows does not lose its quorum.              *)
LEMMA QuorumGrows ==
    ASSUME NEW S \in SUBSET Certificate, NEW T \in SUBSET Certificate,
           S \subseteq T, IsQuorum(S)
    PROVE  IsQuorum(T)
<1>1. Origins(S) \in SUBSET Authority /\ Origins(T) \in SUBSET Authority
      /\ Origins(S) \subseteq Origins(T)
  BY Zenon DEF Origins, Certificate
<1>2. QED
  BY <1>1, QuorumMonotone, Zenon DEF IsQuorum

(* No authority at all is no quorum.                                       *)
LEMMA NoneIsNoQuorum == ~ReachedQuorum({}) /\ ~IsQuorum({})
<1>1. StakeOf({}) = 0 /\ TotalStake \in Nat
  BY StakeSum, Zenon DEF TotalStake
<1>2. QuorumThreshold > 0
  BY <1>1 DEF QuorumThreshold
<1>3. ~ReachedQuorum({})
  BY <1>1, <1>2, QuorumThreshold \in Int DEF ReachedQuorum, QuorumThreshold
<1>4. Origins({}) = {}
  BY Zenon DEF Origins
<1>5. QED
  BY <1>3, <1>4, Zenon DEF IsQuorum

(* The origins of a round that an aggregator counts are in the store.      *)
LEMMA OriginsAdd ==
    ASSUME NEW S, NEW c PROVE Origins(S \cup {c}) = Origins(S) \cup {c.origin}
BY Zenon DEF Origins

(* What an append leaves in the aggregators and to be sent.                *)
LEMMA AppendTypes ==
    ASSUME TypeOK, NEW t \in Task, NEW c \in Certificate, AppendCertificate(t, c)
    PROVE  /\ used' \in [Round -> SUBSET Authority]
           /\ certificates' \in [Round -> SUBSET Certificate]
           /\ sending' \in [Task -> Message]
<1>1. /\ c.round \in Round /\ c.origin \in Authority /\ c.round \in 0 .. MaxRound
      /\ used[c.round] \in SUBSET Authority
      /\ certificates[c.round] \in SUBSET Certificate
  BY ParentAggregationAssumption DEF Certificate, Round, TypeOK
<1>2. CASE c.origin \in used[c.round]
  BY <1>2, Zenon DEF AppendCertificate, aggregators, TypeOK
<1>3. CASE c.origin \notin used[c.round]
  <2>1. used' \in [Round -> SUBSET Authority]
    BY <1>1, <1>3 DEF AppendCertificate, TypeOK
  <2>2. [parents |-> certificates[c.round] \cup {c}, round |-> c.round] \in Message
    BY <1>1, Zenon DEF Message
  <2>3. certificates' \in [Round -> SUBSET Certificate]
    <3>1. certificates' = [certificates EXCEPT ![c.round] = {}]
          \/ certificates' = [certificates EXCEPT ![c.round] = @ \cup {c}]
      BY <1>3, Zenon DEF AppendCertificate
    <3>2. QED
      BY <1>1, <3>1 DEF TypeOK
  <2>4. sending' \in [Task -> Message]
    BY <1>3, <2>2, Zenon DEF AppendCertificate, TypeOK
  <2>5. QED
    BY <2>1, <2>3, <2>4, Zenon
<1>4. QED
  BY <1>2, <1>3, Zenon

(* A header can be made only below the highest round and the next one.     *)
LEMMA RoundGrows ==
    ASSUME TypeOK, Kept, MakeHeader
    PROVE  round + 1 \in 0 .. MaxRound + 1
<1>1. MaxRound \in Nat /\ round \in 0 .. MaxRound + 1
  BY ParentAggregationAssumption, Zenon DEF TypeOK
<1>2. CASE genesis
  BY <1>1, <1>2 DEF Kept
<1>3. CASE lastParents # {}
  <2>1. PICK p \in lastParents : TRUE
    BY <1>3, Zenon
  <2>2. p \in Certificate /\ p.round = round
    BY Zenon DEF Kept, OfRound, TypeOK
  <2>3. round \in 1 .. MaxRound
    BY <2>2, Zenon DEF Certificate, Round
  <2>4. QED
    BY <1>1, <2>3
<1>4. QED
  BY <1>2, <1>3, Zenon DEF MakeHeader

(* The variables keep their types.                                         *)
LEMMA TypesStep == ASSUME TypeOK, Kept, [Next]_vars PROVE TypeOK'
<1>1. MaxRound \in Nat /\ MaxCrash \in Nat
  BY ParentAggregationAssumption, Zenon
<1>2. Nothing \in Message
  BY <1>1 DEF Nothing, Message
<1>3. ASSUME NEW c \in Certificate, AcceptCertificate(c) PROVE TypeOK'
  <2>1. "acceptor" \in Task
    BY Zenon DEF Task
  <2>2. QED
    BY <1>3, <2>1, AppendTypes, Zenon DEF AcceptCertificate, proposer, TypeOK
<1>4. ASSUME NEW c \in Certificate, RecoverCertificate(c) PROVE TypeOK'
  <2>1. "recovery" \in Task
    BY Zenon DEF Task
  <2>2. QED
    BY <1>4, <2>1, AppendTypes, Zenon DEF RecoverCertificate, proposer, TypeOK
<1>5. ASSUME NEW t \in Task, SendParents(t) PROVE TypeOK'
  <2>1. sending[t] \in Message
    BY Zenon DEF TypeOK
  <2>2. rxParents' \in Seq(Message) /\ sending' \in [Task -> Message]
    BY <1>2, <1>5, <2>1 DEF SendParents, TypeOK
  <2>3. QED
    BY <1>5, <2>2, Zenon DEF SendParents, aggregators, proposer, TypeOK
<1>6. ASSUME NEW r \in Round, CollectAggregators(r) PROVE TypeOK'
  <2>1. r \in 0 .. MaxRound
    BY <1>1 DEF Round
  <2>2. QED
    BY <1>6, <2>1, Zenon DEF CollectAggregators, proposer, TypeOK
<1>7. ASSUME NEW r \in Round, SignalRound(r) PROVE TypeOK'
  <2>1. [parents |-> {}, round |-> r] \in Message
    BY <1>1 DEF Message, Round
  <2>2. rxParents' \in Seq(Message)
    BY <1>7, <2>1 DEF SignalRound
  <2>3. QED
    BY <1>7, <2>2, Zenon DEF SignalRound, aggregators, proposer, TypeOK
<1>8. CASE ReceiveParents
  <2>1. Head(rxParents) \in Message /\ Tail(rxParents) \in Seq(Message)
    BY <1>8 DEF ReceiveParents, TypeOK
  <2>2. /\ Head(rxParents).round \in 0 .. MaxRound + 1
        /\ Head(rxParents).parents \subseteq Certificate
    BY <1>1, <2>1 DEF Message
  <2> DEFINE m == Head(rxParents)
  <2>3. /\ round' = IF m.round > round THEN m.round ELSE round
        /\ genesis' = (genesis /\ m.round <= round)
        /\ lastParents' \in {m.parents, lastParents \cup m.parents, lastParents}
        /\ rxParents' = Tail(rxParents)
        /\ UNCHANGED <<store, gcRound, used, certificates, recovering, sending,
                       header, crashes>>
    BY <1>8, Zenon DEF ReceiveParents, aggregators
  <2> HIDE DEF m
  <2>4. m.round \in 0 .. MaxRound + 1 /\ m.parents \subseteq Certificate
    BY <2>2, Zenon DEF m
  <2>5. QED
    BY <2>1, <2>3, <2>4, Zenon DEF TypeOK
<1>9. CASE MakeHeader
  <2>1. round + 1 \in 0 .. MaxRound + 1
    BY <1>9, RoundGrows, Zenon
  <2>2. QED
    BY <1>9, <2>1, Zenon DEF MakeHeader, aggregators, TypeOK
<1>10. CASE Restart
  <2>1. LastTwoRounds \subseteq Certificate /\ 0 \in 0 .. MaxRound + 1
        /\ crashes' \in 0 .. MaxCrash
    BY <1>1, <1>10 DEF LastTwoRounds, TypeOK, Restart
  <2>2. <<>> \in Seq(Message)
    OBVIOUS
  <2>3. QED
    BY <1>2, <1>10, <2>1, <2>2, Zenon DEF Restart, TypeOK, Nothing
<1>11. CASE UNCHANGED vars
  BY <1>11, Zenon DEF vars, aggregators, proposer, TypeOK
<1>12. QED
  BY <1>3, <1>4, <1>5, <1>6, <1>7, <1>8, <1>9, <1>10, <1>11, Zenon DEF Next
-----------------------------------------------------------------------------
(* What an append by t does, for a certificate of the store that its       *)
(* aggregator has not counted.                                             *)
LEMMA AppendSplit ==
    ASSUME TypeOK, NEW t \in Task, NEW c \in Certificate, AppendCertificate(t, c),
           c.origin \notin used[c.round]
    PROVE  LET r == c.round
               all == certificates[r] \cup {c}
           IN /\ used'[r] = used[r] \cup {c.origin}
              /\ \A s \in Round \ {r} : used'[s] = used[s] /\ certificates'[s] = certificates[s]
              /\ \A u \in Task \ {t} : sending'[u] = sending[u]
              /\ \/ /\ ReachedQuorum(used'[r])
                    /\ certificates'[r] = {}
                    /\ sending'[t] = [parents |-> all, round |-> r]
                 \/ /\ ~ReachedQuorum(used'[r])
                    /\ certificates'[r] = all
                    /\ sending'[t] = sending[t]
<1>1. c.round \in Round
  BY Zenon DEF Certificate
<1>2. used'[c.round] = used[c.round] \cup {c.origin}
      /\ \A s \in Round \ {c.round} : used'[s] = used[s]
  BY <1>1, Zenon DEF AppendCertificate, TypeOK
<1>3. CASE ReachedQuorum(used[c.round] \cup {c.origin})
  BY <1>1, <1>2, <1>3, Zenon DEF AppendCertificate, TypeOK
<1>4. CASE ~ReachedQuorum(used[c.round] \cup {c.origin})
  BY <1>1, <1>2, <1>4, Zenon DEF AppendCertificate, TypeOK
<1>5. QED
  BY <1>3, <1>4, Zenon

(* An append keeps certificates of the store under their round.            *)
LEMMA AppendKeeps ==
    ASSUME TypeOK, TypeOK', Kept, NEW t \in Task, NEW c \in Certificate,
           AppendCertificate(t, c), c \in store', store \subseteq store'
    PROVE  /\ \A r \in Round : certificates'[r] \subseteq OfRound(store', r)
           /\ \A u \in Task : sending'[u].parents \subseteq OfRound(store', sending'[u].round)
<1>1. /\ \A r \in Round : OfRound(store, r) \subseteq OfRound(store', r)
      /\ \A u \in Task : OfRound(store, sending[u].round) \subseteq OfRound(store', sending[u].round)
      /\ c \in OfRound(store', c.round)
  BY Zenon DEF OfRound
<1>2. CASE c.origin \in used[c.round]
  BY <1>1, <1>2 DEF AppendCertificate, aggregators, Kept, OfRound
<1>3. CASE c.origin \notin used[c.round]
  <2> DEFINE r == c.round
             all == certificates[r] \cup {c}
  <2>1. r \in Round
    BY Zenon DEF Certificate
  <2>2. all \subseteq OfRound(store', r)
    BY <1>1, <2>1, Zenon DEF Kept
  <2>3. /\ \A s \in Round \ {r} : certificates'[s] = certificates[s]
        /\ \A u \in Task \ {t} : sending'[u] = sending[u]
        /\ \/ /\ certificates'[r] = {}
              /\ sending'[t] = [parents |-> all, round |-> r]
           \/ /\ certificates'[r] = all
              /\ sending'[t] = sending[t]
    BY <1>3, AppendSplit, Zenon
  <2> HIDE DEF all, r
  <2>4. \A s \in Round : certificates'[s] \subseteq OfRound(store', s)
    <3> SUFFICES ASSUME NEW s \in Round PROVE certificates'[s] \subseteq OfRound(store', s)
      BY Zenon
    <3>1. certificates[s] \subseteq OfRound(store', s)
      BY <1>1, Zenon DEF Kept
    <3>2. QED
      BY <2>2, <2>3, <3>1, Zenon
  <2>5. ASSUME NEW u \in Task PROVE sending'[u].parents \subseteq OfRound(store', sending'[u].round)
    <3>1. CASE sending'[u] = sending[u]
      <4>1. sending[u].parents \subseteq {x \in store' : x.round = sending[u].round}
        BY <1>1, Zenon DEF Kept, OfRound
      <4>2. QED
        BY <3>1, <4>1, Zenon DEF OfRound
    <3>2. CASE sending'[u] = [parents |-> all, round |-> r]
      <4>1. sending'[u].parents = all /\ sending'[u].round = r
        BY <3>2
      <4>2. QED
        BY <2>2, <4>1, Zenon DEF OfRound
    <3>3. QED
      BY <2>3, <3>1, <3>2, Zenon
  <2>6. QED
    BY <2>4, <2>5, Zenon
<1>4. QED
  BY <1>2, <1>3, Zenon

(* The message at each place of the channel after a send.                  *)
LEMMA Sent ==
    ASSUME TypeOK, NEW t \in Task, SendParents(t)
    PROVE  /\ Len(rxParents) \in Nat /\ Len(rxParents') = Len(rxParents) + 1
           /\ \A i \in 1 .. Len(rxParents) : rxParents'[i] = rxParents[i]
           /\ rxParents'[Len(rxParents) + 1] = sending[t]
           /\ sending'[t] = Nothing /\ \A u \in Task \ {t} : sending'[u] = sending[u]
<1>1. rxParents \in Seq(Message) /\ sending[t] \in Message
  BY Zenon DEF TypeOK
<1>2. rxParents' = Append(rxParents, sending[t])
  BY Zenon DEF SendParents
<1>3. sending'[t] = Nothing /\ \A u \in Task \ {t} : sending'[u] = sending[u]
  BY Zenon DEF SendParents, TypeOK
<1>4. QED
  BY <1>1, <1>2, <1>3

(* The message at each place of the channel after one is taken from it.    *)
LEMMA Taken ==
    ASSUME TypeOK, ReceiveParents
    PROVE  /\ Len(rxParents) \in Nat \ {0} /\ Len(rxParents') = Len(rxParents) - 1
           /\ \A i \in 1 .. Len(rxParents') : rxParents'[i] = rxParents[i + 1]
           /\ Head(rxParents) = rxParents[1] /\ rxParents[1] \in Message
<1>1. rxParents \in Seq(Message) /\ rxParents # <<>> /\ rxParents' = Tail(rxParents)
  BY Zenon DEF TypeOK, ReceiveParents
<1>2. QED
  BY <1>1

(* Kept is preserved where only the store grows or recovery advances.      *)
LEMMA KeptFrame ==
    ASSUME Kept, store \subseteq store', recovering' \subseteq recovering,
           UNCHANGED <<rxParents, round, lastParents, genesis, header>>,
           \A r \in Round : certificates'[r] \subseteq OfRound(store', r),
           \A t \in Task : sending'[t].parents \subseteq OfRound(store', sending'[t].round)
    PROVE  Kept'
<1>1. \A r : OfRound(store, r) \subseteq OfRound(store', r)
  BY Zenon DEF OfRound
<1>2. ParentsAccepted'
  BY Zenon DEF Kept, ParentsAccepted
<1>3. \A i \in 1 .. Len(rxParents) :
         rxParents[i].parents \subseteq OfRound(store', rxParents[i].round)
  BY <1>1, Zenon DEF Kept
<1>4. lastParents \subseteq OfRound(store', round) /\ recovering' \subseteq store'
  BY <1>1, Zenon DEF Kept
<1>5. QED
  BY <1>2, <1>3, <1>4, Zenon DEF Kept

(* What is in a header is accepted, and so is all that leads to it.        *)
LEMMA KeptStep == ASSUME TypeOK, TypeOK', Kept, [Next]_vars PROVE Kept'
<1>1. ASSUME NEW c \in Certificate, AcceptCertificate(c) PROVE Kept'
  <2>1. "acceptor" \in Task /\ c \in store' /\ store \subseteq store'
        /\ recovering' = recovering
        /\ UNCHANGED <<rxParents, round, lastParents, genesis, header>>
        /\ AppendCertificate("acceptor", c)
    BY <1>1, Zenon DEF AcceptCertificate, Task, proposer
  <2>2. QED
    BY <2>1, AppendKeeps, KeptFrame, Zenon
<1>2. ASSUME NEW c \in Certificate, RecoverCertificate(c) PROVE Kept'
  <2>1. "recovery" \in Task /\ c \in store' /\ store \subseteq store'
        /\ recovering' \subseteq recovering
        /\ UNCHANGED <<rxParents, round, lastParents, genesis, header>>
        /\ AppendCertificate("recovery", c)
    BY <1>2, Zenon DEF RecoverCertificate, Task, proposer, Kept
  <2>2. QED
    BY <2>1, AppendKeeps, KeptFrame, Zenon
<1>3. ASSUME NEW t \in Task, SendParents(t) PROVE Kept'
  <2>1. UNCHANGED <<store, certificates, recovering, round, lastParents, genesis, header>>
    BY <1>3, Zenon DEF SendParents, aggregators, proposer
  <2>2. \A i \in 1 .. Len(rxParents') :
           rxParents'[i].parents \subseteq OfRound(store, rxParents'[i].round)
    <3> SUFFICES ASSUME NEW i \in 1 .. Len(rxParents')
                 PROVE  rxParents'[i].parents \subseteq OfRound(store, rxParents'[i].round)
      BY Zenon
    <3>1. i \in 1 .. Len(rxParents) \/ i = Len(rxParents) + 1
      BY <1>3, Sent
    <3>2. QED
      BY <1>3, <3>1, Sent, Zenon DEF Kept
  <2>3. \A u \in Task : sending'[u].parents \subseteq OfRound(store, sending'[u].round)
    BY <1>3, Sent DEF Kept, Nothing
  <2>4. QED
    BY <2>1, <2>2, <2>3, Zenon DEF Kept, ParentsAccepted
<1>4. ASSUME NEW r \in Round, CollectAggregators(r) PROVE Kept'
  <2>1. \A s \in Round : certificates'[s] \subseteq OfRound(store, s)
    BY <1>4, Zenon DEF CollectAggregators, Kept
  <2>2. QED
    BY <1>4, <2>1, Zenon DEF CollectAggregators, proposer, Kept, ParentsAccepted
<1>5. ASSUME NEW r \in Round, SignalRound(r) PROVE Kept'
  <2>1. rxParents' = <<[parents |-> {}, round |-> r]>>
    BY <1>5, Zenon DEF SignalRound
  <2>2. \A i \in 1 .. Len(rxParents') :
           rxParents'[i].parents \subseteq OfRound(store, rxParents'[i].round)
    BY <2>1
  <2>3. QED
    BY <1>5, <2>2, Zenon DEF SignalRound, aggregators, proposer, Kept,
       ParentsAccepted
<1>6. CASE ReceiveParents
  <2> DEFINE m == rxParents[1]
  <2>1. /\ round' = IF m.round > round THEN m.round ELSE round
        /\ genesis' = (genesis /\ m.round <= round)
        /\ lastParents' = IF m.round > round THEN m.parents
                          ELSE IF m.round = round THEN lastParents \cup m.parents
                          ELSE lastParents
        /\ UNCHANGED <<store, certificates, recovering, sending, header>>
    BY <1>6, Taken, Zenon DEF ReceiveParents, aggregators
  <2>2. \A i \in 1 .. Len(rxParents') :
           rxParents'[i].parents \subseteq OfRound(store, rxParents'[i].round)
    <3> SUFFICES ASSUME NEW i \in 1 .. Len(rxParents')
                 PROVE  rxParents'[i].parents \subseteq OfRound(store, rxParents'[i].round)
      BY Zenon
    <3>1. i + 1 \in 1 .. Len(rxParents) /\ rxParents'[i] = rxParents[i + 1]
      BY <1>6, Taken
    <3>2. QED
      BY <3>1, Zenon DEF Kept
  <2>3. m.parents \subseteq OfRound(store, m.round)
    BY <1>6, Taken DEF Kept
  <2>4. round \in Int /\ m.round \in Int
    <3>1. rxParents[1] \in Message /\ MaxRound \in Nat
      BY <1>6, Taken, ParentAggregationAssumption, Zenon
    <3>2. rxParents[1].round \in 0 .. MaxRound /\ round \in 0 .. MaxRound + 1
      BY <3>1, Zenon DEF Message, TypeOK
    <3>3. QED
      BY <3>1, <3>2
  <2> HIDE DEF m
  <2>5. lastParents' \subseteq OfRound(store, round')
    BY <2>1, <2>3, <2>4, Zenon DEF Kept
  <2>6. genesis' => round' = 0
    <3>1. genesis' => genesis /\ m.round <= round
      BY <2>1, Zenon
    <3>2. m.round <= round => ~(m.round > round)
      BY <2>4
    <3>3. QED
      BY <2>1, <3>1, <3>2, Zenon DEF Kept
  <2>7. QED
    BY <2>1, <2>2, <2>5, <2>6, Zenon DEF Kept, ParentsAccepted
<1>7. CASE MakeHeader
  <2>1. /\ header'.round = round + 1 /\ header'.parents = lastParents
        /\ lastParents' = {} /\ genesis' = FALSE
        /\ UNCHANGED <<store, certificates, recovering, sending, rxParents>>
    BY <1>7, Zenon DEF MakeHeader, aggregators
  <2>2. round \in Int
    BY ParentAggregationAssumption DEF TypeOK
  <2>3. ParentsAccepted'
    BY <2>1, <2>2 DEF ParentsAccepted, Kept, OfRound
  <2>4. QED
    BY <2>1, <2>3, Zenon DEF Kept
<1>8. CASE Restart
  <2>1. LastTwoRounds \subseteq store
    BY Zenon DEF LastTwoRounds
  <2>2. QED
    BY <1>8, <2>1 DEF Restart, Kept, ParentsAccepted, Nothing
<1>9. CASE UNCHANGED vars
  BY <1>9, Zenon DEF vars, aggregators, proposer, Kept, ParentsAccepted
<1>10. QED
  BY <1>1, <1>2, <1>3, <1>4, <1>5, <1>6, <1>7, <1>8, <1>9, Zenon DEF Next
-----------------------------------------------------------------------------
(* A certificate is its origin and its round.                              *)
LEMMA OnePerRound ==
    \A c \in Certificate : c = [origin |-> c.origin, round |-> c.round]
BY DEF Certificate

(* Each task appends only what its aggregator has not counted.             *)
LEMMA AppendsNew ==
    ASSUME TypeOK, Kept, Counted, NEW c \in Certificate,
           AcceptCertificate(c) \/ RecoverCertificate(c)
    PROVE  c.origin \notin used[c.round]
<1>1. c.round \in Round /\ c = [origin |-> c.origin, round |-> c.round]
  BY OnePerRound, Zenon DEF Certificate
<1>2. c \notin store \ recovering
  BY Zenon DEF AcceptCertificate, RecoverCertificate
<1>3. QED
  BY <1>1, <1>2 DEF Counted

(* An append counts the certificate, which the recovery task does not have *)
(* any more.                                                               *)
LEMMA AppendCounts ==
    ASSUME TypeOK, TypeOK', Kept, Counted, NEW t \in Task, NEW c \in Certificate,
           AppendCertificate(t, c), c.origin \notin used[c.round],
           store' = store \cup {c}, recovering' = recovering \ {c}
    PROVE  Counted'
<1> DEFINE r == c.round
<1>1. r \in Round /\ c = [origin |-> c.origin, round |-> r]
  BY OnePerRound, Zenon DEF Certificate
<1>2. /\ used'[r] = used[r] \cup {c.origin}
      /\ \A s \in Round \ {r} : used'[s] = used[s] /\ certificates'[s] = certificates[s]
      /\ \/ ReachedQuorum(used'[r]) /\ certificates'[r] = {}
         \/ ~ReachedQuorum(used'[r]) /\ certificates'[r] = certificates[r] \cup {c}
  BY AppendSplit, Zenon
<1>3. store \ recovering \subseteq store' \ recovering' /\ c \in store' \ recovering'
  BY Zenon
<1>4. ~ReachedQuorum(used'[r]) => ~ReachedQuorum(used[r])
  <2>1. used[r] \in SUBSET Authority /\ used'[r] \in SUBSET Authority
    BY <1>1, Zenon DEF TypeOK
  <2>2. used[r] \subseteq used'[r]
    BY <1>2, Zenon
  <2>3. QED
    BY <2>1, <2>2, QuorumMonotone, Zenon
<1> HIDE DEF r
<1>5. Origins(certificates[r] \cup {c}) = Origins(certificates[r]) \cup {c.origin}
  BY OriginsAdd, Zenon
<1> SUFFICES ASSUME NEW s \in Round
             PROVE  /\ \A o \in used'[s] :
                          [origin |-> o, round |-> s] \in store' \ recovering'
                    /\ ReachedQuorum(used'[s]) => certificates'[s] = {}
                    /\ ~ReachedQuorum(used'[s]) => Origins(certificates'[s]) = used'[s]
  BY Zenon DEF Counted, Origins
<1>6. CASE s # r
  <2>1. used'[s] = used[s] /\ certificates'[s] = certificates[s]
    BY <1>2, <1>6, Zenon
  <2>2. QED
    BY <1>3, <2>1, Zenon DEF Counted
<1>7. CASE s = r
  <2>1. \A o \in used[r] : [origin |-> o, round |-> r] \in store' \ recovering'
    BY <1>1, <1>3, Zenon DEF Counted
  <2>2. \A o \in used'[r] : [origin |-> o, round |-> r] \in store' \ recovering'
    BY <1>1, <1>2, <1>3, <2>1, Zenon
  <2>3. ~ReachedQuorum(used'[r]) => Origins(certificates'[r]) = used'[r]
    <3> SUFFICES ASSUME ~ReachedQuorum(used'[r]) PROVE Origins(certificates'[r]) = used'[r]
      BY Zenon
    <3>1. Origins(certificates[r]) = used[r]
      BY <1>1, <1>4, Zenon DEF Counted
    <3>2. certificates'[r] = certificates[r] \cup {c}
      BY <1>2, Zenon
    <3>3. QED
      BY <1>2, <1>5, <3>1, <3>2, Zenon
  <2>4. QED
    BY <1>2, <1>7, <2>2, <2>3, Zenon
<1>8. QED
  BY <1>6, <1>7, Zenon

(* The aggregators count what was appended.                                *)
LEMMA CountedStep == ASSUME TypeOK, TypeOK', Kept, Counted, [Next]_vars PROVE Counted'
<1>1. ASSUME NEW c \in Certificate, AcceptCertificate(c) PROVE Counted'
  <2>1. "acceptor" \in Task /\ AppendCertificate("acceptor", c)
        /\ store' = store \cup {c} /\ recovering' = recovering \ {c}
    BY <1>1, Zenon DEF AcceptCertificate, Task, Kept
  <2>2. c.origin \notin used[c.round]
    BY <1>1, AppendsNew, Zenon
  <2>3. QED
    BY <2>1, <2>2, AppendCounts, Zenon
<1>2. ASSUME NEW c \in Certificate, RecoverCertificate(c) PROVE Counted'
  <2>1. "recovery" \in Task /\ AppendCertificate("recovery", c)
        /\ store' = store \cup {c} /\ recovering' = recovering \ {c}
    BY <1>2, Zenon DEF RecoverCertificate, Task, Kept
  <2>2. c.origin \notin used[c.round]
    BY <1>2, AppendsNew, Zenon
  <2>3. QED
    BY <2>1, <2>2, AppendCounts, Zenon
<1>3. ASSUME NEW r \in Round, CollectAggregators(r) PROVE Counted'
  <2>1. UNCHANGED <<store, recovering>>
        /\ \A s \in Round : \/ used'[s] = used[s] /\ certificates'[s] = certificates[s]
                            \/ used'[s] = {} /\ certificates'[s] = {}
    BY <1>3, Zenon DEF CollectAggregators
  <2>2. Origins({}) = {}
    BY Zenon DEF Origins
  <2>3. QED
    BY <2>1, <2>2, Zenon DEF Counted, Origins
<1>4. CASE Restart
  <2>1. \A s \in Round : used'[s] = {} /\ certificates'[s] = {}
    BY <1>4, Zenon DEF Restart
  <2>2. Origins({}) = {}
    BY Zenon DEF Origins
  <2>3. QED
    BY <2>1, <2>2, Zenon DEF Counted, Origins
<1>5. CASE UNCHANGED <<store, recovering, used, certificates>>
  BY <1>5, Zenon DEF Counted, Origins
<1>6. (\/ \E t \in Task : SendParents(t)
       \/ \E r \in Round : SignalRound(r)
       \/ ReceiveParents \/ MakeHeader \/ UNCHANGED vars)
      => UNCHANGED <<store, recovering, used, certificates>>
  BY Zenon DEF SendParents, SignalRound, ReceiveParents, MakeHeader, vars,
     aggregators
<1>7. QED
  BY <1>1, <1>2, <1>3, <1>4, <1>5, <1>6, Zenon DEF Next
-----------------------------------------------------------------------------
(* A quorum of parents as the definitions of this module say it.           *)
LEMMA ParentsOf ==
    \A c : HasParents(c) <=> \/ c.round = 1 \/ c.round <= gcRound + 1
                             \/ IsQuorum(OfRound(store, c.round - 1))
BY Zenon DEF HasParents, IsQuorum, Origins, OfRound

(* Parents are not lost, as the store and the gc round only grow.          *)
LEMMA ParentsStay ==
    ASSUME TypeOK, TypeOK', store \subseteq store', gcRound <= gcRound',
           NEW c \in Certificate, HasParents(c)
    PROVE  HasParents(c)'
<1>1. c.round \in Int /\ gcRound \in Int /\ gcRound' \in Int
  BY ParentAggregationAssumption DEF TypeOK, Certificate, Round
<1>2. CASE c.round = 1 \/ c.round <= gcRound + 1
  <2>1. c.round = 1 \/ c.round <= gcRound' + 1
    BY <1>1, <1>2
  <2>2. QED
    BY <2>1, Zenon DEF HasParents
<1>3. CASE IsQuorum(OfRound(store, c.round - 1))
  <2> DEFINE S == OfRound(store, c.round - 1)
             T == OfRound(store', c.round - 1)
  <2>1. S \in SUBSET Certificate /\ T \in SUBSET Certificate /\ S \subseteq T
    BY Zenon DEF OfRound, TypeOK
  <2> HIDE DEF S, T
  <2>2. IsQuorum(T)
    BY <1>3, <2>1, QuorumGrows, Zenon DEF S
  <2>3. QED
    BY <2>2, Zenon DEF T, HasParents, IsQuorum, Origins, OfRound
<1>4. QED
  BY <1>2, <1>3, ParentsOf, Zenon

(* The store and the gc round never go back.                               *)
LEMMA StoreGrows ==
    ASSUME TypeOK, [Next]_vars
    PROVE  /\ gcRound <= gcRound'
           /\ \/ store' = store
              \/ \E c \in Certificate : HasParents(c) /\ store' = store \cup {c}
<1>1. gcRound \in Int
  BY ParentAggregationAssumption DEF TypeOK
<1>2. ASSUME NEW r \in Round, CollectAggregators(r)
      PROVE  gcRound <= gcRound' /\ store' = store
  BY <1>1, <1>2, ParentAggregationAssumption DEF CollectAggregators, Round
<1>3. ASSUME NEW c \in Certificate, AcceptCertificate(c)
      PROVE  HasParents(c) /\ store' = store \cup {c} /\ gcRound' = gcRound
  BY <1>3, Zenon DEF AcceptCertificate
<1>4. (\/ \E c \in Certificate : RecoverCertificate(c)
       \/ \E t \in Task : SendParents(t)
       \/ \E r \in Round : SignalRound(r)
       \/ ReceiveParents \/ MakeHeader \/ Restart \/ UNCHANGED vars)
      => store' = store /\ gcRound' = gcRound
  BY Zenon DEF RecoverCertificate, SendParents, SignalRound, ReceiveParents,
     MakeHeader,
         Restart, vars
<1>5. gcRound' = gcRound => gcRound <= gcRound'
  BY <1>1
<1>6. QED
  BY <1>2, <1>3, <1>4, <1>5, Zenon DEF Next

(* What is accepted has its parents, and one of it is the highest.         *)
LEMMA GroundedStep ==
    ASSUME TypeOK, TypeOK', Grounded, HasHighest, [Next]_vars
    PROVE  Grounded' /\ HasHighest'
<1>1. gcRound <= gcRound' /\ store \subseteq store'
  BY StoreGrows, Zenon
<1>2. \A c \in Certificate : HasParents(c) => HasParents(c)'
  BY <1>1, ParentsStay, Zenon
<1>3. store \subseteq Certificate
  BY Zenon DEF TypeOK
<1>4. Grounded'
  <2> SUFFICES ASSUME NEW c \in store' PROVE HasParents(c)'
    BY Zenon DEF Grounded
  <2>1. c \in Certificate /\ HasParents(c)
    BY <1>3, StoreGrows, Zenon DEF Grounded
  <2>2. QED
    BY <1>2, <2>1, Zenon
<1>5. HasHighest'
  <2>1. CASE store' = store
    BY <2>1, Zenon DEF HasHighest
  <2>2. ASSUME NEW c \in Certificate, store' = store \cup {c} PROVE HasHighest'
    <3>1. \A d \in store \cup {c} : d.round \in Int
      BY <1>3 DEF Certificate, Round
    <3>2. CASE store = {}
      BY <2>2, <3>1, <3>2 DEF HasHighest
    <3>3. CASE store # {}
      <4>1. PICK e \in store : \A d \in store : d.round <= e.round
        BY <3>3, Zenon DEF HasHighest
      <4>2. CASE c.round <= e.round
        BY <2>2, <4>1, <4>2, Zenon DEF HasHighest
      <4>3. CASE ~(c.round <= e.round)
        <5>1. \A d \in store \cup {c} : d.round <= c.round
          BY <3>1, <4>1, <4>3
        <5>2. QED
          BY <2>2, <5>1, Zenon DEF HasHighest
      <4>4. QED
        BY <4>2, <4>3, Zenon
    <3>4. QED
      BY <3>2, <3>3, Zenon
  <2>3. QED
    BY <2>1, <2>2, StoreGrows, Zenon
<1>6. QED
  BY <1>4, <1>5, Zenon
-----------------------------------------------------------------------------
(* After an append, what was on its way still is, and the certificate too. *)
LEMMA AppendTraces ==
    ASSUME TypeOK, TypeOK', Kept, Traced, NEW t \in Task, NEW c \in Certificate,
           AppendCertificate(t, c), c.origin \notin used[c.round],
           sending[t] = Nothing,
           store' = store \cup {c}, recovering' = recovering \ {c},
           UNCHANGED <<gcRound, rxParents, round, lastParents>>
    PROVE  Traced'
<1> DEFINE r == c.round
           all == certificates[r] \cup {c}
<1>1. /\ used'[r] = used[r] \cup {c.origin}
      /\ \A s \in Round \ {r} : used'[s] = used[s] /\ certificates'[s] = certificates[s]
      /\ \A u \in Task \ {t} : sending'[u] = sending[u]
      /\ \/ certificates'[r] = {} /\ sending'[t] = [parents |-> all, round |-> r]
         \/ certificates'[r] = all /\ sending'[t] = sending[t]
  BY AppendSplit, Zenon
<1>2. r \in Round /\ store \subseteq Certificate
  BY Zenon DEF Certificate, TypeOK
<1> HIDE DEF all, r
<1>3. \A d \in all : d \in certificates'[r] \/ d \in sending'[t].parents
  BY <1>1
<1>4. \A d \in store : Passed(d) => Passed(d)'
  BY Zenon DEF Passed
<1>5. \A d : d.round = r /\ d \in all => OnItsWay(d)'
  BY <1>3, Zenon DEF OnItsWay
<1>6. c \in all /\ certificates[r] \subseteq all /\ c.round = r
  BY Zenon DEF all, r
<1>7. c.origin \in used'[c.round] /\ OnItsWay(c)'
  BY <1>1, <1>5, <1>6, Zenon
<1>8. ASSUME NEW d \in store, OnItsWay(d) PROVE OnItsWay(d)'
  <2>1. d.round \in Round
    BY <1>2, Zenon DEF Certificate
  <2>2. CASE d \in certificates[d.round]
    <3>1. CASE d.round = r
      BY <1>5, <1>6, <2>2, <3>1, Zenon
    <3>2. CASE d.round # r
      BY <1>1, <2>1, <2>2, <3>2, Zenon DEF OnItsWay
    <3>3. QED
      BY <3>1, <3>2, Zenon
  <2>3. ASSUME NEW u \in Task, d \in sending[u].parents PROVE OnItsWay(d)'
    <3>1. u # t
      BY <2>3 DEF Nothing
    <3>2. QED
      BY <1>1, <2>3, <3>1, Zenon DEF OnItsWay
  <2>4. CASE \E i \in 1 .. Len(rxParents) : d \in rxParents[i].parents
    BY <2>4, Zenon DEF OnItsWay
  <2>5. QED
    BY <1>8, <2>2, <2>3, <2>4, Zenon DEF OnItsWay
<1>9. ASSUME NEW d \in store, d.origin \in used[d.round] PROVE d.origin \in used'[d.round]
  <2>1. d.round \in Round
    BY <1>2, Zenon DEF Certificate
  <2>2. QED
    BY <1>1, <1>9, <2>1, Zenon
<1>10. \A d \in store : Arrived(d) => Arrived(d)'
  BY Zenon DEF Arrived
<1> SUFFICES ASSUME NEW d \in store', d.round > gcRound'
             PROVE  \/ Passed(d)'
                    \/ d \in recovering'
                    \/ d.origin \in used'[d.round] /\ (OnItsWay(d)' \/ Arrived(d)')
  BY Zenon DEF Traced
<1>11. CASE d = c
  BY <1>7, <1>11, Zenon
<1>12. CASE d # c
  BY <1>4, <1>8, <1>9, <1>10, <1>12, Zenon DEF Traced
<1>13. QED
  BY <1>11, <1>12, Zenon

(* No accepted certificate is lost on its way to the proposer.             *)
LEMMA TracedStep ==
    ASSUME TypeOK, TypeOK', Kept, Counted, Traced, [Next]_vars
    PROVE  Traced'
<1>1. ASSUME NEW c \in Certificate, AcceptCertificate(c) PROVE Traced'
  <2>1. "acceptor" \in Task /\ AppendCertificate("acceptor", c)
        /\ sending["acceptor"] = Nothing
        /\ store' = store \cup {c} /\ recovering' = recovering \ {c}
        /\ UNCHANGED <<gcRound, rxParents, round, lastParents>>
    BY <1>1, Zenon DEF AcceptCertificate, Task, Kept, proposer
  <2>2. c.origin \notin used[c.round]
    BY <1>1, AppendsNew, Zenon
  <2>3. QED
    BY <2>1, <2>2, AppendTraces, Zenon
<1>2. ASSUME NEW c \in Certificate, RecoverCertificate(c) PROVE Traced'
  <2>1. "recovery" \in Task /\ AppendCertificate("recovery", c)
        /\ sending["recovery"] = Nothing
        /\ store' = store \cup {c} /\ recovering' = recovering \ {c}
        /\ UNCHANGED <<gcRound, rxParents, round, lastParents>>
    BY <1>2, Zenon DEF RecoverCertificate, Task, Kept, proposer
  <2>2. c.origin \notin used[c.round]
    BY <1>2, AppendsNew, Zenon
  <2>3. QED
    BY <2>1, <2>2, AppendTraces, Zenon
<1>3. ASSUME NEW t \in Task, SendParents(t) PROVE Traced'
  <2>1. UNCHANGED <<store, gcRound, used, certificates, recovering, round, lastParents>>
    BY <1>3, Zenon DEF SendParents, aggregators, proposer
  <2>2. ASSUME NEW c \in store, OnItsWay(c) PROVE OnItsWay(c)'
    <3>1. \A i \in 1 .. Len(rxParents) :
             i \in 1 .. Len(rxParents') /\ rxParents'[i] = rxParents[i]
      BY <1>3, Sent
    <3>2. /\ Len(rxParents) + 1 \in 1 .. Len(rxParents')
          /\ rxParents'[Len(rxParents) + 1] = sending[t]
      BY <1>3, Sent
    <3>3. \A u \in Task : u = t \/ sending'[u] = sending[u]
      BY <1>3, Sent, Zenon
    <3>4. QED
      BY <2>1, <2>2, <3>1, <3>2, <3>3, Zenon DEF OnItsWay
  <2>3. \A c \in store : (Arrived(c) => Arrived(c)') /\ (Passed(c) => Passed(c)')
    BY <2>1, Zenon DEF Arrived, Passed
  <2>4. QED
    BY <2>1, <2>2, <2>3, Zenon DEF Traced
<1>4. ASSUME NEW r \in Round, CollectAggregators(r) PROVE Traced'
  <2>1. /\ UNCHANGED <<store, recovering, sending, rxParents, round, lastParents>>
        /\ gcRound' = r /\ r > gcRound
        /\ \A s \in Round : s > r => used'[s] = used[s] /\ certificates'[s] = certificates[s]
    BY <1>4, Zenon DEF CollectAggregators, proposer
  <2>2. r \in Int /\ gcRound \in Int /\ \A c \in store : c.round \in Round /\ c.round \in Int
    BY ParentAggregationAssumption DEF TypeOK, Round, Certificate
  <2> SUFFICES ASSUME NEW c \in store, c.round > r
               PROVE  \/ Passed(c)'
                      \/ c \in recovering'
                      \/ c.origin \in used'[c.round] /\ (OnItsWay(c)' \/ Arrived(c)')
    BY <2>1, Zenon DEF Traced
  <2>3. c.round > gcRound /\ c.round \in Round
    BY <2>1, <2>2
  <2>4. used'[c.round] = used[c.round] /\ certificates'[c.round] = certificates[c.round]
    BY <2>1, <2>3, Zenon
  <2>5. /\ Passed(c) => Passed(c)'
        /\ Arrived(c) => Arrived(c)'
        /\ OnItsWay(c) => OnItsWay(c)'
    BY <2>1, <2>4, Zenon DEF Passed, Arrived, OnItsWay
  <2>6. QED
    BY <2>1, <2>3, <2>4, <2>5, Zenon DEF Traced
<1>5. ASSUME NEW r \in Round, SignalRound(r) PROVE Traced'
  <2>1. /\ UNCHANGED <<store, gcRound, used, certificates, recovering, sending, round,
                       lastParents>>
        /\ rxParents = <<>>
    BY <1>5, Zenon DEF SignalRound, aggregators, proposer
  <2>2. 1 .. Len(rxParents) = {}
    BY <2>1
  <2>3. \A c : OnItsWay(c) => OnItsWay(c)'
    BY <2>1, <2>2, Zenon DEF OnItsWay
  <2>4. \A c : (Arrived(c) => Arrived(c)') /\ (Passed(c) => Passed(c)')
    BY <2>1, Zenon DEF Arrived, Passed
  <2>5. QED
    BY <2>1, <2>3, <2>4, Zenon DEF Traced
<1>6. CASE ReceiveParents
  <2> DEFINE m == rxParents[1]
  <2>1. /\ round' = IF m.round > round THEN m.round ELSE round
        /\ lastParents' = IF m.round > round THEN m.parents
                          ELSE IF m.round = round THEN lastParents \cup m.parents
                          ELSE lastParents
        /\ UNCHANGED <<store, gcRound, used, certificates, recovering, sending>>
    BY <1>6, Taken, Zenon DEF ReceiveParents, aggregators
  <2>2. round \in Int /\ m.round \in Int /\ \A c \in store : c.round \in Int
    <3>1. rxParents[1] \in Message /\ MaxRound \in Nat
      BY <1>6, Taken, ParentAggregationAssumption, Zenon
    <3>2. rxParents[1].round \in 0 .. MaxRound /\ round \in 0 .. MaxRound + 1
          /\ \A c \in store : c.round \in 1 .. MaxRound
      BY <3>1, Zenon DEF Message, TypeOK, Certificate, Round
    <3>3. QED
      BY <3>1, <3>2
  <2>3. \A c \in m.parents : c.round = m.round
    BY <1>6, Taken DEF Kept, OfRound
  <2>4. \A i \in 1 .. Len(rxParents) :
           i = 1 \/ (i - 1 \in 1 .. Len(rxParents') /\ rxParents'[i - 1] = rxParents[i])
    <3> SUFFICES ASSUME NEW i \in 1 .. Len(rxParents), i # 1
                 PROVE  i - 1 \in 1 .. Len(rxParents') /\ rxParents'[i - 1] = rxParents[i]
      BY Zenon
    <3>1. i - 1 \in 1 .. Len(rxParents') /\ (i - 1) + 1 = i
      BY <1>6, Taken
    <3>2. QED
      BY <1>6, <3>1, Taken, Zenon
  <2>5. \A c : OnItsWay(c) => OnItsWay(c)' \/ c \in m.parents
    BY <2>1, <2>4, Zenon DEF OnItsWay
  <2> HIDE DEF m
  <2>6. \A c \in store : c \in m.parents \/ Arrived(c) => Arrived(c)'
    BY <2>1, <2>2, <2>3 DEF Arrived
  <2>7. \A c : Passed(c) => Passed(c)'
    BY <2>1, Zenon DEF Passed
  <2>8. QED
    BY <2>1, <2>5, <2>6, <2>7, Zenon DEF Traced
<1>7. CASE MakeHeader
  <2>1. /\ round' = round + 1
        /\ UNCHANGED <<store, gcRound, used, certificates, recovering, sending, rxParents>>
    BY <1>7, Zenon DEF MakeHeader, aggregators
  <2>2. round \in Int /\ \A c \in store : c.round \in Int
    BY ParentAggregationAssumption DEF TypeOK, Certificate, Round
  <2>3. \A c \in store : Arrived(c) => Arrived(c)'
    BY <2>1, <2>2 DEF Arrived
  <2>4. \A c : (OnItsWay(c) => OnItsWay(c)') /\ (Passed(c) => Passed(c)')
    BY <2>1, Zenon DEF OnItsWay, Passed
  <2>5. QED
    BY <2>1, <2>3, <2>4, Zenon DEF Traced
<1>8. CASE Restart
  <2>1. store' = store /\ recovering' = LastTwoRounds
    BY <1>8, Zenon DEF Restart
  <2>2. \A c \in store : c.round \in Int
    BY DEF TypeOK, Certificate, Round
  <2>3. \A c \in store : c \in LastTwoRounds \/ Passed(c)'
    BY <2>1, <2>2 DEF LastTwoRounds, Passed
  <2>4. QED
    BY <2>1, <2>3, Zenon DEF Traced
<1>9. CASE UNCHANGED vars
  BY <1>9, Zenon DEF vars, aggregators, proposer, Traced, Passed, OnItsWay,
     Arrived
<1>10. QED
  BY <1>1, <1>2, <1>3, <1>4, <1>5, <1>6, <1>7, <1>8, <1>9, Zenon DEF Next
-----------------------------------------------------------------------------
(* A round that is backed by messages stays so when one of them is taken.  *)
LEMMA TakenBacks ==
    ASSUME TypeOK, TypeOK', Kept, ReceiveParents,
           NEW r \in Int, NEW n \in 0 .. Len(rxParents), NEW k \in Nat, k = n - 1 \/ k = n,
           k <= Len(rxParents'), Backed(rxParents, round, lastParents, r, n)
    PROVE  Backed(rxParents', round', lastParents', r, k)
<1> DEFINE m == rxParents[1]
<1>1. /\ round' = IF m.round > round THEN m.round ELSE round
      /\ lastParents' = IF m.round > round THEN m.parents
                        ELSE IF m.round = round THEN lastParents \cup m.parents
                        ELSE lastParents
  BY Taken, Zenon DEF ReceiveParents
<1>2. round \in Int /\ m.round \in Int
  <2>1. rxParents[1] \in Message /\ MaxRound \in Nat
    BY Taken, ParentAggregationAssumption, Zenon
  <2>2. rxParents[1].round \in 0 .. MaxRound /\ round \in 0 .. MaxRound + 1
    BY <2>1, Zenon DEF Message, TypeOK
  <2>3. QED
    BY <2>1, <2>2
<1>3. /\ lastParents \in SUBSET Certificate /\ lastParents' \in SUBSET Certificate
      /\ m.parents \in SUBSET Certificate
  BY Taken, Zenon DEF TypeOK, Message
<1>4. Len(rxParents) \in Nat \ {0} /\ Len(rxParents') = Len(rxParents) - 1
      /\ \A i \in 1 .. Len(rxParents') : rxParents'[i] = rxParents[i + 1]
  BY Taken, Zenon
<1> HIDE DEF m
<1>5. \/ round' > r
      \/ round' = r /\ IsQuorum(lastParents')
      \/ \E j \in 1 .. k : rxParents'[j].round = r /\ IsQuorum(rxParents'[j].parents)
  <2>1. CASE round > r
    BY <1>1, <1>2, <2>1
  <2>2. CASE round = r /\ IsQuorum(lastParents)
    <3>1. CASE m.round > round
      BY <1>1, <1>2, <2>2, <3>1, Zenon
    <3>2. CASE ~(m.round > round)
      <4>1. round' = r /\ lastParents \subseteq lastParents'
        BY <1>1, <2>2, <3>2, Zenon
      <4>2. QED
        BY <1>3, <2>2, <4>1, QuorumGrows, Zenon
    <3>3. QED
      BY <3>1, <3>2, Zenon
  <2>3. ASSUME NEW j \in 1 .. n, rxParents[j].round = r, IsQuorum(rxParents[j].parents)
        PROVE  \/ round' > r
               \/ round' = r /\ IsQuorum(lastParents')
               \/ \E i \in 1 .. k : rxParents'[i].round = r /\ IsQuorum(rxParents'[i].parents)
    <3>1. CASE j = 1
      <4>1. m.round = r /\ IsQuorum(m.parents)
        BY <2>3, <3>1, Zenon DEF m
      <4>2. CASE r < round
        BY <1>1, <1>2, <4>1, <4>2, Zenon
      <4>3. CASE ~(r < round)
        <5>1. round' = r /\ m.parents \subseteq lastParents'
          BY <1>1, <1>2, <4>1, <4>3
        <5>2. QED
          BY <1>3, <4>1, <5>1, QuorumGrows, Zenon
      <4>4. QED
        BY <4>2, <4>3, Zenon
    <3>2. CASE j # 1
      <4>1. j - 1 \in 1 .. k /\ j - 1 \in 1 .. Len(rxParents') /\ (j - 1) + 1 = j
        BY <1>4, <3>2
      <4>2. rxParents'[j - 1] = rxParents[j]
        BY <1>4, <4>1, Zenon
      <4>3. QED
        BY <2>3, <4>1, <4>2, Zenon
    <3>3. QED
      BY <3>1, <3>2, Zenon
  <2>4. QED
    BY <2>1, <2>2, <2>3, Zenon DEF Backed
<1>6. QED
  BY <1>5, Zenon DEF Backed

(* What is ahead of a message that the acceptor appends: the drained       *)
(* certificates weigh a quorum, or the quorum was drained before.          *)
LEMMA AcceptedFirst ==
    ASSUME TypeOK, TypeOK', Kept, Counted, QuorumFirst, crashes = 0,
           NEW c \in Certificate, AcceptCertificate(c)
    PROVE  QuorumFirst'
<1> DEFINE r == c.round
           all == certificates[r] \cup {c}
           m == sending'["acceptor"]
<1>1. /\ sending["acceptor"] = Nothing /\ AppendCertificate("acceptor", c)
      /\ UNCHANGED <<recovering, rxParents, round, lastParents, crashes>>
      /\ "acceptor" \in Task /\ "recovery" \in Task \ {"acceptor"}
  BY Zenon DEF AcceptCertificate, Task, proposer
<1>2. r \in Round /\ c.origin \notin used[r] /\ Nothing.parents = {} /\ Nothing.round \notin Round
  BY AppendsNew DEF Certificate, Nothing, Round
<1>3. /\ used'[r] = used[r] \cup {c.origin}
      /\ \A s \in Round \ {r} : used'[s] = used[s]
      /\ sending'["recovery"] = sending["recovery"]
      /\ \/ ReachedQuorum(used'[r]) /\ m = [parents |-> all, round |-> r]
         \/ ~ReachedQuorum(used'[r]) /\ m = Nothing
  BY <1>1, <1>2, AppendSplit, Zenon
<1>4. IsQuorum(all) \/ Backed(rxParents, round, lastParents, r, Len(rxParents)) \/ ~ReachedQuorum(used'[r])
  <2>1. CASE ReachedQuorum(used[r])
    BY <1>1, <1>2, <2>1, Zenon DEF QuorumFirst
  <2>2. CASE ~ReachedQuorum(used[r])
    <3>1. Origins(certificates[r]) = used[r]
      BY <1>2, <2>2, Zenon DEF Counted
    <3>2. Origins(all) = used'[r]
      BY <1>3, <3>1, OriginsAdd
    <3>3. QED
      BY <3>2, Zenon DEF IsQuorum
  <2>3. QED
    BY <2>1, <2>2, Zenon
<1> HIDE DEF r, all, m
<1>5. \/ m.parents = {} \/ IsQuorum(m.parents)
      \/ Backed(rxParents, round, lastParents, m.round, Len(rxParents))
  <2>1. CASE m = Nothing
    BY <1>2, <2>1, Zenon
  <2>2. CASE ReachedQuorum(used'[r]) /\ m = [parents |-> all, round |-> r]
    <3>1. m.parents = all /\ m.round = r
      BY <2>2, Zenon
    <3>2. QED
      BY <1>4, <2>2, <3>1, Zenon
  <2>3. QED
    BY <1>3, <2>1, <2>2, Zenon
<1>6. ASSUME NEW s \in Round, ReachedQuorum(used'[s])
      PROVE  \/ Backed(rxParents, round, lastParents, s, Len(rxParents))
             \/ m.round = s /\ IsQuorum(m.parents)
  <2>1. CASE s = r
    <3>1. m.parents = all /\ m.round = r
      BY <1>3, <1>6, <2>1
    <3>2. QED
      BY <1>4, <1>6, <2>1, <3>1, Zenon
  <2>2. CASE s # r
    <3>1. ReachedQuorum(used[s])
      BY <1>3, <1>6, <2>2, Zenon
    <3>2. QED
      BY <1>1, <1>2, <3>1, Zenon DEF QuorumFirst
  <2>3. QED
    BY <2>1, <2>2, Zenon
<1>7. QED
  BY <1>1, <1>3, <1>5, <1>6, Zenon DEF QuorumFirst, m

(* The quorum of a round comes first while the acceptor alone appends.     *)
LEMMA QuorumFirstStep ==
    ASSUME TypeOK, TypeOK', Kept, Counted, QuorumFirst, [Next]_vars
    PROVE  QuorumFirst'
<1> SUFFICES ASSUME crashes' = 0 PROVE QuorumFirst'
  BY Zenon DEF QuorumFirst
<1>1. crashes \in Nat /\ Len(rxParents) \in Nat /\ "acceptor" \in Task
  BY ParentAggregationAssumption DEF TypeOK, Task
<1>2. Nothing.parents = {}
  BY Zenon DEF Nothing
<1>3. ASSUME NEW c \in Certificate, AcceptCertificate(c) PROVE QuorumFirst'
  <2>1. crashes = 0
    BY <1>3, Zenon DEF AcceptCertificate
  <2>2. QED
    BY <1>3, <2>1, AcceptedFirst, Zenon
<1>4. ASSUME NEW c \in Certificate, RecoverCertificate(c) PROVE QuorumFirst'
  <2>1. crashes = 0 /\ recovering # {}
    BY <1>4, Zenon DEF RecoverCertificate
  <2>2. QED
    BY <2>1, Zenon DEF QuorumFirst
<1>5. ASSUME NEW t \in Task, SendParents(t) PROVE QuorumFirst'
  <2>1. /\ crashes = 0 /\ sending[t] # Nothing
        /\ UNCHANGED <<used, recovering, round, lastParents, crashes>>
    BY <1>5, Zenon DEF SendParents, aggregators, proposer
  <2>2. t = "acceptor" /\ "recovery" \in Task \ {t}
    BY <2>1, Zenon DEF QuorumFirst, Task
  <2> DEFINE n == Len(rxParents)
             m == sending["acceptor"]
  <2>3. /\ n \in Nat /\ Len(rxParents') = n + 1
        /\ \A i \in 1 .. n : rxParents'[i] = rxParents[i]
        /\ rxParents'[n + 1] = m
        /\ sending'["acceptor"] = Nothing /\ sending'["recovery"] = sending["recovery"]
    BY <1>5, <2>2, Sent, Zenon
  <2>4. \A r, k : Backed(rxParents, round, lastParents, r, k) /\ k \in 0 .. n
                     => Backed(rxParents', round, lastParents, r, k)
    <3> SUFFICES ASSUME NEW r, NEW k \in 0 .. n, Backed(rxParents, round, lastParents, r, k)
                 PROVE  Backed(rxParents', round, lastParents, r, k)
      BY Zenon
    <3>1. \A j \in 1 .. k : rxParents'[j] = rxParents[j]
      BY <2>3
    <3>2. QED
      BY <3>1, Zenon DEF Backed
  <2>5. ASSUME NEW i \in 1 .. n + 1
        PROVE  \/ rxParents'[i].parents = {}
               \/ IsQuorum(rxParents'[i].parents)
               \/ Backed(rxParents', round, lastParents, rxParents'[i].round, i - 1)
    <3>1. CASE i \in 1 .. n
      <4>1. i - 1 \in 0 .. n /\ rxParents'[i] = rxParents[i]
        BY <2>3, <3>1
      <4>2. \/ rxParents[i].parents = {}
            \/ IsQuorum(rxParents[i].parents)
            \/ Backed(rxParents, round, lastParents, rxParents[i].round, i - 1)
        BY <2>1, <3>1, Zenon DEF QuorumFirst
      <4>3. QED
        BY <2>4, <4>1, <4>2, Zenon
    <3>2. CASE i = n + 1
      <4>1. i - 1 = n /\ n \in 0 .. n /\ rxParents'[i] = m
        BY <2>3, <3>2
      <4>2. m.parents = {} \/ IsQuorum(m.parents)
            \/ Backed(rxParents, round, lastParents, m.round, n)
        BY <2>1, Zenon DEF QuorumFirst
      <4>3. QED
        BY <2>4, <4>1, <4>2, Zenon
    <3>3. i \in 1 .. n \/ i = n + 1
      BY <2>3
    <3>4. QED
      BY <3>1, <3>2, <3>3, Zenon
  <2>6. ASSUME NEW r \in Round, ReachedQuorum(used[r])
        PROVE  Backed(rxParents', round, lastParents, r, n + 1)
    <3>1. \/ Backed(rxParents, round, lastParents, r, n)
          \/ m.round = r /\ IsQuorum(m.parents)
      BY <2>1, <2>6, Zenon DEF QuorumFirst
    <3>2. CASE Backed(rxParents, round, lastParents, r, n)
      <4>1. n \in 0 .. n /\ 1 .. n \subseteq 1 .. n + 1
        BY <2>3
      <4> HIDE DEF n
      <4>2. Backed(rxParents', round, lastParents, r, n)
        BY <2>4, <3>2, <4>1, Zenon
      <4>3. QED
        BY <4>1, <4>2, Zenon DEF Backed
    <3>3. CASE m.round = r /\ IsQuorum(m.parents)
      <4>1. n + 1 \in 1 .. n + 1 /\ rxParents'[n + 1] = m
        BY <2>3
      <4> HIDE DEF n, m
      <4>2. QED
        BY <3>3, <4>1, Zenon DEF Backed
    <3>4. QED
      BY <3>1, <3>2, <3>3, Zenon
  <2> HIDE DEF n, m
  <2>7. recovering = {} /\ sending["recovery"] = Nothing
        /\ (lastParents # {} => IsQuorum(lastParents))
    BY <2>1, Zenon DEF QuorumFirst
  <2>8. QED
    BY <1>2, <2>1, <2>3, <2>5, <2>6, <2>7, Zenon DEF QuorumFirst
<1>6. ASSUME NEW r \in Round, CollectAggregators(r) PROVE QuorumFirst'
  <2>1. /\ UNCHANGED <<recovering, sending, rxParents, round, lastParents, crashes>>
        /\ \A s \in Round : used'[s] = used[s] \/ used'[s] = {}
    BY <1>6, Zenon DEF CollectAggregators, proposer
  <2>2. \A s \in Round : ReachedQuorum(used'[s]) => ReachedQuorum(used[s])
    BY <2>1, NoneIsNoQuorum, Zenon
  <2>3. QED
    BY <2>1, <2>2, Zenon DEF QuorumFirst
<1>7. ASSUME NEW r \in Round, SignalRound(r) PROVE QuorumFirst'
  <2>1. /\ UNCHANGED <<used, recovering, sending, round, lastParents, crashes>>
        /\ Len(rxParents) = 0 /\ Len(rxParents') = 1 /\ rxParents'[1].parents = {}
        /\ crashes = 0
    BY <1>7, Zenon DEF SignalRound, aggregators, proposer
  <2>2. \A s : Backed(rxParents, round, lastParents, s, 0)
                  => Backed(rxParents', round, lastParents, s, 1)
    BY DEF Backed
  <2>3. \A i \in 1 .. 1 : rxParents'[i].parents = {}
    BY <2>1
  <2>4. QED
    BY <2>1, <2>2, <2>3, Zenon DEF QuorumFirst
<1>8. CASE ReceiveParents
  <2> DEFINE m == rxParents[1]
             n == Len(rxParents')
  <2>1. /\ round' = IF m.round > round THEN m.round ELSE round
        /\ lastParents' = IF m.round > round THEN m.parents
                          ELSE IF m.round = round THEN lastParents \cup m.parents
                          ELSE lastParents
        /\ UNCHANGED <<used, recovering, sending, crashes>>
        /\ crashes = 0
    BY <1>8, Taken, Zenon DEF ReceiveParents, aggregators
  <2>2. /\ Len(rxParents) \in Nat \ {0} /\ n = Len(rxParents) - 1
        /\ \A i \in 1 .. n : rxParents'[i] = rxParents[i + 1]
        /\ rxParents[1] \in Message
    BY <1>8, Taken, Zenon
  <2>3. n \in Nat /\ Len(rxParents) = n + 1
    BY <2>2
  <2>4. /\ round \in Int /\ m.round \in Int
        /\ \A i \in 1 .. n + 1 : rxParents[i].round \in Int
        /\ sending["acceptor"].round \in Int /\ Round \subseteq Int
    <3>1. MaxRound \in Nat /\ \A x \in Message : x.round \in Int
      BY ParentAggregationAssumption DEF Message
    <3>2. round \in Int /\ \A i \in 1 .. n + 1 : rxParents[i] \in Message
      BY <2>3, <3>1 DEF TypeOK
    <3>3. sending["acceptor"] \in Message
      BY <1>1, Zenon DEF TypeOK
    <3>4. QED
      BY <2>2, <3>1, <3>2, <3>3 DEF Round
  <2>5. /\ m.parents \in SUBSET Certificate /\ lastParents \in SUBSET Certificate
        /\ lastParents' \in SUBSET Certificate
    BY <2>2, Zenon DEF Message, TypeOK
  <2>6. \A r \in Int : \A k \in 0 .. n :
           Backed(rxParents, round, lastParents, r, k + 1)
              => Backed(rxParents', round', lastParents', r, k)
    <3> SUFFICES ASSUME NEW r \in Int, NEW k \in 0 .. n,
                        Backed(rxParents, round, lastParents, r, k + 1)
                 PROVE  Backed(rxParents', round', lastParents', r, k)
      BY Zenon
    <3>1. k \in Nat /\ k + 1 \in 0 .. Len(rxParents) /\ k = (k + 1) - 1 /\ k <= Len(rxParents')
      BY <2>3
    <3>2. QED
      BY <1>8, <3>1, TakenBacks, Zenon
  <2>7. ASSUME NEW i \in 1 .. n
        PROVE  \/ rxParents'[i].parents = {}
               \/ IsQuorum(rxParents'[i].parents)
               \/ Backed(rxParents', round', lastParents', rxParents'[i].round, i - 1)
    <3>1. /\ i + 1 \in 1 .. Len(rxParents) /\ (i + 1) - 1 = (i - 1) + 1
          /\ i - 1 \in 0 .. n /\ i + 1 \in 1 .. n + 1
      BY <2>3
    <3>2. \/ rxParents[i + 1].parents = {}
          \/ IsQuorum(rxParents[i + 1].parents)
          \/ Backed(rxParents, round, lastParents, rxParents[i + 1].round, (i - 1) + 1)
      BY <2>1, <3>1, Zenon DEF QuorumFirst
    <3>3. rxParents'[i] = rxParents[i + 1]
      BY <2>2, Zenon
    <3>4. QED
      BY <2>4, <2>6, <3>1, <3>2, <3>3, Zenon
  <2>8. \/ m.parents = {} \/ IsQuorum(m.parents)
        \/ round > m.round \/ (round = m.round /\ IsQuorum(lastParents))
    <3>1. 1 \in 1 .. Len(rxParents) /\ 1 - 1 = 0 /\ 1 .. 0 = {}
      BY <2>2
    <3>2. \/ m.parents = {} \/ IsQuorum(m.parents)
          \/ Backed(rxParents, round, lastParents, m.round, 0)
      BY <2>1, <3>1, Zenon DEF QuorumFirst
    <3>3. QED
      BY <3>1, <3>2, Zenon DEF Backed
  <2>9. n \in 0 .. n
    BY <2>3
  <2> HIDE DEF m, n
  <2>10. lastParents # {} => IsQuorum(lastParents)
    BY <2>1, Zenon DEF QuorumFirst
  <2>11. lastParents' # {} => IsQuorum(lastParents')
    <3>1. CASE m.round > round
      BY <2>1, <2>4, <2>8, <3>1
    <3>2. CASE m.round = round
      <4>1. lastParents' = lastParents \cup m.parents
        BY <2>1, <2>4, <3>2
      <4>2. CASE IsQuorum(lastParents)
        BY <2>5, <4>1, <4>2, QuorumGrows, Zenon
      <4>3. CASE IsQuorum(m.parents)
        BY <2>5, <4>1, <4>3, QuorumGrows, Zenon
      <4>4. QED
        BY <2>4, <2>8, <2>10, <3>2, <4>1, <4>2, <4>3
    <3>3. CASE m.round < round
      BY <2>1, <2>4, <2>10, <3>3
    <3>4. QED
      BY <2>4, <3>1, <3>2, <3>3
  <2>12. \/ sending["acceptor"].parents = {}
         \/ IsQuorum(sending["acceptor"].parents)
         \/ Backed(rxParents', round', lastParents', sending["acceptor"].round, n)
    <3>1. \/ sending["acceptor"].parents = {}
          \/ IsQuorum(sending["acceptor"].parents)
          \/ Backed(rxParents, round, lastParents, sending["acceptor"].round, n + 1)
      BY <2>1, <2>3, Zenon DEF QuorumFirst
    <3>2. sending["acceptor"].round \in Int
      BY <2>4, Zenon
    <3>3. QED
      BY <2>6, <2>9, <3>1, <3>2, Zenon
  <2>13. ASSUME NEW r \in Round, ReachedQuorum(used[r])
         PROVE  \/ Backed(rxParents', round', lastParents', r, n)
                \/ sending["acceptor"].round = r /\ IsQuorum(sending["acceptor"].parents)
    <3>1. \/ Backed(rxParents, round, lastParents, r, n + 1)
          \/ sending["acceptor"].round = r /\ IsQuorum(sending["acceptor"].parents)
      BY <2>1, <2>3, <2>13, Zenon DEF QuorumFirst
    <3>2. r \in Int
      BY <2>4, Zenon
    <3>3. QED
      BY <2>6, <2>9, <3>1, <3>2, Zenon
  <2>14. recovering = {} /\ sending["recovery"] = Nothing
    BY <2>1, Zenon DEF QuorumFirst
  <2>15. QED
    BY <2>1, <2>7, <2>11, <2>12, <2>13, <2>14, Zenon DEF QuorumFirst, n
<1>9. CASE MakeHeader
  <2>1. /\ round' = round + 1 /\ lastParents' = {}
        /\ UNCHANGED <<used, recovering, sending, rxParents, crashes>>
    BY <1>9, Zenon DEF MakeHeader, aggregators
  <2>2. round \in Int /\ Round \subseteq Int /\ \A x \in Message : x.round \in Int
    BY ParentAggregationAssumption DEF TypeOK, Round, Message
  <2>3. \A r \in Int : \A k : Backed(rxParents, round, lastParents, r, k)
                             => Backed(rxParents, round', lastParents', r, k)
    BY <2>1, <2>2 DEF Backed
  <2>4. /\ sending["acceptor"].round \in Int
        /\ \A i \in 1 .. Len(rxParents) : rxParents[i].round \in Int
    BY <1>1, <2>2 DEF TypeOK
  <2>5. QED
    BY <2>1, <2>2, <2>3, <2>4, Zenon DEF QuorumFirst
<1>10. CASE Restart
  BY <1>1, <1>10 DEF Restart
<1>11. CASE UNCHANGED vars
  BY <1>11, Zenon DEF vars, aggregators, proposer, QuorumFirst
<1>12. QED
  BY <1>3, <1>4, <1>5, <1>6, <1>7, <1>8, <1>9, <1>10, <1>11, Zenon DEF Next

(* A header is made of a quorum, until a restart.                          *)
LEMMA HeaderStep ==
    ASSUME TypeOK, Kept, QuorumFirst, HeaderHasQuorum, [Next]_vars
    PROVE  HeaderHasQuorum'
<1>1. MaxRound \in Nat /\ round \in Nat /\ header.round \in Nat
  BY ParentAggregationAssumption DEF TypeOK
<1>2. CASE MakeHeader
  <2>1. /\ header'.round = round + 1 /\ header'.parents = lastParents
        /\ crashes' = crashes /\ (lastParents # {} \/ genesis)
    BY <1>2, Zenon DEF MakeHeader
  <2>2. SUFFICES ASSUME round + 1 > 1, crashes = 0 PROVE IsQuorum(lastParents)
    BY <2>1, Zenon DEF HeaderHasQuorum, IsQuorum, Origins
  <2>3. round # 0
    BY <1>1, <2>2
  <2>4. lastParents # {}
    BY <2>1, <2>3, Zenon DEF Kept
  <2>5. QED
    BY <2>2, <2>4, Zenon DEF QuorumFirst
<1>3. CASE Restart
  <2>1. header'.round = 0
    BY <1>3, Zenon DEF Restart, Nothing
  <2>2. QED
    BY <2>1 DEF HeaderHasQuorum
<1>4. CASE UNCHANGED <<header, crashes>>
  BY <1>4, Zenon DEF HeaderHasQuorum
<1>5. (\/ \E c \in Certificate : AcceptCertificate(c) \/ RecoverCertificate(c)
       \/ \E t \in Task : SendParents(t)
       \/ \E r \in Round : CollectAggregators(r) \/ SignalRound(r)
       \/ ReceiveParents \/ UNCHANGED vars)
      => UNCHANGED <<header, crashes>>
  BY Zenon DEF AcceptCertificate, RecoverCertificate, SendParents,
     CollectAggregators,
         SignalRound, ReceiveParents, vars, proposer
<1>6. QED
  BY <1>2, <1>3, <1>4, <1>5, Zenon DEF Next

(* The invariant holds at the start.                                       *)
LEMMA InvInit == Init => Inv
<1> SUFFICES ASSUME Init PROVE Inv
  BY Zenon
<1>1. MaxRound \in Nat /\ MaxCrash \in Nat
  BY ParentAggregationAssumption, Zenon
<1>2. TypeOK
  <2>1. Nothing \in Message /\ <<>> \in Seq(Message)
    BY <1>1 DEF Nothing, Message
  <2>2. header \in [round : 0 .. MaxRound + 1, parents : SUBSET Certificate]
    BY <1>1 DEF Init, Nothing
  <2>3. QED
    BY <1>1, <2>1, <2>2 DEF Init, TypeOK
<1>3. Kept
  <2>1. header.parents = {} /\ \A t \in Task : sending[t].parents = {}
    BY Zenon DEF Init, Nothing
  <2>2. ParentsAccepted
    BY <2>1, Zenon DEF ParentsAccepted
  <2>3. QED
    BY <2>1, <2>2 DEF Init, Kept
<1>4. Origins({}) = {}
  BY Zenon DEF Origins
<1>5. Counted
  BY <1>4, Zenon DEF Init, Counted
<1>6. Grounded /\ HasHighest /\ Traced
  BY Zenon DEF Init, Grounded, HasHighest, Traced
<1>7. QuorumFirst
  <2>1. "acceptor" \in Task /\ "recovery" \in Task
    BY Zenon DEF Task
  <2>2. /\ sending["acceptor"].parents = {} /\ sending["recovery"] = Nothing
        /\ recovering = {} /\ lastParents = {}
    BY <2>1, Zenon DEF Init, Nothing
  <2>3. 1 .. Len(rxParents) = {}
    BY DEF Init
  <2>4. \A r \in Round : ~ReachedQuorum(used[r])
    BY NoneIsNoQuorum, Zenon DEF Init
  <2>5. QED
    BY <2>2, <2>3, <2>4, Zenon DEF QuorumFirst
<1>8. HeaderHasQuorum
  <2>1. header.round = 0
    BY Zenon DEF Init, Nothing
  <2>2. QED
    BY <2>1 DEF HeaderHasQuorum
<1>9. QED
  BY <1>2, <1>3, <1>5, <1>6, <1>7, <1>8, Zenon DEF Inv

(* Every step preserves the invariant.                                     *)
LEMMA InvStep == Inv /\ [Next]_vars => Inv'
<1> SUFFICES ASSUME Inv, [Next]_vars PROVE Inv'
  BY Zenon
<1>1. /\ TypeOK /\ Kept /\ Counted /\ Grounded /\ HasHighest
      /\ Traced /\ QuorumFirst /\ HeaderHasQuorum
  BY Zenon DEF Inv
<1>2. TypeOK'
  BY <1>1, TypesStep, Zenon
<1>3. Kept' /\ Counted' /\ Grounded' /\ HasHighest' /\ Traced'
  BY <1>1, <1>2, KeptStep, CountedStep, GroundedStep, TracedStep, Zenon
<1>4. QuorumFirst' /\ HeaderHasQuorum'
  BY <1>1, <1>2, QuorumFirstStep, HeaderStep, Zenon
<1>5. QED
  BY <1>2, <1>3, <1>4, Zenon DEF Inv
-----------------------------------------------------------------------------
(* A round above gc_round with a quorum, none of whose certificates was    *)
(* passed over, has arrived as a whole once everything is quiet.           *)
LEMMA QuorumArrives ==
    ASSUME Inv, Quiet, NEW r \in Round, r > gcRound, IsQuorum(OfRound(store, r)),
           \A c \in OfRound(store, r) : ~Passed(c)
    PROVE  round >= r /\ (round = r => lastParents = OfRound(store, r))
<1> DEFINE S == OfRound(store, r)
<1>1. /\ store \subseteq Certificate /\ round \in Int /\ r \in Int
      /\ S \subseteq store /\ \A c \in S : c.round = r
  BY ParentAggregationAssumption DEF Inv, TypeOK, OfRound, Round
<1>2. rxParents = <<>> /\ recovering = {} /\ \A t \in Task : sending[t].parents = {}
  BY DEF Quiet, Recovered, Task, Nothing
<1>3. \A c \in S : /\ c.origin \in used[r]
                   /\ c \in certificates[r] \/ Arrived(c)
  <2>1. \A c \in S : c \in store /\ c.round > gcRound /\ c \notin recovering /\ ~Passed(c)
    BY <1>1, <1>2, Zenon
  <2>2. \A c \in S : OnItsWay(c) => c \in certificates[r]
    BY <1>1, <1>2 DEF OnItsWay
  <2> HIDE DEF S
  <2>3. QED
    BY <1>1, <2>1, <2>2, Zenon DEF Inv, Traced
<1>4. ReachedQuorum(used[r])
  <2>1. Origins(S) \in SUBSET Authority /\ used[r] \in SUBSET Authority
    BY <1>1 DEF Origins, Certificate, Inv, TypeOK
  <2>2. Origins(S) \subseteq used[r]
    BY <1>3, Zenon DEF Origins
  <2>3. QED
    BY <2>1, <2>2, QuorumMonotone, Zenon DEF IsQuorum
<1>5. certificates[r] = {}
  BY <1>4, Zenon DEF Inv, Counted
<1>6. \A c \in S : round > r \/ (round = r /\ c \in lastParents)
  BY <1>1, <1>3, <1>5, Zenon DEF Arrived
<1>7. S # {}
  BY NoneIsNoQuorum, Zenon
<1>8. round = r => lastParents \subseteq S
  BY Zenon DEF Inv, Kept
<1> HIDE DEF S
<1>9. round >= r /\ (round = r => S \subseteq lastParents)
  BY <1>1, <1>6, <1>7
<1>10. QED
  BY <1>8, <1>9, Zenon DEF S

(* The invariant, together with the parents of the highest certificate,    *)
(* gives the delivery of all parents: where the recovery task passed over  *)
(* a round, a later one has arrived.                                       *)
LEMMA AllArrive == Inv => AllParentsDelivered
<1> SUFFICES ASSUME Inv, Quiet, NEW r \in Round, r > gcRound,
                    IsQuorum(OfRound(store, r))
             PROVE  round >= r /\ (round = r => lastParents = OfRound(store, r))
  BY Zenon DEF AllParentsDelivered, IsQuorum, Origins, OfRound
<1>1. /\ store \subseteq Certificate /\ \A c \in store : c.round \in 1 .. MaxRound
      /\ round \in Int /\ gcRound \in Int /\ r \in Int /\ MaxRound \in Nat
  BY ParentAggregationAssumption DEF Inv, TypeOK, Certificate, Round
<1>2. CASE \A c \in OfRound(store, r) : ~Passed(c)
  BY <1>2, QuorumArrives, Zenon
<1>3. CASE \E c \in OfRound(store, r) : Passed(c)
  <2>1. PICK d \in store : d.round > r + 1
    BY <1>3, Zenon DEF OfRound, Passed
  <2>2. PICK h \in store : \A x \in store : x.round <= h.round
    BY <2>1, Zenon DEF Inv, HasHighest
  <2> DEFINE s == h.round - 1
  <2>3. /\ h.round > r + 1 /\ h.round \in 1 .. MaxRound
    BY <1>1, <2>1, <2>2
  <2>4. s \in Round /\ s > gcRound /\ s > r /\ h.round # 1 /\ ~(h.round <= gcRound + 1)
    BY <1>1, <2>3 DEF Round
  <2>5. IsQuorum(OfRound(store, s))
    BY <2>4, ParentsOf, Zenon DEF Inv, Grounded
  <2>6. \A c \in OfRound(store, s) : ~Passed(c)
    BY <1>1, <2>2, <2>3 DEF OfRound, Passed
  <2> HIDE DEF s
  <2>7. round >= s
    BY <2>4, <2>5, <2>6, QuorumArrives, Zenon
  <2>8. s \in Int
    BY <2>4 DEF Round
  <2>9. QED
    BY <1>1, <2>4, <2>7, <2>8
<1>4. QED
  BY <1>2, <1>3, Zenon

(* Inv holds in every reachable state.                                     *)
LEMMA Invariance == Spec => []Inv
BY InvInit, InvStep, PTL DEF Spec

(* What a header refers to is accepted and of the round before it, in      *)
(* whatever order the acceptor, the recovery task and the proposer take    *)
(* their turns, and across restarts (Proposer::make_header).               *)
THEOREM HeadersAreSound == Spec => []ParentsAccepted
<1>1. Inv => ParentsAccepted
  BY Zenon DEF Inv, Kept
<1>2. QED
  BY <1>1, Invariance, PTL

(* Until a restart a header carries a quorum of parents, for every         *)
(* distribution of stake (CertificatesAggregator::append, Proposer::run).  *)
THEOREM HeadersHaveQuorum == Spec => []HeaderHasQuorum
<1>1. Inv => HeaderHasQuorum
  BY Zenon DEF Inv
<1>2. QED
  BY <1>1, Invariance, PTL

(* When nothing is on its way, the proposer has every accepted certificate *)
(* of its round once they weigh a quorum, and is behind no such round,     *)
(* also after a recovery that read only the last two rounds.               *)
THEOREM ParentsAreDelivered == Spec => []AllParentsDelivered
BY AllArrive, Invariance, PTL
=============================================================================
