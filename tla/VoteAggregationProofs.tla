----------------------- MODULE VoteAggregationProofs -----------------------
(***************************************************************************)
(* The proofs of the VotesAggregator, for every committee and every number *)
(* of tasks.                                                               *)
(***************************************************************************)
EXTENDS VoteAggregation, CommitteeProofs

(* Invalid votes of a lighter authority than a valid voter were dropped.   *)
LightDrop == \E b \in dropped, v \in answered : Stake[b] < Stake[v]

(* A task without a certificate rests on a quorum of valid votes only      *)
(* after such a drop.                                                      *)
Resting ==
    status \in {"voting", "failed"} /\ weight >= QuorumThreshold =>
       invalid = {} /\ malformed = {} /\ LightDrop

(* The inductive invariant.                                                *)
Inv ==
    /\ TypeOK
    /\ status # "reused"
    /\ used \cap pending = {} /\ votes \subseteq used
    /\ invalid \subseteq Byzantine /\ malformed \subseteq Byzantine
    /\ votes \ (invalid \cup malformed) = answered
    /\ weight = StakeOf(votes)
    /\ status = "aborted" => malformed # {}
    /\ CertificateSound
    /\ Resting

(* What append leaves, given what it finds: the weight of the votes it     *)
(* keeps, and a certificate only for a verified quorum.                    *)
LEMMA AppendKeeps ==
    ASSUME NEW V \in SUBSET Authority, NEW I \in SUBSET V, NEW M \in SUBSET V
    PROVE  LET after == Append(V, I, M, StakeOf(V))
           IN \/ /\ after = [votes |-> V, weight |-> StakeOf(V),
                             certificate |-> None, status |-> "voting"]
                 /\ StakeOf(V) < QuorumThreshold
              \/ /\ after = [votes |-> V, weight |-> StakeOf(V),
                             certificate |-> None, status |-> "aborted"]
                 /\ M # {}
              \/ /\ after = [votes |-> V, weight |-> StakeOf(V),
                             certificate |-> V, status |-> "certified"]
                 /\ I = {} /\ M = {} /\ ReachedQuorum(V)
              \/ /\ after = [votes |-> V \ I, weight |-> StakeOf(V \ I),
                             certificate |-> None, status |-> "voting"]
                 /\ I # {} /\ M = {}
<1>1. StakeOf(V \ I) = StakeOf(V) - StakeOf(I)
  BY StakeDrop
<1>2. StakeOf(V) \in Nat /\ QuorumThreshold \in Int
  BY StakeSum DEF QuorumThreshold, TotalStake
<1>3. CASE StakeOf(V) < QuorumThreshold
  BY <1>3 DEF Append
<1>4. CASE ~(StakeOf(V) < QuorumThreshold) /\ M # {}
  BY <1>4 DEF Append
<1>5. CASE ~(StakeOf(V) < QuorumThreshold) /\ M = {} /\ I = {}
  BY <1>2, <1>5 DEF Append, Verifies, ReachedQuorum
<1>6. CASE ~(StakeOf(V) < QuorumThreshold) /\ M = {} /\ I # {}
  <2>1. KeepValid(V, I, StakeOf(V)) = [votes |-> V \ I, weight |-> StakeOf(V \ I)]
    BY <1>1 DEF KeepValid
  <2>2. QED
    BY <1>6, <2>1 DEF Append, Verifies
<1>7. QED
  BY <1>3, <1>4, <1>5, <1>6

(* A vote that brings the votes from below a quorum to one that survives   *)
(* the drop of the invalid votes is valid, and heavier than each of those. *)
LEMMA DropIsLight ==
    ASSUME NEW S \in SUBSET Authority, NEW v \in Authority \ S,
           NEW I \in SUBSET (S \cup {v}), NEW b \in I,
           StakeOf(S) < QuorumThreshold,
           StakeOf((S \cup {v}) \ I) >= QuorumThreshold
    PROVE  v \notin I /\ Stake[b] < Stake[v]
<1>1. StakeOf(S \cup {v}) = StakeOf(S) + Stake[v]
  BY StakeAdd
<1>2. /\ S \cup {v} \in SUBSET Authority /\ I \in SUBSET Authority
      /\ {b} \in SUBSET Authority /\ {b} \subseteq I /\ b \in Authority
      /\ (S \cup {v}) \ I \in SUBSET Authority
  OBVIOUS
<1>3. StakeOf((S \cup {v}) \ I) = StakeOf(S \cup {v}) - StakeOf(I)
  BY <1>2, StakeDrop
<1>4. Stake[b] <= StakeOf(I)
  BY <1>2, StakeMonotone, StakeSum
<1>5. /\ StakeOf(S) \in Nat /\ StakeOf(I) \in Nat
      /\ StakeOf((S \cup {v}) \ I) \in Nat
      /\ Stake[v] \in Nat /\ Stake[b] \in Nat /\ QuorumThreshold \in Int
  BY <1>2, StakeSum, CommitteeAssumption DEF QuorumThreshold, TotalStake
<1> DEFINE m == StakeOf(S)  n == StakeOf(S \cup {v})  i == StakeOf(I)
           k == StakeOf((S \cup {v}) \ I)
           q == QuorumThreshold  x == Stake[v]  y == Stake[b]
<1>6. /\ y <= i /\ n = m + x /\ m < q /\ k = n - i /\ k >= q
      /\ m \in Nat /\ i \in Nat /\ x \in Nat /\ y \in Nat /\ q \in Int
      /\ k \in Nat
  BY <1>1, <1>3, <1>4, <1>5
<1>7. v \in I => k <= m
  <2>1. v \in I => (S \cup {v}) \ I \subseteq S
    OBVIOUS
  <2>2. QED
    BY <1>2, <2>1, StakeMonotone
<1> HIDE DEF m, n, i, k, q, x, y
<1>8. ~(k <= m) /\ y < x
  BY <1>6
<1>9. QED
  BY <1>7, <1>8 DEF x, y

(* The aggregator a task starts with, after the author's own vote.         *)
LEMMA OwnVoteKeeps ==
    /\ OwnVote.votes = {Self}
    /\ OwnVote.weight = StakeOf({Self}) /\ OwnVote.weight \in Nat
    /\ \/ /\ OwnVote.status = "voting" /\ OwnVote.certificate = {}
          /\ OwnVote.weight < QuorumThreshold
       \/ /\ OwnVote.status = "certified" /\ OwnVote.certificate = {Self}
          /\ ReachedQuorum({Self})
<1> DEFINE V == {Self}
<1>1. V \in SUBSET Authority /\ Stake[Self] = StakeOf(V) /\ {} \in SUBSET V
  BY StakeSum, VoteAggregationAssumption
<1>2. OwnVote = Append(V, {}, {}, StakeOf(V))
  BY <1>1 DEF OwnVote
<1>3. StakeOf(V) \in Nat
  BY <1>1, StakeSum
<1> HIDE DEF V
<1>4. \/ /\ OwnVote = [votes |-> V, weight |-> StakeOf(V),
                       certificate |-> None, status |-> "voting"]
         /\ StakeOf(V) < QuorumThreshold
      \/ /\ OwnVote = [votes |-> V, weight |-> StakeOf(V),
                       certificate |-> V, status |-> "certified"]
         /\ ReachedQuorum(V)
  BY <1>1, <1>2, AppendKeeps
<1>5. QED
  BY <1>3, <1>4 DEF V, None

(* The invariant holds when the first task starts.                         *)
LEMMA InvInit == Init => Inv
<1> SUFFICES ASSUME Init PROVE Inv
  OBVIOUS
<1>1. TypeOK
  BY OwnVoteKeeps, VoteAggregationAssumption DEF Init, TypeOK
<1>2. CertificateSound
  BY OwnVoteKeeps DEF Init, CertificateSound
<1>3. Resting
  <2>1. QuorumThreshold \in Int
    BY StakeSum DEF QuorumThreshold, TotalStake
  <2>2. QED
    BY <2>1, OwnVoteKeeps DEF Init, Resting
<1>4. QED
  BY <1>1, <1>2, <1>3, OwnVoteKeeps DEF Init, Inv

(* The invariant survives every step; the vote that arrives is the one     *)
(* step that touches the aggregator.                                       *)
LEMMA InvStep == Inv /\ [Next]_vars => Inv'
<1> SUFFICES ASSUME Inv, [Next]_vars PROVE Inv'
  OBVIOUS
<1>0. QuorumThreshold \in Int
  BY StakeSum DEF QuorumThreshold, TotalStake
<1>1. ASSUME NEW v \in Authority, NEW signature \in Signature,
             ReceiveVote(v, signature)
      PROVE  Inv'
  <2> DEFINE V == votes \cup {v}
             I == IF signature = "invalid" THEN invalid \cup {v} ELSE invalid
             M == IF signature = "malformed" THEN malformed \cup {v}
                                             ELSE malformed
             after == Append(V, I, M, StakeOf(V))
  <2>1. /\ status = "voting" /\ v \in pending
        /\ signature = "valid" \/ v \in Byzantine
        /\ v \notin used /\ v \notin votes /\ v \notin invalid
        /\ v \notin malformed
    BY <1>1 DEF ReceiveVote, Inv, TypeOK
  <2>2. /\ votes \in SUBSET Authority /\ V \in SUBSET Authority
        /\ I \in SUBSET V /\ M \in SUBSET V
        /\ I \in SUBSET Byzantine /\ M \in SUBSET Byzantine
    BY <2>1 DEF Inv, TypeOK, Signature
  <2>3. weight + Stake[v] = StakeOf(V) /\ weight = StakeOf(votes)
    BY <2>1, <2>2, StakeAdd DEF Inv
  <2>4. /\ pending' = pending \ {v} /\ used' = used \cup {v} /\ UNCHANGED tasks
        /\ answered' = IF signature = "valid" THEN answered \cup {v} ELSE answered
        /\ votes' = after.votes /\ invalid' = I \cap after.votes
        /\ malformed' = M \cap after.votes
        /\ dropped' = dropped \cup (I \ after.votes)
        /\ weight' = after.weight /\ certificate' = after.certificate
        /\ status' = after.status
    BY <1>1, <2>1, <2>3 DEF ReceiveVote
  <2>5. \/ /\ after = [votes |-> V, weight |-> StakeOf(V),
                       certificate |-> None, status |-> "voting"]
           /\ StakeOf(V) < QuorumThreshold
        \/ /\ after = [votes |-> V, weight |-> StakeOf(V),
                       certificate |-> None, status |-> "aborted"]
           /\ M # {}
        \/ /\ after = [votes |-> V, weight |-> StakeOf(V),
                       certificate |-> V, status |-> "certified"]
           /\ I = {} /\ M = {} /\ ReachedQuorum(V)
        \/ /\ after = [votes |-> V \ I, weight |-> StakeOf(V \ I),
                       certificate |-> None, status |-> "voting"]
           /\ I # {} /\ M = {}
    <3> HIDE DEF V, I, M
    <3>1. QED
      BY <2>2, AppendKeeps
  <2>6. V \ (I \cup M) = answered' /\ answered \subseteq answered'
    BY <2>1, <2>4 DEF Inv, Signature
  <2> HIDE DEF after
  <2>7. CertificateSound'
    <3>1. status' = "certified" =>
             certificate' = V /\ I = {} /\ M = {} /\ ReachedQuorum(V)
      <4> HIDE DEF V, I, M
      <4>1. after.status = "certified" =>
               after.certificate = V /\ I = {} /\ M = {} /\ ReachedQuorum(V)
        BY <2>5
      <4>2. QED
        BY <2>4, <4>1, Zenon
    <3>2. QED
      BY <2>6, <3>1 DEF CertificateSound, ReachedQuorum
  <2>8. Resting'
    <3>1. CASE StakeOf(V) < QuorumThreshold /\ weight' = StakeOf(V)
      <4>1. StakeOf(V) \in Nat
        BY <2>2, StakeSum
      <4>2. QED
        BY <1>0, <3>1, <4>1 DEF Resting
    <3>2. CASE status' \in {"aborted", "certified"}
      BY <3>2 DEF Resting
    <3>3. CASE /\ after = [votes |-> V \ I, weight |-> StakeOf(V \ I),
                           certificate |-> None, status |-> "voting"]
               /\ I # {} /\ M = {}
      <4>1. invalid' = {} /\ malformed' = {} /\ I \subseteq dropped'
            /\ dropped \subseteq dropped' /\ weight' = StakeOf(V \ I)
        BY <2>4, <3>3
      <4>2. CASE weight >= QuorumThreshold
        <5>1. LightDrop
          BY <2>1, <4>2 DEF Inv, Resting
        <5>2. LightDrop'
          BY <2>6, <4>1, <5>1 DEF LightDrop
        <5>3. QED
          BY <4>1, <5>2 DEF Resting
      <4>3. CASE ~(weight >= QuorumThreshold) /\ weight' >= QuorumThreshold
        <5>1. PICK b \in I : TRUE
          BY <3>3
        <5>2. StakeOf(votes) < QuorumThreshold
          BY <1>0, <2>3, <4>3 DEF Inv, TypeOK
        <5>3. v \notin I /\ Stake[b] < Stake[v]
          <6> HIDE DEF I
          <6>1. I \in SUBSET (votes \cup {v}) /\ v \in Authority \ votes
                /\ StakeOf((votes \cup {v}) \ I) >= QuorumThreshold
            BY <2>1, <2>2, <4>1, <4>3
          <6>2. QED
            BY <2>2, <5>1, <5>2, <6>1, DropIsLight
        <5>4. v \in answered' /\ b \in dropped'
          BY <2>6, <3>3, <4>1, <5>1, <5>3
        <5>5. LightDrop'
          BY <5>3, <5>4 DEF LightDrop
        <5>6. QED
          BY <4>1, <5>5 DEF Resting
      <4>4. QED
        BY <4>2, <4>3 DEF Resting
    <3>4. QED
      BY <2>4, <2>5, <3>1, <3>2, <3>3
  <2>9. votes' \in SUBSET Authority /\ weight' \in Nat /\ weight' = StakeOf(votes')
    <3>1. votes' \in SUBSET Authority /\ weight' = StakeOf(votes')
      <4> HIDE DEF V, I, M
      <4>1. \/ votes' = V /\ weight' = StakeOf(V)
            \/ votes' = V \ I /\ weight' = StakeOf(V \ I)
        BY <2>4, <2>5
      <4>2. QED
        BY <2>2, <4>1
    <3>2. QED
      BY <3>1, StakeSum
  <2>10. TypeOK'
    BY <2>1, <2>2, <2>4, <2>5, <2>9 DEF Inv, TypeOK, None
  <2>11. /\ status' # "reused" /\ used' \cap pending' = {} /\ votes' \subseteq used'
         /\ invalid' \subseteq Byzantine /\ malformed' \subseteq Byzantine
         /\ votes' \ (invalid' \cup malformed') = answered'
         /\ status' = "aborted" => malformed' # {}
    BY <2>2, <2>4, <2>5, <2>6 DEF Inv
  <2>12. QED
    BY <2>7, <2>8, <2>9, <2>10, <2>11 DEF Inv
<1>2. ASSUME NEW v \in Authority, RequestFails(v)
      PROVE  Inv'
  BY <1>2 DEF RequestFails, Inv, TypeOK, CertificateSound, Resting, LightDrop
<1>3. ASSUME GiveUp
      PROVE  Inv'
  BY <1>3 DEF GiveUp, Inv, TypeOK, CertificateSound, Resting, LightDrop
<1>4. ASSUME Resend
      PROVE  Inv'
  <2>1. tasks' \in 1 .. MaxTask
    BY <1>4, VoteAggregationAssumption DEF Resend, Inv, TypeOK
  <2>2. TypeOK'
    BY <1>4, <2>1, OwnVoteKeeps, VoteAggregationAssumption DEF Resend, TypeOK
  <2>3. CertificateSound'
    BY <1>4, OwnVoteKeeps DEF Resend, CertificateSound
  <2>4. Resting'
    BY <1>0, <1>4, OwnVoteKeeps DEF Resend, Resting
  <2>5. QED
    BY <1>4, <2>2, <2>3, <2>4, OwnVoteKeeps DEF Resend, Inv
<1>5. ASSUME UNCHANGED vars
      PROVE  Inv'
  BY <1>5 DEF vars, Inv, TypeOK, CertificateSound, Resting, LightDrop
<1>6. QED
  BY <1>1, <1>2, <1>3, <1>4, <1>5 DEF Next

(* A certificate that leaves VotesAggregator::append is signed by a quorum *)
(* and by authorities that answered this header's request with a valid     *)
(* vote, whatever the stakes and however many bad votes arrived.           *)
THEOREM CertificatesAreSound == Spec => []CertificateSound
<1>1. Inv => CertificateSound
  BY DEF Inv
<1>2. QED
  BY <1>1, InvInit, InvStep, PTL DEF Spec

(* Whatever the stakes, the weight is the stake of exactly the votes that  *)
(* are held, a quorum that append left untested is made of valid votes,    *)
(* and AuthorityReuse is never raised: neither `weight -= ...' nor the     *)
(* `used' set that remembers dropped voters can go wrong.                  *)
THEOREM WeightIsExact == Spec => []AggregatorExact
<1>1. Inv => AggregatorExact
  BY DEF Inv, Resting, AggregatorExact
<1>2. QED
  BY <1>1, InvInit, InvStep, PTL DEF Spec

(* Whatever the stakes, a task that got a quorum of valid votes ends       *)
(* without a certificate only after a malformed signature, or after an     *)
(* invalid vote lighter than one of the valid ones was dropped.            *)
THEOREM QuorumsAreUsed == Spec => []QuorumCertifies
<1>1. Inv => QuorumCertifies
  <2> SUFFICES ASSUME Inv, status = "failed", ReachedQuorum(answered)
               PROVE  LightDrop
    BY DEF Inv, QuorumCertifies, LightDrop
  <2>1. /\ weight = StakeOf(votes)
        /\ votes \in SUBSET Authority /\ answered \in SUBSET votes
    BY DEF Inv, TypeOK
  <2>2. StakeOf(answered) <= weight /\ StakeOf(answered) \in Nat /\ weight \in Nat
    BY <2>1, StakeMonotone, StakeSum
  <2>3. QuorumThreshold \in Int
    BY StakeSum DEF QuorumThreshold, TotalStake
  <2>4. weight >= QuorumThreshold
    BY <2>2, <2>3 DEF ReachedQuorum
  <2>5. QED
    BY <2>4 DEF Inv, Resting
<1>2. QED
  BY <1>1, InvInit, InvStep, PTL DEF Spec
=============================================================================
