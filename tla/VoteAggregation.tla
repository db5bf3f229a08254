--------------------------- MODULE VoteAggregation --------------------------
(***************************************************************************)
(* A propose_header task and its VotesAggregator: how the votes for one    *)
(* header, some with bad signatures, become a certificate.  Every peer     *)
(* is asked once per task; request_vote retries inside until it has a vote *)
(* or a permanent refusal, so to the task each request yields one result,  *)
(* in any order.  A newer or resent header cancels the task and starts     *)
(* another with an empty aggregator (certifier.rs, aggregators.rs).        *)
(***************************************************************************)
EXTENDS Committee

CONSTANTS
    Self,       \* the author of the header
    MaxTask     \* bound: propose_header tasks, resent headers included

ASSUME VoteAggregationAssumption ==
    /\ Self \in Authority \ Byzantine
    /\ MaxTask \in Nat \ {0}

None == {}

VARIABLES
    pending,      \* FuturesUnordered: the peers that have not answered
    used,         \* VotesAggregator.used
    votes,        \* VotesAggregator.votes: the voters ...
    invalid,      \* ... those of them whose signature does not verify ...
    malformed,    \* ... and those whose signature cannot be aggregated
    weight,       \* VotesAggregator.weight
    answered,     \* history: the authorities that sent the task a valid vote
    dropped,      \* history: the voters whose invalid votes it dropped
    certificate,  \* the signers of the certificate, or None
    status,       \* how the task stands
    tasks         \* number of tasks started

vars == <<pending, used, votes, invalid, malformed, weight, answered, dropped,
          certificate, status, tasks>>

TypeOK ==
    /\ pending \subseteq Authority \ {Self}
    /\ used \subseteq Authority
    /\ votes \subseteq Authority
    /\ invalid \subseteq votes /\ malformed \subseteq votes
    /\ weight \in Nat
    /\ answered \subseteq Authority /\ dropped \subseteq Authority
    /\ certificate \subseteq Authority
    /\ status \in {"voting", "certified", "failed", "aborted", "reused"}
    /\ tasks \in 1 .. MaxTask

(* Mutants of KeepValid: the weight of the dropped votes stays; the drop   *)
(* of invalid votes empties the aggregator.                                *)
KeepValid_Weight(V, I, w) == [votes |-> V \ I, weight |-> w]
KeepValid_All(V, I, w)    == [votes |-> {}, weight |-> 0]

(* votes.retain: the invalid votes go, and their weight.                   *)
KeepValid(V, I, w) == [votes |-> V \ I, weight |-> w - StakeOf(I)]

(* Mutant of Verifies: an aggregate is taken unverified.                   *)
Verifies_Unchecked(V, I) == TRUE

(* The aggregated signature verifies when all signatures do.               *)
Verifies(V, I) == I = {}

(* What VotesAggregator::append leaves and returns once the vote is among  *)
(* the votes V, those of I with an invalid and those of M with a malformed *)
(* signature, and the weight w includes it.  Below a quorum nothing        *)
(* happens.  At a quorum a malformed signature fails the aggregation, and  *)
(* the error ends the task; otherwise the certificate is returned if the   *)
(* aggregate verifies, and the invalid votes are dropped if it does not.   *)
Append(V, I, M, w) ==
    IF w < QuorumThreshold
    THEN [votes |-> V, weight |-> w, certificate |-> None, status |-> "voting"]
    ELSE IF M # {}
    THEN [votes |-> V, weight |-> w, certificate |-> None, status |-> "aborted"]
    ELSE IF Verifies(V, I)
    THEN [votes |-> V, weight |-> w, certificate |-> V, status |-> "certified"]
    ELSE [votes |-> KeepValid(V, I, w).votes, weight |-> KeepValid(V, I, w).weight,
          certificate |-> None, status |-> "voting"]

(* The aggregator after the author's own vote, valid and always the first. *)
OwnVote == Append({Self}, {}, {}, Stake[Self])

Init ==
    /\ pending = Authority \ {Self}
    /\ used = {Self} /\ votes = OwnVote.votes
    /\ invalid = {} /\ malformed = {}
    /\ weight = OwnVote.weight
    /\ answered = {Self} /\ dropped = {}
    /\ certificate = OwnVote.certificate /\ status = OwnVote.status
    /\ tasks = 1

(* A request returned a vote of v: its author is checked to be the peer    *)
(* that was asked, its signature is not.  A Byzantine voter may send a     *)
(* signature that does not verify or cannot even be aggregated.            *)
ReceiveVote(v, signature) ==
    /\ status = "voting" /\ v \in pending
    /\ signature = "valid" \/ v \in Byzantine
    /\ pending' = pending \ {v}
    /\ answered' = IF signature = "valid" THEN answered \cup {v} ELSE answered
    /\ IF v \in used
       THEN /\ status' = "reused"
            /\ UNCHANGED <<used, votes, invalid, malformed, weight, dropped,
                           certificate>>
       ELSE LET I == IF signature = "invalid" THEN invalid \cup {v} ELSE invalid
                M == IF signature = "malformed" THEN malformed \cup {v}
                                                ELSE malformed
                after == Append(votes \cup {v}, I, M, weight + Stake[v])
            IN /\ used' = used \cup {v}
               /\ votes' = after.votes
               /\ invalid' = I \cap after.votes
               /\ malformed' = M \cap after.votes
               /\ weight' = after.weight
               /\ dropped' = dropped \cup (I \ after.votes)
               /\ certificate' = after.certificate
               /\ status' = after.status
    /\ UNCHANGED tasks

(* A request ended with a permanent error: a refusal of the peer (too old, *)
(* voted for another header) or an answer that is not a vote for this.     *)
RequestFails(v) ==
    /\ status = "voting" /\ v \in pending
    /\ pending' = pending \ {v}
    /\ UNCHANGED <<used, votes, invalid, malformed, weight, answered, dropped,
                   certificate, status, tasks>>

(* No request is left: CouldNotFormCertificate.                            *)
GiveUp ==
    /\ status = "voting" /\ pending = {}
    /\ status' = "failed"
    /\ UNCHANGED <<pending, used, votes, invalid, malformed, weight, answered,
                   dropped, certificate, tasks>>

(* The header is sent to the certifier again (header_repeat_timer): a task *)
(* that still votes is cancelled and a new one starts from nothing.        *)
Resend ==
    /\ status \in {"voting", "failed", "aborted"} /\ tasks < MaxTask
    /\ tasks' = tasks + 1
    /\ pending' = Authority \ {Self}
    /\ used' = {Self} /\ votes' = OwnVote.votes
    /\ invalid' = {} /\ malformed' = {}
    /\ weight' = OwnVote.weight
    /\ answered' = {Self} /\ dropped' = {}
    /\ certificate' = OwnVote.certificate /\ status' = OwnVote.status

Signature == {"valid", "invalid", "malformed"}

Next ==
    \/ \E v \in Authority :
          \/ \E signature \in Signature : ReceiveVote(v, signature)
          \/ RequestFails(v)
    \/ GiveUp
    \/ Resend

Spec == Init /\ [][Next]_vars
-----------------------------------------------------------------------------
(* The weight of the aggregator is the stake of exactly the votes it still *)
(* holds, however many invalid votes were dropped on the way: the u64      *)
(* subtraction in retain never wraps and no stake is counted twice.  With  *)
(* unequal stakes the votes it keeps after a drop can still be a quorum,   *)
(* which append does not test again: then they are all valid, so that the  *)
(* next valid vote makes the certificate.  AuthorityReuse, which ends the  *)
(* task, is never raised: dropping a vote and keeping its author in `used' *)
(* locks nobody out.                                                       *)
AggregatorExact ==
    /\ weight = StakeOf(votes)
    /\ status = "voting" /\ weight >= QuorumThreshold => votes = answered
    /\ status # "reused"

(* A certificate that leaves the aggregator is signed by a quorum, each    *)
(* signature valid, and every signer sent its vote for this very header.   *)
CertificateSound ==
    status = "certified" =>
       /\ ReachedQuorum(certificate)
       /\ certificate \subseteq answered

(* A task to which a quorum of valid votes came back ends without a        *)
(* certificate for two reasons only: a malformed signature among its votes *)
(* made append fail, or the drop of an invalid vote lighter than a valid   *)
(* one left a quorum that append did not test again, and no valid vote     *)
(* came after it.  In particular, among equal stakes invalid signatures    *)
(* alone never cost the certificate.                                       *)
QuorumCertifies ==
    status \in {"failed", "aborted"} /\ ReachedQuorum(answered) =>
       \/ malformed # {}
       \/ \E b \in dropped, v \in answered : Stake[b] < Stake[v]
=============================================================================
