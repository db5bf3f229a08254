-------------------------- MODULE ParentAggregation -------------------------
(***************************************************************************)
(* From accepted certificates to the parents of a header.  Two tasks of    *)
(* the synchronizer append certificates to the aggregator of their round:  *)
(* the acceptor, and after a restart the task that reads the last two      *)
(* rounds back from the store.  What an append returns is sent to the      *)
(* proposer after the lock on the aggregators is gone, so the two tasks    *)
(* can overtake each other.  The proposer jumps to higher rounds, extends  *)
(* its parents with those of its round, and makes a header out of them     *)
(* (aggregators.rs, synchronizer.rs, proposer.rs).                         *)
(***************************************************************************)
EXTENDS Committee, Sequences

CONSTANTS
    MaxRound,   \* bound: the highest round of a certificate
    MaxCrash    \* bound: crashes

ASSUME ParentAggregationAssumption == {MaxRound, MaxCrash} \subseteq Nat

Round == 1 .. MaxRound
Certificate == [origin : Authority, round : Round]
Task == {"acceptor", "recovery"}

(* A message to the proposer; a bare signal of a round has no parents.     *)
Message == [parents : SUBSET Certificate, round : 0 .. MaxRound]
Nothing == [parents |-> {}, round |-> 0]

VARIABLES
    store,         \* persistent: the accepted certificates
    gcRound,       \* Inner.gc_round
    used,          \* CertificatesAggregator.used of each round
    certificates,  \* CertificatesAggregator.certificates of each round
    recovering,    \* what the recovery task has still to append
    sending,       \* what each task has drained and not sent
    rxParents,     \* the channel to the proposer
    round,         \* Proposer.round
    lastParents,   \* Proposer.last_parents; the genesis left out
    genesis,       \* whether last_parents is the genesis
    header,        \* the last header made, as round and parents
    crashes

aggregators == <<used, certificates>>
proposer == <<round, lastParents, genesis, header>>
vars == <<store, gcRound, aggregators, recovering, sending, rxParents,
          proposer, crashes>>

TypeOK ==
    /\ store \subseteq Certificate
    /\ gcRound \in 0 .. MaxRound
    /\ used \in [Round -> SUBSET Authority]
    /\ certificates \in [Round -> SUBSET Certificate]
    /\ recovering \subseteq Certificate
    /\ sending \in [Task -> Message]
    /\ rxParents \in Seq(Message)
    /\ round \in 0 .. MaxRound + 1
    /\ lastParents \subseteq Certificate /\ genesis \in BOOLEAN
    /\ header \in [round : 0 .. MaxRound + 1, parents : SUBSET Certificate]
    /\ crashes \in 0 .. MaxCrash

Init ==
    /\ store = {} /\ gcRound = 0
    /\ used = [r \in Round |-> {}]
    /\ certificates = [r \in Round |-> {}]
    /\ recovering = {}
    /\ sending = [t \in Task |-> Nothing]
    /\ rxParents = <<>>
    /\ round = 0 /\ lastParents = {} /\ genesis = TRUE
    /\ header = Nothing /\ crashes = 0
-----------------------------------------------------------------------------
(* Mutant of AppendCertificate: what follows the quorum is kept back.      *)
AppendCertificate_Once(t, c) ==
    LET r == c.round
        first == ~ReachedQuorum(used[r])
        all == used[r] \cup {c.origin}
    IN /\ used' = [used EXCEPT ![r] = all]
       /\ IF first /\ ReachedQuorum(all)
          THEN /\ certificates' = [certificates EXCEPT ![r] = {}]
               /\ sending' = [sending EXCEPT ![t] =
                      [parents |-> certificates[r] \cup {c}, round |-> r]]
          ELSE /\ certificates' = [certificates EXCEPT ![r] = @ \cup {c}]
               /\ UNCHANGED sending

(* CertificatesAggregator::append by task t: the first certificate of an   *)
(* origin is kept, and whenever the origins weigh a quorum all kept ones   *)
(* are drained, to be sent to the proposer.                                *)
AppendCertificate(t, c) ==
    LET r == c.round IN
    IF c.origin \in used[r]
    THEN UNCHANGED <<aggregators, sending>>
    ELSE /\ used' = [used EXCEPT ![r] = @ \cup {c.origin}]
         /\ IF ReachedQuorum(used[r] \cup {c.origin})
            THEN /\ certificates' = [certificates EXCEPT ![r] = {}]
                 /\ sending' = [sending EXCEPT ![t] =
                        [parents |-> certificates[r] \cup {c}, round |-> r]]
            ELSE /\ certificates' = [certificates EXCEPT ![r] = @ \cup {c}]
                 /\ UNCHANGED sending

Recovered == recovering = {} /\ sending["recovery"] = Nothing

(* A certificate of the next round needs a quorum of parents.              *)
HasParents(c) ==
    c.round = 1 \/ c.round <= gcRound + 1
    \/ ReachedQuorum({p.origin : p \in {q \in store : q.round = c.round - 1}})

(* accept_certificate_internal: c is written to the store and appended to  *)
(* its aggregator.  The acceptor holds the lock of State until it has sent *)
(* what it drained.                                                        *)
AcceptCertificate(c) ==
    /\ sending["acceptor"] = Nothing
    /\ c \notin store /\ HasParents(c)
    /\ store' = store \cup {c}
    /\ AppendCertificate("acceptor", c)
    /\ UNCHANGED <<gcRound, recovering, rxParents, proposer, crashes>>

(* The recovery task appends the next certificate, the higher round first; *)
(* which origin comes first is left open.  It holds no lock of State.      *)
RecoverCertificate(c) ==
    /\ sending["recovery"] = Nothing
    /\ c \in recovering /\ \A d \in recovering : d.round <= c.round
    /\ recovering' = recovering \ {c}
    /\ AppendCertificate("recovery", c)
    /\ UNCHANGED <<store, gcRound, rxParents, proposer, crashes>>

(* tx_parents.send of task t, after the lock on the aggregators is gone.   *)
SendParents(t) ==
    /\ sending[t] # Nothing
    /\ rxParents' = Append(rxParents, sending[t])
    /\ sending' = [sending EXCEPT ![t] = Nothing]
    /\ UNCHANGED <<store, gcRound, aggregators, recovering, proposer, crashes>>

(* A commit moves gc_round: older aggregators are dropped.                 *)
CollectAggregators(r) ==
    /\ r > gcRound /\ \E c \in store : c.round > r
    /\ gcRound' = r
    /\ used' = [s \in Round |-> IF s > r THEN used[s] ELSE {}]
    /\ certificates' = [s \in Round |-> IF s > r THEN certificates[s] ELSE {}]
    /\ UNCHANGED <<store, recovering, sending, rxParents, proposer, crashes>>

(* A certificate of round r + 1 arrived: a bare signal to the proposer.    *)
SignalRound(r) ==
    /\ rxParents = <<>>
    /\ rxParents' = <<[parents |-> {}, round |-> r]>>
    /\ UNCHANGED <<store, gcRound, aggregators, recovering, sending, proposer,
                   crashes>>
-----------------------------------------------------------------------------
(* Mutant of ReceiveParents: parents of the same round replace the list.   *)
ReceiveParents_Replace ==
    /\ rxParents # <<>>
    /\ LET m == Head(rxParents) IN
       /\ round' = IF m.round > round THEN m.round ELSE round
       /\ genesis' = (genesis /\ m.round < round)
       /\ lastParents' = IF m.round >= round THEN m.parents ELSE lastParents
    /\ rxParents' = Tail(rxParents)
    /\ UNCHANGED <<store, gcRound, aggregators, recovering, sending, header,
                   crashes>>

(* Mutant of ReceiveParents: a jump keeps the parents of the old round.    *)
ReceiveParents_Keep ==
    /\ rxParents # <<>>
    /\ LET m == Head(rxParents) IN
       /\ round' = IF m.round > round THEN m.round ELSE round
       /\ genesis' = (genesis /\ m.round <= round)
       /\ lastParents' = IF m.round >= round THEN lastParents \cup m.parents
                         ELSE lastParents
    /\ rxParents' = Tail(rxParents)
    /\ UNCHANGED <<store, gcRound, aggregators, recovering, sending, header,
                   crashes>>

(* The rx_parents branch of the proposer's loop: jump ahead with the       *)
(* parents of a greater round, ignore a smaller one, extend on the same.   *)
ReceiveParents ==
    /\ rxParents # <<>>
    /\ LET m == Head(rxParents) IN
       /\ round' = IF m.round > round THEN m.round ELSE round
       /\ genesis' = (genesis /\ m.round <= round)
       /\ lastParents' = IF m.round > round THEN m.parents
                         ELSE IF m.round = round THEN lastParents \cup m.parents
                         ELSE lastParents
    /\ rxParents' = Tail(rxParents)
    /\ UNCHANGED <<store, gcRound, aggregators, recovering, sending, header,
                   crashes>>

(* Timers and digests permitting, the proposer makes a header as soon as   *)
(* last_parents is not empty, and takes all of it.                         *)
MakeHeader ==
    /\ lastParents # {} \/ genesis
    /\ round' = round + 1
    /\ header' = [round |-> round + 1, parents |-> lastParents]
    /\ lastParents' = {} /\ genesis' = FALSE
    /\ UNCHANGED <<store, gcRound, aggregators, recovering, sending, rxParents,
                   crashes>>

(* last_two_rounds_certs: the last round and the one before it.            *)
LastTwoRounds == {c \in store : \A d \in store : d.round <= c.round + 1}

(* A crash: only the store survives.  The gc round comes back with it.     *)
Restart ==
    /\ crashes < MaxCrash /\ crashes' = crashes + 1
    /\ used' = [r \in Round |-> {}]
    /\ certificates' = [r \in Round |-> {}]
    /\ recovering' = LastTwoRounds
    /\ sending' = [t \in Task |-> Nothing]
    /\ rxParents' = <<>>
    /\ round' = 0 /\ lastParents' = {} /\ genesis' = TRUE
    /\ header' = Nothing
    /\ UNCHANGED <<store, gcRound>>

Next ==
    \/ \E c \in Certificate : AcceptCertificate(c) \/ RecoverCertificate(c)
    \/ \E t \in Task : SendParents(t)
    \/ \E r \in Round : CollectAggregators(r) \/ SignalRound(r)
    \/ ReceiveParents
    \/ MakeHeader
    \/ Restart

Spec == Init /\ [][Next]_vars
-----------------------------------------------------------------------------
(* Every header is made of a quorum of certificates of the round before,   *)
(* as the vote handler of every other primary demands: "We propose a new   *)
(* header when we have a quorum of parents" (proposer.rs).  It holds until *)
(* a restart: then the acceptor and the recovery task can drain one        *)
(* aggregator between them, and what the later one drained may be sent and *)
(* used first.                                                             *)
HeaderHasQuorum ==
    header.round > 1 /\ crashes = 0 =>
       ReachedQuorum({p.origin : p \in header.parents})

(* What is in a header is accepted and of the round before, whatever was   *)
(* overtaken, extended, recovered or ignored on the way.                   *)
ParentsAccepted ==
    \A p \in header.parents : p \in store /\ p.round = header.round - 1

Quiet == rxParents = <<>> /\ Recovered /\ sending["acceptor"] = Nothing

(* No certificate is kept back from the proposer: once the channel is      *)
(* empty, a proposer that waits in a round with a quorum of accepted       *)
(* certificates above gc_round holds every one of them, and it is never    *)
(* behind the highest such round.                                          *)
AllParentsDelivered ==
    Quiet =>
       \A r \in Round :
          LET accepted == {c \in store : c.round = r} IN
          r > gcRound /\ ReachedQuorum({c.origin : c \in accepted}) =>
             /\ round >= r
             /\ round = r => lastParents = accepted
=============================================================================
