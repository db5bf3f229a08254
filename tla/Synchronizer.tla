---------------------------- MODULE Synchronizer ----------------------------
(***************************************************************************)
(* How a primary accepts certificates into its store and hands them to     *)
(* consensus in causal order (synchronizer.rs).  Certificates arrive by    *)
(* broadcast or in fetched batches; the acceptor task accepts those whose  *)
(* parents are stored and suspends the others; the garbage collection task *)
(* follows the commits of consensus and releases the certificates whose    *)
(* parents will never be accepted.  The two tasks share the state lock,    *)
(* but the round of garbage collection is an atomic read outside it.  The  *)
(* process aborts when an assertion fails and restarts from its stores.    *)
(***************************************************************************)
EXTENDS Integers, Sequences, FiniteSets, Functions

CONSTANTS
    Certificate,   \* the certificates of the network
    RoundOf,       \* the round of each
    Parents,       \* its parents, all of the round before; genesis left out
    GcDepth,       \* Parameters.gc_depth
    RoundLimit,    \* NEW_CERTIFICATE_ROUND_LIMIT
    MaxQueue,      \* bound: messages waiting for the acceptor
    MaxBatch,      \* bound: certificates in a fetched batch
    MaxCrash       \* bound: crashes

ASSUME SynchronizerAssumption ==
    /\ RoundOf \in [Certificate -> Nat \ {0}]
    /\ Parents \in [Certificate -> SUBSET Certificate]
    /\ \A c \in Certificate : \A p \in Parents[c] : RoundOf[c] = RoundOf[p] + 1
    /\ {GcDepth, RoundLimit, MaxQueue, MaxBatch, MaxCrash} \subseteq Nat

VARIABLES
    store,          \* persistent: the certificate store
    consensusGc,    \* persistent: ConsensusRound.gc_round of the last commit
    dag,            \* ConsensusState.dag
    gcRound,        \* Inner.gc_round
    suspended,      \* the keys of State.suspended
    missingOf,      \* missing_parents of each suspended certificate
    missing,        \* State.missing: the suspended children of a certificate
    aggregated,     \* the certificates in certificates_aggregators
    recovering,     \* what the task that recovers parents still has to append
    queue,          \* the channel to the acceptor task
    batch,          \* what the acceptor still has to process
    acceptor,       \* where the acceptor task is
    collector,      \* where the garbage collection task is
    toTraverse,     \* accept_children: certificates to visit
    toAccept,       \* certificates to accept, in order
    written,        \* whether the first of toAccept is in the store already
    panicked,       \* the assertion that failed, or "none"
    crashes

State     == <<suspended, missingOf, missing>>
traversal == <<toTraverse, toAccept, written>>
intake    == <<queue, batch, acceptor>>
vars == <<store, consensusGc, dag, gcRound, State, aggregated, recovering,
          intake, collector, traversal, panicked, crashes>>

Message == [certificates : Seq(Certificate), early : BOOLEAN]

TypeOK ==
    /\ store \subseteq Certificate /\ dag \subseteq Certificate
    /\ consensusGc \in Nat /\ gcRound \in Nat
    /\ suspended \subseteq Certificate
    /\ missingOf \in [Certificate -> SUBSET Certificate]
    /\ missing \in [Certificate -> SUBSET Certificate]
    /\ aggregated \subseteq Certificate
    /\ recovering \in SUBSET Certificate
    /\ queue \in Seq(Message) /\ batch \in Message
    /\ acceptor \in {"idle", "filtered", "locked"}
    /\ collector \in {"idle", "stored", "locked"}
    /\ toTraverse \in Seq(Certificate) /\ toAccept \in Seq(Certificate)
    /\ written \in BOOLEAN
    /\ panicked \in {"none", "inconsistent missing", "reinserted",
                     "still suspended", "child not suspended",
                     "parent not stored", "parent not in dag"}
    /\ crashes \in 0 .. MaxCrash
    /\ ~(acceptor = "locked" /\ collector = "locked")
    /\ toTraverse # <<>> \/ toAccept # <<>> =>
          acceptor = "locked" \/ collector = "locked"

NoMessage == [certificates |-> <<>>, early |-> FALSE]

Init ==
    /\ store = {} /\ consensusGc = 0 /\ dag = {} /\ gcRound = 0
    /\ suspended = {}
    /\ missingOf = [c \in Certificate |-> {}]
    /\ missing = [c \in Certificate |-> {}]
    /\ aggregated = {} /\ recovering = {}
    /\ queue = <<>> /\ batch = NoMessage /\ acceptor = "idle"
    /\ collector = "idle"
    /\ toTraverse = <<>> /\ toAccept = <<>> /\ written = FALSE
    /\ panicked = "none" /\ crashes = 0

LockFree == acceptor # "locked" /\ collector # "locked"

(* highest_processed_round: raised with every write to the store, and read *)
(* back from it at a restart.                                              *)
HighestProcessedRound ==
    IF store = {} THEN 0
    ELSE CHOOSE r \in {RoundOf[c] : c \in store} : \A c \in store : RoundOf[c] <= r

(* The sequences that contain every member of a set once.                  *)
Enumerations(S) == Bijection(1 .. Cardinality(S), S)

Panic(site) ==
    /\ panicked' = site
    /\ UNCHANGED <<store, consensusGc, dag, gcRound, State, aggregated,
                   recovering, intake, collector, traversal, crashes>>
-----------------------------------------------------------------------------
(* Certificates arrive.                                                    *)

(* try_accept_certificate: a certificate broadcast by its author, if it is *)
(* not stored, not suspended and above gc_round, and not too new.          *)
ReceiveBroadcast(c) ==
    /\ Len(queue) < MaxQueue
    /\ c \notin store
    /\ LockFree /\ c \notin suspended
    /\ RoundOf[c] > gcRound
    /\ RoundOf[c] <= HighestProcessedRound + RoundLimit
    /\ queue' = Append(queue, [certificates |-> <<c>>, early |-> TRUE])
    /\ UNCHANGED <<store, consensusGc, dag, gcRound, State, aggregated,
                   recovering, batch, acceptor, collector, traversal,
                   panicked, crashes>>

(* try_accept_fetched_certificates: only the leaves of the batch are       *)
(* verified, and with them that they are above gc_round.                   *)
ReceiveFetched(s) ==
    /\ Len(queue) < MaxQueue
    /\ \A i \in DOMAIN s :
          (\A j \in DOMAIN s : s[i] \notin Parents[s[j]]) => RoundOf[s[i]] > gcRound
    /\ \A i \in DOMAIN s : RoundOf[s[i]] <= HighestProcessedRound + RoundLimit
    /\ queue' = Append(queue, [certificates |-> s, early |-> FALSE])
    /\ UNCHANGED <<store, consensusGc, dag, gcRound, State, aggregated,
                   recovering, batch, acceptor, collector, traversal,
                   panicked, crashes>>
-----------------------------------------------------------------------------
(* The acceptor task, process_certificates_with_lock.                      *)

(* The certificates that are stored already are dropped, before the lock.  *)
FilterStored ==
    /\ acceptor = "idle" /\ queue # <<>>
    /\ LET m == Head(queue)
           unstored == {i \in DOMAIN m.certificates : m.certificates[i] \notin store}
       IN \E at \in Enumerations(unstored) :
             /\ \A j, k \in DOMAIN at : j < k => at[j] < at[k]
             /\ IF at = <<>>
                THEN UNCHANGED <<batch, acceptor>>
                ELSE /\ batch' = [m EXCEPT !.certificates =
                                     [k \in DOMAIN at |-> m.certificates[at[k]]]]
                     /\ acceptor' = "filtered"
    /\ queue' = Tail(queue)
    /\ UNCHANGED <<store, consensusGc, dag, gcRound, State, aggregated,
                   recovering, collector, traversal, panicked, crashes>>

(* The task waits for the lock, if any certificate is left.                *)
AcceptorLock ==
    /\ acceptor = "filtered" /\ LockFree
    /\ acceptor' = "locked"
    /\ UNCHANGED <<store, consensusGc, dag, gcRound, State, aggregated,
                   recovering, queue, batch, collector, traversal, panicked,
                   crashes>>

NextInBatch == batch' = [batch EXCEPT !.certificates = Tail(@)]

MissingParents(c) == Parents[c] \ store

(* Mutant of ParentsCollected: one round too many.                         *)
ParentsCollected_OneMore(c) == RoundOf[c] <= gcRound + 2

(* The parents of c are at or below gc_round: they are not looked for.     *)
ParentsCollected(c) == RoundOf[c] <= gcRound + 1

(* State::insert, allow_reinsert being the opposite of early_suspend.      *)
Insert(c) ==
    IF c \in suspended
    THEN IF batch.early
         THEN Panic("reinserted")
         ELSE IF missingOf[c] # MissingParents(c)
              THEN Panic("inconsistent missing")
              ELSE /\ NextInBatch
                   /\ UNCHANGED <<State, panicked>>
    ELSE IF \E p \in MissingParents(c) : c \in missing[p]
         THEN Panic("reinserted")
         ELSE /\ suspended' = suspended \cup {c}
              /\ missingOf' = [missingOf EXCEPT ![c] = MissingParents(c)]
              /\ missing' = [p \in Certificate |->
                    IF p \in MissingParents(c) THEN missing[p] \cup {c}
                                               ELSE missing[p]]
              /\ NextInBatch
              /\ UNCHANGED panicked

(* One certificate of the batch: skipped when a broadcast finds it         *)
(* suspended, suspended when parents above gc_round are missing, accepted  *)
(* with its children otherwise (accept_children starts here).              *)
ProcessCertificate ==
    /\ acceptor = "locked" /\ batch.certificates # <<>>
    /\ toTraverse = <<>> /\ toAccept = <<>>
    /\ LET c == Head(batch.certificates) IN
       \/ /\ batch.early /\ c \in suspended
          /\ NextInBatch
          /\ UNCHANGED <<State, traversal, panicked>>
       \/ /\ ~(batch.early /\ c \in suspended)
          /\ ~ParentsCollected(c) /\ MissingParents(c) # {}
          /\ Insert(c)
          /\ UNCHANGED traversal
       \/ /\ ~(batch.early /\ c \in suspended)
          /\ ParentsCollected(c) \/ MissingParents(c) = {}
          /\ IF c \in suspended
             THEN Panic("still suspended")
             ELSE /\ toTraverse' = <<c>> /\ toAccept' = <<c>>
                  /\ NextInBatch
                  /\ UNCHANGED <<State, written, panicked>>
    /\ UNCHANGED <<store, consensusGc, dag, gcRound, aggregated, recovering,
                   queue, acceptor, collector, crashes>>

AcceptorUnlock ==
    /\ acceptor = "locked" /\ batch.certificates = <<>>
    /\ toTraverse = <<>> /\ toAccept = <<>>
    /\ acceptor' = "idle" /\ batch' = NoMessage
    /\ UNCHANGED <<store, consensusGc, dag, gcRound, State, aggregated,
                   recovering, queue, collector, traversal, panicked, crashes>>
-----------------------------------------------------------------------------
(* With the lock, for either task.                                         *)

(* Mutant of VisitChildren: the children are not told.                     *)
VisitChildren_Skip ==
    /\ toTraverse # <<>>
    /\ toTraverse' = Tail(toTraverse)
    /\ UNCHANGED <<store, consensusGc, dag, gcRound, State, aggregated,
                   recovering, intake, collector, toAccept, written, panicked,
                   crashes>>

(* One turn of the loop of State::accept_children: the children of a       *)
(* certificate lose it as a missing parent; those without another one are  *)
(* accepted, in the arbitrary order of a hash set, and visited in turn.    *)
VisitChildren ==
    /\ toTraverse # <<>>
    /\ LET d == Head(toTraverse)
           children == missing[d]
           ready == {c \in children : missingOf[c] \subseteq {d}}
       IN IF children \subseteq suspended
          THEN /\ missing' = [missing EXCEPT ![d] = {}]
               /\ missingOf' = [c \in Certificate |->
                     IF c \in children THEN missingOf[c] \ {d} ELSE missingOf[c]]
               /\ suspended' = suspended \ ready
               /\ \E s \in Enumerations(ready) :
                     /\ toTraverse' = Tail(toTraverse) \o s
                     /\ toAccept' = toAccept \o s
               /\ UNCHANGED <<written, panicked>>
          ELSE /\ panicked' = "child not suspended"
               /\ UNCHANGED <<State, traversal>>
    /\ UNCHANGED <<store, consensusGc, dag, gcRound, aggregated, recovering,
                   intake, collector, crashes>>

(* accept_certificate_internal, to the write: the parents are validated.   *)
WriteCertificate ==
    /\ toTraverse = <<>> /\ toAccept # <<>> /\ ~written
    /\ LET c == Head(toAccept) IN
       IF ~ParentsCollected(c) /\ MissingParents(c) # {}
       THEN /\ panicked' = "parent not stored"
            /\ UNCHANGED <<store, written>>
       ELSE /\ store' = store \cup {c}
            /\ written' = TRUE
            /\ UNCHANGED panicked
    /\ UNCHANGED <<consensusGc, dag, gcRound, State, aggregated, recovering,
                   intake, collector, toTraverse, toAccept, crashes>>

(* ... and after it: the aggregator, then consensus, whose try_insert      *)
(* ignores what is at or below its gc_round and checks the parents.        *)
SendCertificate ==
    /\ written
    /\ LET c == Head(toAccept) IN
       /\ aggregated' = aggregated \cup {c}
       /\ IF RoundOf[c] > consensusGc + 1 /\ ~(Parents[c] \subseteq dag)
          THEN /\ panicked' = "parent not in dag"
               /\ UNCHANGED dag
          ELSE /\ dag' = IF RoundOf[c] > consensusGc THEN dag \cup {c} ELSE dag
               /\ UNCHANGED panicked
    /\ toAccept' = Tail(toAccept) /\ written' = FALSE
    /\ UNCHANGED <<store, consensusGc, gcRound, State, recovering, intake,
                   collector, toTraverse, crashes>>
-----------------------------------------------------------------------------
(* The garbage collection task.                                            *)

(* A commit was reported: gc_round is stored and old aggregators dropped,  *)
(* before the lock is taken.                                               *)
StoreGcRound ==
    /\ collector = "idle" /\ gcRound < consensusGc
    /\ gcRound' = consensusGc
    /\ aggregated' = {c \in aggregated : RoundOf[c] > consensusGc}
    /\ collector' = "stored"
    /\ UNCHANGED <<store, consensusGc, dag, State, recovering, intake,
                   traversal, panicked, crashes>>

(* The task waits for the lock.                                            *)
CollectorLock ==
    /\ collector = "stored" /\ LockFree
    /\ collector' = "locked"
    /\ UNCHANGED <<store, consensusGc, dag, gcRound, State, aggregated,
                   recovering, intake, traversal, panicked, crashes>>

(* Mutant of Collectable: certificates of gc_round itself are kept.        *)
Collectable_Below(d) == missing[d] # {} /\ RoundOf[d] < gcRound

(* Certificates wait for d, which is not above gc_round.                   *)
Collectable(d) == missing[d] # {} /\ RoundOf[d] <= gcRound

(* State::run_gc_once takes the lowest missing certificate d while it is   *)
(* not above gc_round, together with d itself if d is suspended; then its  *)
(* children are visited.                                                   *)
CollectOne(d) ==
    /\ collector = "locked" /\ toTraverse = <<>> /\ toAccept = <<>>
    /\ Collectable(d)
    /\ \A p \in Certificate : missing[p] # {} => RoundOf[d] <= RoundOf[p]
    /\ suspended' = suspended \ {d}
    /\ missingOf' = [missingOf EXCEPT ![d] = {}]
    /\ toAccept' = IF d \in suspended THEN <<d>> ELSE <<>>
    /\ toTraverse' = <<d>>
    /\ UNCHANGED <<store, consensusGc, dag, gcRound, missing, aggregated,
                   recovering, intake, collector, written, panicked, crashes>>

(* Mutant of CollectorUnlock: the lock is kept until nothing is missing.   *)
CollectorUnlock_Empty ==
    /\ collector = "locked" /\ toTraverse = <<>> /\ toAccept = <<>>
    /\ \A p \in Certificate : missing[p] = {}
    /\ collector' = "idle"
    /\ UNCHANGED <<store, consensusGc, dag, gcRound, State, aggregated,
                   recovering, intake, traversal, panicked, crashes>>

CollectorUnlock ==
    /\ collector = "locked" /\ toTraverse = <<>> /\ toAccept = <<>>
    /\ \A p \in Certificate : ~Collectable(p)
    /\ collector' = "idle"
    /\ UNCHANGED <<store, consensusGc, dag, gcRound, State, aggregated,
                   recovering, intake, traversal, panicked, crashes>>
-----------------------------------------------------------------------------
(* Consensus and restarts.                                                 *)

(* Consensus commits a leader of an even round with support in the next:   *)
(* the commit is persisted, the dag is purged and the round published.     *)
ConsensusCommit(l) ==
    /\ l \in dag /\ RoundOf[l] % 2 = 0
    /\ \E c \in dag : l \in Parents[c]
    /\ RoundOf[l] > consensusGc + GcDepth
    /\ consensusGc' = RoundOf[l] - GcDepth
    /\ dag' = {c \in dag : RoundOf[c] > RoundOf[l] - GcDepth}
    /\ UNCHANGED <<store, gcRound, State, aggregated, recovering, intake,
                   collector, traversal, panicked, crashes>>

(* One certificate of last_two_rounds_certs goes to its aggregator again.  *)
RecoverCertificate(c) ==
    /\ c \in recovering
    /\ recovering' = recovering \ {c}
    /\ aggregated' = aggregated \cup {c}
    /\ UNCHANGED <<store, consensusGc, dag, gcRound, State, intake, collector,
                   traversal, panicked, crashes>>

LastTwoRounds == {c \in store : RoundOf[c] >= HighestProcessedRound - 1}

(* Mutants of RecoveredParents and RecoveredDag: only the last round is    *)
(* read back; the dag starts one round too high.                           *)
RecoveredParents_OneRound == {c \in store : RoundOf[c] = HighestProcessedRound}
RecoveredDag_OneMore == {c \in store : RoundOf[c] > consensusGc + 1}

(* last_two_rounds_certs, for the aggregators.                             *)
RecoveredParents == LastTwoRounds

(* construct_dag_from_cert_store.                                          *)
RecoveredDag == {c \in store : RoundOf[c] > consensusGc}

(* A crash, or the abort after a failed assertion, and the restart.        *)
Restart ==
    /\ crashes < MaxCrash /\ crashes' = crashes + 1
    /\ dag' = RecoveredDag
    /\ gcRound' = consensusGc
    /\ suspended' = {}
    /\ missingOf' = [c \in Certificate |-> {}]
    /\ missing' = [c \in Certificate |-> {}]
    /\ aggregated' = {} /\ recovering' = RecoveredParents
    /\ queue' = <<>> /\ batch' = NoMessage /\ acceptor' = "idle"
    /\ collector' = "idle"
    /\ toTraverse' = <<>> /\ toAccept' = <<>> /\ written' = FALSE
    /\ panicked' = "none"
    /\ UNCHANGED <<store, consensusGc>>
-----------------------------------------------------------------------------
Batches == UNION {[1 .. n -> Certificate] : n \in 1 .. MaxBatch}

Acceptor == FilterStored \/ AcceptorLock \/ ProcessCertificate \/ AcceptorUnlock

Locked == VisitChildren \/ WriteCertificate \/ SendCertificate

Collector ==
    \/ StoreGcRound \/ CollectorLock \/ CollectorUnlock
    \/ \E d \in Certificate : CollectOne(d)

Next ==
    \/ /\ panicked = "none"
       /\ \/ \E c \in Certificate : ReceiveBroadcast(c)
          \/ \E s \in Batches : ReceiveFetched(s)
          \/ Acceptor \/ Locked \/ Collector
          \/ \E l \in Certificate : ConsensusCommit(l)
          \/ \E c \in Certificate : RecoverCertificate(c)
    \/ Restart

Spec == Init /\ [][Next]_vars

(* The tasks run, and every certificate above gc_round is received in the  *)
(* end.  This is an assumption on the network: the fetcher alone stops at  *)
(* a later certificate of the same origin, see module CertificateFetcher.  *)
Fairness ==
    /\ WF_vars(panicked = "none" /\ (Acceptor \/ Locked \/ Collector))
    /\ \A c \in Certificate :
          SF_vars(panicked = "none" /\ c \notin store /\ ReceiveFetched(<<c>>))

FairSpec == Spec /\ Fairness
-----------------------------------------------------------------------------
(* No assertion of the synchronizer or of the consensus dag ever fails:    *)
(* reinsertion with another set of missing parents, acceptance of a        *)
(* suspended certificate, a child of a missing parent that is not          *)
(* suspended, a parent that is absent from the store or from the dag.      *)
NoPanic == panicked = "none"

(* The same but for accept_children finding its certificate suspended.     *)
OnlySuspendedPanic == panicked \in {"none", "still suspended"}

(* The store can be recovered from at any moment: every stored certificate *)
(* above the parents that the last persisted commit garbage-collects has   *)
(* all its parents stored (construct_dag_from_cert_store checks them).     *)
StoreCausal ==
    \A c \in store : RoundOf[c] > consensusGc + 1 => Parents[c] \subseteq store

(* Whenever the lock is free the suspended certificates, their missing     *)
(* parents and the store agree: a suspended certificate is not stored, it  *)
(* waits for exactly its parents that are not, and `missing' is the        *)
(* inverse map.                                                            *)
SuspensionConsistent ==
    LockFree /\ panicked = "none" =>
       /\ \A c \in suspended : /\ c \notin store
                               /\ missingOf[c] = MissingParents(c)
                               /\ missingOf[c] # {}
       /\ \A p, c \in Certificate :
             c \in missing[p] <=> c \in suspended /\ p \in missingOf[c]

(* No certificate stays suspended on parents that will never come: while   *)
(* the tasks rest, the missing parents of a suspended certificate are all  *)
(* above gc_round.  As each of them is suspended or was never received     *)
(* (SuspensionConsistent), some ancestor above gc_round was never received *)
(* and fetching it is all that is needed.                                  *)
SuspendedForAReason ==
    LockFree /\ collector = "idle" /\ panicked = "none" =>
       \A c \in suspended : RoundOf[c] > gcRound + 1

(* After a restart the proposer gets its parents back: once recovery has   *)
(* run, every stored certificate of the last two rounds above gc_round is  *)
(* in an aggregator.                                                       *)
ParentsRecovered ==
    LockFree /\ recovering = {} /\ panicked = "none" =>
       \A c \in LastTwoRounds : RoundOf[c] > gcRound => c \in aggregated

(* A suspended certificate is accepted in the end: its ancestors are       *)
(* fetched, or consensus moves on and garbage collection releases it;      *)
(* unless the process aborts.                                              *)
EventuallyAccepted ==
    \A c \in Certificate :
       c \in suspended ~> (c \in store \/ panicked # "none")
=============================================================================
