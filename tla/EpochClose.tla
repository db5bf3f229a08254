----------------------------- MODULE EpochClose -----------------------------
(***************************************************************************)
(* How validators agree on the last certificates of an epoch.  The         *)
(* consensus adapter keeps what it must get sequenced in a table and runs  *)
(* a task for each item (consensus_adapter.rs); once its epoch is to close *)
(* and its certificates are processed, a validator sends EndOfPublish; the *)
(* handlers of all validators process the same commits at their own pace   *)
(* (consensus_handler.rs, authority_per_epoch_store.rs) and reject further *)
(* certificates when a quorum has sent it.  Certificates that use          *)
(* randomness are deferred until two more rounds of it are written.        *)
(*                                                                         *)
(* A certificate stands for its digest, and a validator for the key of its *)
(* EndOfPublish message.                                                   *)
(***************************************************************************)
EXTENDS Committee, Sequences

CONSTANTS
    Certificate,      \* user certificates with shared objects
    Randomness,       \* the possible sets of those that use randomness
    Clients,          \* environment: who may be sent which certificate
    MaxLag,           \* bound: commits between the first and the last handler
    MaxCrash          \* bound: restarts

ASSUME EpochCloseAssumption ==
    /\ Randomness \subseteq SUBSET Certificate
    /\ Certificate \cap Authority = {}
    /\ Clients \subseteq Authority \X Certificate
    /\ MaxLag \in Nat \ {0} /\ MaxCrash \in Nat

VARIABLES
    random,         \* certificates with the randomness object as an input
    reconfig,       \* persistent: ReconfigState
    pending,        \* persistent: pending_consensus_transactions
    tasks,          \* submit_and_wait tasks: an item and how far it is
    worker,         \* what the own Narwhal worker has and is not sequenced
    commits,        \* commits that not every validator has handled
    handled,        \* persistent: how many of them each one has handled
    cache,          \* ConsensusHandler.processed_cache
    processed,      \* persistent: consensus_message_processed
    endOfPublish,   \* persistent: end_of_publish
    deferred,       \* persistent: deferred_transactions
    executed,       \* persistent: certificates scheduled for execution
    checkpoints,    \* persistent: pending_checkpoints, one for each commit
    accepted,       \* history: certificates acknowledged to a client
    warned,         \* history: those met after the EndOfPublish of their author
    crashes

handler == <<random, cache, processed, endOfPublish, deferred, executed,
             checkpoints, warned>>
vars == <<reconfig, pending, tasks, worker, accepted, commits, handled, handler,
          crashes>>

Stage == {"send", "start", "waiting", "submitted", "processed", "removed"}

Status ==
    {"AcceptAllCerts", "RejectUserCerts", "RejectAllCerts", "RejectAllTx"}

Item == Certificate \cup Authority

Transaction == [cert : Certificate, author : Authority]

Waiting == [tx : Transaction, wait : 1 .. 2]

PendingCheckpoint == [roots : SUBSET Certificate, last : BOOLEAN]

(* A commit: who submitted which certificate, and the order of the         *)
(* EndOfPublish messages.                                                  *)
CommitRecord ==
    [certs : UNION {[C -> Authority] : C \in SUBSET Certificate},
     ends : Seq(Authority), randomness : BOOLEAN]

None == [v \in Authority |-> {}]

Init ==
    /\ random \in Randomness
    /\ reconfig = [v \in Authority |-> "AcceptAllCerts"]
    /\ pending = None /\ tasks = None /\ worker = None
    /\ commits = <<>> /\ handled = [v \in Authority |-> 0]
    /\ cache = None /\ processed = None /\ endOfPublish = None
    /\ deferred = None /\ executed = None
    /\ checkpoints = [v \in Authority |-> <<>>]
    /\ accepted = None /\ warned = None /\ crashes = 0
-----------------------------------------------------------------------------
(* The consensus adapter.                                                  *)

PendingCertificates(v) == pending[v] \cap Certificate

(* handle_certificate under the read lock of the reconfiguration state: a  *)
(* client's certificate, also a second time, is persisted and a task is    *)
(* spawned for it.                                                         *)
HandleCertificate(v, c) ==
    /\ <<v, c>> \in Clients
    /\ reconfig[v] = "AcceptAllCerts" /\ c \notin processed[v]
    /\ pending' = [pending EXCEPT ![v] = @ \cup {c}]
    /\ tasks' = [tasks EXCEPT ![v] = @ \cup {<<c, "start">>}]
    /\ accepted' = [accepted EXCEPT ![v] = @ \cup {c}]
    /\ UNCHANGED <<reconfig, worker, commits, handled, handler, crashes>>

Advance(v, item, from, to) ==
    /\ <<item, from>> \in tasks[v]
    /\ tasks' = [tasks EXCEPT ![v] = (@ \ {<<item, from>>}) \cup {<<item, to>>}]

(* consensus_message_processed_notify: what is in the database counts as   *)
(* processed, otherwise the task waits to be notified.                     *)
RegisterWaiter(v, item) ==
    /\ Advance(v, item, "start",
               IF item \in processed[v] THEN "processed" ELSE "waiting")
    /\ UNCHANGED <<reconfig, pending, worker, accepted, commits, handled,
                   handler, crashes>>

(* Mutant: the task is done once the worker has taken the transaction.     *)
SubmitToConsensus_Done(v, item) ==
    /\ Advance(v, item, "waiting", "processed")
    /\ worker' = [worker EXCEPT ![v] = @ \cup {item}]
    /\ UNCHANGED <<reconfig, pending, accepted, commits, handled, handler,
                   crashes>>

(* The delay is over, and the worker has taken the transaction.            *)
SubmitToConsensus(v, item) ==
    /\ Advance(v, item, "waiting", "submitted")
    /\ worker' = [worker EXCEPT ![v] = @ \cup {item}]
    /\ UNCHANGED <<reconfig, pending, accepted, commits, handled, handler,
                   crashes>>

RemovePending(v, item) ==
    /\ Advance(v, item, "processed", "removed")
    /\ pending' = [pending EXCEPT ![v] = @ \ {item}]
    /\ UNCHANGED <<reconfig, worker, accepted, commits, handled, handler,
                   crashes>>

(* Whether the task that removed its certificate has to send EndOfPublish. *)
Drained(v, item) ==
    /\ item \in Certificate /\ reconfig[v] = "RejectUserCerts"
    /\ PendingCertificates(v) = {}

FinishTask(v, item) ==
    /\ <<item, "removed">> \in tasks[v]
    /\ tasks' = [tasks EXCEPT ![v] =
                   (@ \ {<<item, "removed">>})
                   \cup (IF Drained(v, item) THEN {<<v, "send">>} ELSE {})]
    /\ UNCHANGED <<reconfig, pending, worker, accepted, commits, handled,
                   handler, crashes>>

(* submit(EndOfPublish), outside of any lock.                              *)
SendEndOfPublish(v) ==
    /\ Advance(v, v, "send", "start")
    /\ pending' = [pending EXCEPT ![v] = @ \cup {v}]
    /\ UNCHANGED <<reconfig, worker, accepted, commits, handled, handler,
                   crashes>>

(* Mutant of CloseEpoch: certificates that are pending are not looked at.  *)
CloseEpoch_Always(v) ==
    /\ reconfig[v] = "AcceptAllCerts"
    /\ reconfig' = [reconfig EXCEPT ![v] = "RejectUserCerts"]
    /\ tasks' = [tasks EXCEPT ![v] = @ \cup {<<v, "send">>}]
    /\ UNCHANGED <<pending, worker, accepted, commits, handled, handler,
                   crashes>>

(* close_epoch, under the write lock; the message is sent after it.        *)
CloseEpoch(v) ==
    /\ reconfig[v] = "AcceptAllCerts"
    /\ reconfig' = [reconfig EXCEPT ![v] = "RejectUserCerts"]
    /\ tasks' = [tasks EXCEPT ![v] =
                   @ \cup (IF PendingCertificates(v) = {} THEN {<<v, "send">>}
                                                          ELSE {})]
    /\ UNCHANGED <<pending, worker, accepted, commits, handled, handler,
                   crashes>>
-----------------------------------------------------------------------------
(* Consensus (external): a commit takes any of what the workers hold, and  *)
(* may bring a round of randomness.  Two copies of a certificate in one    *)
(* commit count as the first of them.  Commits that would change nothing   *)
(* but add a pending checkpoint without roots are left out.                *)
Awaited == commits # <<>> \/ \E v \in Authority : deferred[v] # {}

Closing == \E v \in Authority : reconfig[v] = "RejectAllCerts"

Enumerations(S) == Bijection(1 .. Cardinality(S), S)

Commit(taken, randomness) ==
    /\ Len(commits) < MaxLag
    /\ randomness => Awaited
    /\ taken # {} \/ randomness \/ (Closing /\ ~Awaited)
    /\ LET items == {t[2] : t \in taken} IN
       \E author \in [items \cap Certificate -> Authority],
          ends \in Enumerations(items \cap Authority) :
          /\ \A c \in DOMAIN author : <<author[c], c>> \in taken
          /\ commits' = Append(commits, [certs |-> author, ends |-> ends,
                                         randomness |-> randomness])
    /\ worker' = [v \in Authority |->
                    {i \in worker[v] : <<v, i>> \notin taken}]
    /\ UNCHANGED <<reconfig, pending, tasks, accepted, handled, handler,
                   crashes>>

Submitted == UNION {{v} \X worker[v] : v \in Authority}
-----------------------------------------------------------------------------
(* The consensus handler.                                                  *)

(* Mutant of AcceptsConsensusCerts: certificates that are sequenced are    *)
(* rejected as soon as those of users are.                                 *)
AcceptsConsensusCerts_Local(v) == reconfig[v] = "AcceptAllCerts"

AcceptsConsensusCerts(v) ==
    reconfig[v] \in {"AcceptAllCerts", "RejectUserCerts"}

(* What the handler skips: keys in its cache or recorded as processed.     *)
Seen(v) == cache[v] \cup processed[v]

(* The transactions of the commit k that v has not seen.                   *)
Fresh(v, k) ==
    {[cert |-> c, author |-> k.certs[c]] : c \in DOMAIN k.certs \ Seen(v)}

(* Those deferred until a round of randomness that is now written.         *)
Due(v, k) ==
    {d \in deferred[v] : d.wait <= (IF k.randomness THEN 1 ELSE 0)}

Ready(v, k) == {d.tx : d \in Due(v, k)}

(* process_consensus_transaction, for a transaction that is new or ready.  *)
Warned(v, k) ==
    {t \in Fresh(v, k) \cup Ready(v, k) : t.author \in endOfPublish[v]}

Ignored(v, k) ==
    Warned(v, k) \cup (IF AcceptsConsensusCerts(v) THEN {} ELSE Fresh(v, k))

NewDeferred(v, k) ==
    {t \in Fresh(v, k) \ Ignored(v, k) : t.cert \in random}

Scheduled(v, k) ==
    {t.cert : t \in (Fresh(v, k) \cup Ready(v, k))
                      \ (Ignored(v, k) \cup NewDeferred(v, k))}

NewEnds(v, k) == Range(k.ends) \ Seen(v)

(* New messages join the counted ones in the order of the commit, until    *)
(* those before them make a quorum.                                        *)
Collect(counted, new, ends) ==
    LET before(i) == counted \cup (new \cap {ends[j] : j \in 1 .. i - 1})
    IN counted \cup {ends[i] : i \in {n \in DOMAIN ends :
                        ends[n] \in new /\ ~ReachedQuorum(before(n))}}

EndOfPublishAfter(v, k) ==
    IF AcceptsConsensusCerts(v)
    THEN Collect(endOfPublish[v], NewEnds(v, k), k.ends)
    ELSE endOfPublish[v]

(* Mutant of FinalRound: the end waits for a commit with randomness.       *)
FinalRound_Never(v, k) == deferred[v] # {} /\ NewDeferred(v, k) = {}

(* The table of deferred transactions is read as it was before the commit. *)
FinalRound(v, k) == deferred[v] = {} /\ NewDeferred(v, k) = {}

ReconfigAfter(v, k, ends) ==
    LET collected == AcceptsConsensusCerts(v) /\ ReachedQuorum(ends) IN
    IF collected \/ reconfig[v] = "RejectAllCerts"
    THEN IF FinalRound(v, k) THEN "RejectAllTx" ELSE "RejectAllCerts"
    ELSE reconfig[v]

(* Who has handled a commit; the one that everybody handled is forgotten.  *)
Forward(v) ==
    LET n == [handled EXCEPT ![v] = @ + 1]
        done == \A w \in Authority : n[w] > 0
    IN /\ handled' = [w \in Authority |-> IF done THEN n[w] - 1 ELSE n[w]]
       /\ commits' = IF done THEN Tail(commits) ELSE commits

HandleConsensusOutput(v) ==
    /\ handled[v] < Len(commits)
    /\ LET k == commits[handled[v] + 1]
           eop == EndOfPublishAfter(v, k)
           scheduled == Scheduled(v, k)
           notified == scheduled \cup NewEnds(v, k)
           waits(d) == [d EXCEPT !.wait = IF k.randomness THEN @ - 1 ELSE @]
       IN /\ reconfig' = [reconfig EXCEPT ![v] = ReconfigAfter(v, k, eop)]
          /\ endOfPublish' = [endOfPublish EXCEPT ![v] = eop]
          /\ executed' = [executed EXCEPT ![v] = @ \cup scheduled]
          /\ deferred' = [deferred EXCEPT ![v] =
                {waits(d) : d \in @ \ Due(v, k)}
                \cup {[tx |-> t, wait |-> 2] : t \in NewDeferred(v, k)}]
          /\ processed' = [processed EXCEPT ![v] =
                @ \cup notified \cup {t.cert : t \in NewDeferred(v, k)}]
          /\ cache' = [cache EXCEPT ![v] =
                @ \cup DOMAIN k.certs \cup Range(k.ends)]
          /\ checkpoints' = [checkpoints EXCEPT ![v] =
                IF reconfig[v] = "RejectAllTx" THEN @
                ELSE Append(@, [roots |-> {t.cert : t \in Fresh(v, k)},
                                last |-> ReconfigAfter(v, k, eop) = "RejectAllTx"])]
          /\ warned' = [warned EXCEPT ![v] = @ \cup
                {[cert |-> t.cert, deferred |-> t \in Ready(v, k)] :
                   t \in Warned(v, k)}]
          /\ tasks' = [tasks EXCEPT ![v] =
                {IF x[1] \in notified /\ x[2] \in {"waiting", "submitted"}
                 THEN <<x[1], "processed">> ELSE x : x \in @}]
    /\ Forward(v)
    /\ UNCHANGED <<random, pending, worker, accepted, crashes>>

(* A restart: tasks and the cache are gone, the worker may have lost what  *)
(* it was given, and submit_recovered submits what is pending.  It adds an *)
(* EndOfPublish only where one is among the pending items already.         *)
Restart(v) ==
    /\ crashes < MaxCrash /\ crashes' = crashes + 1
    /\ \E kept \in SUBSET worker[v] : worker' = [worker EXCEPT ![v] = kept]
    /\ tasks' = [tasks EXCEPT ![v] = pending[v] \X {"start"}]
    /\ cache' = [cache EXCEPT ![v] = {}]
    /\ UNCHANGED <<reconfig, pending, accepted, commits, handled, random,
                   processed, endOfPublish, deferred, executed, checkpoints,
                   warned>>

TaskStep(v, item) ==
    \/ RegisterWaiter(v, item) \/ SubmitToConsensus(v, item)
    \/ RemovePending(v, item) \/ FinishTask(v, item)

AdapterStep(v) ==
    \/ \E x \in tasks[v] : TaskStep(v, x[1])
    \/ SendEndOfPublish(v) \/ CloseEpoch(v)

Ended == \A v \in Authority : reconfig[v] = "RejectAllTx"

Next ==
    /\ ~Ended
    /\ \/ \E v \in Authority, c \in Certificate : HandleCertificate(v, c)
       \/ \E v \in Authority :
             AdapterStep(v) \/ HandleConsensusOutput(v) \/ Restart(v)
       \/ \E taken \in SUBSET Submitted, r \in BOOLEAN : Commit(taken, r)

Spec == Init /\ [][Next]_vars

(* Adapters and handlers go on, the epoch is closed in the end by its      *)
(* timer, and consensus sequences what the workers hold and goes on with   *)
(* rounds of randomness while a certificate waits for them.                *)
Fairness ==
    /\ \A v \in Authority :
          WF_vars(AdapterStep(v)) /\ WF_vars(HandleConsensusOutput(v))
    /\ SF_vars(Commit(Submitted, Awaited))

FairSpec == Spec /\ Fairness
-----------------------------------------------------------------------------
(* Types of the variables.                                                 *)
TypeOK ==
    /\ random \subseteq Certificate
    /\ reconfig \in [Authority -> Status]
    /\ pending \in [Authority -> SUBSET Item]
    /\ worker \in [Authority -> SUBSET Item]
    /\ tasks \in [Authority -> SUBSET (Item \X Stage)]
    /\ \A v \in Authority :
          /\ pending[v] \cup worker[v] \subseteq Certificate \cup {v}
          /\ tasks[v] \subseteq (Certificate \cup {v}) \X Stage
    /\ commits \in Seq(CommitRecord)
    /\ handled \in [Authority -> 0 .. Len(commits)]
    /\ cache \in [Authority -> SUBSET Item]
    /\ processed \in [Authority -> SUBSET Item]
    /\ endOfPublish \in [Authority -> SUBSET Authority]
    /\ deferred \in [Authority -> SUBSET Waiting]
    /\ executed \in [Authority -> SUBSET Certificate]
    /\ checkpoints \in [Authority -> Seq(PendingCheckpoint)]
    /\ accepted \in [Authority -> SUBSET Certificate]
    /\ warned \in [Authority -> SUBSET [cert : Certificate, deferred : BOOLEAN]]

(* The pending checkpoints of v with the roots that it did not ignore.     *)
Settled(v) ==
    [n \in DOMAIN checkpoints[v] |->
       [roots |-> checkpoints[v][n].roots \cap processed[v],
        last |-> checkpoints[v][n].last]]

(* Validators that have handled the same commits have the same tables, and *)
(* agree whether certificates are still accepted and whether the epoch is  *)
(* over, although one may have restarted and lost its cache of keys and    *)
(* another may have closed its epoch earlier.  This includes the pending   *)
(* checkpoint of every commit, up to roots that were ignored: the key of a *)
(* certificate that came after the quorum of EndOfPublish is in the cache  *)
(* only, and if it is sequenced again, who lost the cache makes it a root  *)
(* again and the others skip it.                                           *)
SameCommitsSameState ==
    \A v, w \in Authority : handled[v] = handled[w] =>
       /\ processed[v] = processed[w] /\ endOfPublish[v] = endOfPublish[w]
       /\ deferred[v] = deferred[w] /\ executed[v] = executed[w]
       /\ Settled(v) = Settled(w)
       /\ AcceptsConsensusCerts(v) = AcceptsConsensusCerts(w)
       /\ reconfig[v] = "RejectAllTx" <=> reconfig[w] = "RejectAllTx"

(* "This can not happen with valid authority": a new certificate after the *)
(* EndOfPublish of its author; what was deferred before is not new.        *)
NothingNewAfterEndOfPublish ==
    \A v \in Authority : \A x \in warned[v] : x.deferred

(* The certificates that v deferred and then dropped, because their author *)
(* had sent EndOfPublish in the meantime.                                  *)
Dropped(v) == {x.cert : x \in {y \in warned[v] : y.deferred}}

(* What EndOfPublish stands for: when certificates are no longer accepted, *)
(* each one that a counted validator promised a client to get sequenced is *)
(* executed or waits for its randomness, and when the epoch is over, it is *)
(* executed.  The only ones lost are those that were deferred and then     *)
(* dropped.                                                                *)
AcceptedSurvive ==
    \A v \in Authority : ~AcceptsConsensusCerts(v) =>
       \A w \in endOfPublish[v] :
          accepted[w] \ Dropped(v) \subseteq
             executed[v] \cup (IF reconfig[v] = "RejectAllTx" THEN {}
                               ELSE {d.tx.cert : d \in deferred[v]})

(* Nothing is left that would make v send the message it still owes.       *)
EndOfPublishLost(v) ==
    /\ reconfig[v] = "RejectUserCerts" /\ v \notin processed[v]
    /\ pending[v] = {} /\ tasks[v] = {}

(* A validator that stopped taking certificates and has none left sends    *)
(* EndOfPublish, also when it crashes between the two: "we might need to   *)
(* re-introduce EndOfPublish message on restart" (submit_recovered).       *)
EndOfPublishRecovered == \A v \in Authority : ~EndOfPublishLost(v)

(* Once epochs are to close, every validator comes to RejectAllTx after    *)
(* the certificates it deferred, unless a restart lost an EndOfPublish, or *)
(* let it be sent while a certificate of its sender was deferred: that one *)
(* is dropped, and who waits for it waits for ever.                        *)
EpochEnds ==
    <>(Ended \/ \E v \in Authority : warned[v] # {} \/ EndOfPublishLost(v))
=============================================================================
