# A TLA+ verification of a Sui validator's consensus path

The repository is a fork of Sui. Its validators agree on the order of transactions with
Narwhal (a DAG of certificates, `src/narwhal`) and Bullshark (the rule that orders the
DAG, `src/narwhal/primary/src/consensus`), and execute what was ordered in
`src/crates/sui-core`. This project models the way from a header to a checkpoint,
model-checks it with TLC on small instances and proves its main safety properties with
TLAPS for every instance. `PROJECT.json` lists components, runs, mutants, the map from
definitions to source lines, findings, hazards and theorems.

## The parts of the system and how they interact

A *worker* collects transactions into batches and reports the digest of a batch to its
*primary*. In the primary,

1. the **proposer** (`proposer.rs`) puts digests, system messages and a quorum of
   certificates of the previous round into a header, one per round, and persists it;
2. the **certifier** (`certifier.rs`) asks all other primaries for votes. The **vote
   handler** (`primary.rs`) persists its last vote for the author before it answers. The
   **vote aggregator** (`aggregators.rs`) makes a certificate of a quorum of votes;
3. the **synchronizer** (`synchronizer.rs`) accepts a certificate when all its parents are
   accepted, suspends it otherwise, and lets garbage collection release what waits for
   collected rounds. The **certificate fetcher** gets what is missing from the **fetch
   handlers** of other primaries. Accepted certificates are stored and go to consensus, and
   through the **certificate aggregators** to the proposer as parents;
4. **Bullshark** (`consensus/`) keeps the DAG of accepted certificates, elects a leader for
   every even round (the **leader schedule**, changed by reputation scores), commits a
   leader with enough support together with all earlier leaders linked to it, and persists
   each committed sub-dag;
5. the **state handler** tells the proposer which of its headers are committed; the
   committed round drives garbage collection;
6. the **executor** (`narwhal/executor`) fetches the batches of a sub-dag and hands it to
   the **consensus handler** of `sui-core`, also after a restart.

In `sui-core`,

7. the **consensus adapter** keeps the transactions this validator wants sequenced and
   submits them until the handler has processed them;
8. the **consensus handler** and the **epoch store** decide which sequenced transactions
   are accepted, deferred or ignored, count the `EndOfPublish` messages that end an epoch,
   and write a pending checkpoint per commit;
9. the **checkpoint builder** completes and sorts the transactions of a commit and signs
   checkpoints.

| Part | Source | Modules |
| --- | --- | --- |
| Committee, thresholds | `narwhal/config/src/committee.rs` | `Committee`, `CommitteeProofs` |
| Certification of headers | `narwhal/primary/src/{proposer,certifier,primary}.rs`, `narwhal/storage` | `Certification`, `CertificationProofs`, `MCCertification` |
| Votes of one header | `narwhal/primary/src/{aggregators,certifier}.rs` | `VoteAggregation`, `VoteAggregationProofs`, `MCVoteAggregation` |
| Acceptance of certificates | `narwhal/primary/src/synchronizer.rs` | `Synchronizer`, `SynchronizerProofs`, `MCSynchronizer` |
| Fetching and serving certificates | `narwhal/primary/src/{certificate_fetcher,primary}.rs` | `CertificateFetcher`, `MCCertificateFetcher` |
| Parents of a header | `narwhal/primary/src/{aggregators,synchronizer,proposer}.rs` | `ParentAggregation`, `ParentAggregationProofs`, `MCParentAggregation` |
| Leader schedule | `narwhal/primary/src/consensus/leader_schedule.rs`, `narwhal/types/src/consensus.rs` | `LeaderSchedule` |
| Bullshark | `narwhal/primary/src/consensus/{bullshark,state,utils}.rs` | `Bullshark`, `MCBullshark` |
| Digests and retransmission | `narwhal/primary/src/{proposer,state_handler}.rs` | `Proposer` |
| Delivery of sub-dags | `narwhal/executor/src`, `narwhal/primary/src/consensus/state.rs`, `sui-core/src/consensus_handler.rs` | `ConsensusDelivery`, `ConsensusDeliveryProofs` |
| The promise of consensus | the above together | `AtomicBroadcast`, `AtomicBroadcastProofs` |
| End of an epoch | `sui-core/src/{consensus_adapter,consensus_handler,authority_server}.rs`, `sui-core/src/authority/authority_per_epoch_store.rs`, `sui-core/src/epoch/reconfiguration.rs` | `EpochClose`, `EpochCloseProofs`, `MCEpochClose` |
| Checkpoint builder | `sui-core/src/checkpoints` | `CheckpointBuilder`, `MCCheckpointBuilder` |

How the modules rest on each other. `VoteAggregation` shows that a certificate has a
quorum of valid votes, which is the guard of `Certification!FormCertificate`.
`Certification` shows that a round and an author name at most one certificate, which is why
a certificate of `Bullshark` is the pair of the two, and of `Synchronizer` a model value.
`Synchronizer` shows that the store is causally complete above the gc round, which is the
guard of `Bullshark!ProcessCertificate`. `Bullshark` never commits a certificate at or
below its author's last committed round, which is the guard of `Proposer!CommitHeaders`.
`Bullshark` and `ConsensusDelivery` both implement `AtomicBroadcast`: the sub-dags that the
validators commit are one sequence, and each validator executes its own without a gap or a
repetition. `EpochClose` and `CheckpointBuilder` therefore start from one sequence of
commits for all handlers, delivered once each. The interfaces are the guards named here;
no module runs two of these components in one state space.

## The modules

### Committee
Stakes and the thresholds `2N/3 + 1` and `(N + 2)/3` with integer division, as in
`calculate_quorum_threshold` and `calculate_validity_threshold`. Its assumptions: the
committee is finite, stakes are positive, and the Byzantine authorities hold less than a
third of the stake.

### Certification
One or more *authors* propose headers; every authority votes. An honest author is the
proposer with the parts of the synchronizer that feed it parents: the channel `rxParents`
carries quorums, the quorum read back from the store after a restart, and bare signals of
a higher round. A Byzantine author may ask for votes on any header. A vote request is a
task of the vote handler that first reads the vote store (`CheckVoteStore`) and later
writes it and answers (`WriteVote`): the steps are apart because the handler awaits
between them, and at most `InflightLimit` requests of a peer are served at a time, as the
network layer is set up in `primary.rs`. A crash loses everything but the two stores. The
proposer makes a header whenever its timers and parents permit, read back or not, as
`proposer.rs:478-491` does; the history variable `rewound` notes the round of a stored
header that was overwritten by one of an earlier round before the parents were read back.

### VoteAggregation
One `propose_header` task: requests in flight, votes as they return, Byzantine voters
whose signatures do not verify or cannot even be aggregated, the aggregate that is made and
checked only when the weight reaches a quorum, the removal of bad votes from it, the error
of the aggregation that ends the task, the resending of the header.

### Synchronizer
One primary. Certificates of a fixed DAG arrive by broadcast, one at a time, or fetched,
in batches. The acceptor task and the garbage collection task take turns at the lock of
`State`; what each does under the lock is split at every await and every store access.
A consensus of its own moves the gc round, `Restart` is a crash, and a task refills the
aggregators after it. An assertion or panic of the code sets `panicked`.

### CertificateFetcher
The loop of the fetcher: commands from the synchronizer become targets per origin, one
task at a time works on them with the request it was started with, asks peers, and its
answer is processed as a batch. What a peer answers is what its fetch handler computes:
lowest rounds first, without what the request says is known, cut at a limit. Acceptance is
one step here; `Synchronizer` has it in detail.

### ParentAggregation
The tasks that append certificates to the aggregator of their round, what an aggregator
hands out (a quorum once, every later certificate by itself), the messages on their way to
the proposer outside the aggregator's lock, and what the proposer keeps of them.

### LeaderSchedule, Bullshark
`LeaderSchedule` has the pure part: authorities by score, the prefix within the stake
threshold, the swap table and the leader of a round. The seeded draws of `rand` are
constant functions of the round, equal at all validators as they are in the code.

`Bullshark` is a set of validators over one DAG chosen in `Init`. `ProcessCertificate` is
`process_certificate` up to the list of leaders; `CommitSubDag` is one turn of the loop in
`commit_leader`, from `order_dag` to the change of schedule and the election under the new
one; a crash may come between any two. `dag` is derived from the store: in memory and
after a restart it is what was delivered above the gc round. The order of the parents of a
certificate, by digest in the code, is by author here: any fixed order will do.

### Proposer
The queues and `proposed_headers`. Rounds matter only for their order, so headers are a
sequence, and a committed header carries the number of its message in the channel from the
state handler. This keeps the state finite for behaviours of any length.

### AtomicBroadcast, ConsensusDelivery
`AtomicBroadcast` is the abstract specification: processes deliver the entries of one
sequence. `ConsensusDelivery` is the pipeline from `commit_leader` to the handler of one
validator: the sub-dags that `process_certificate` returns, two bounded channels, the
ordered fetches of the subscriber, the handler with its assertion on leader rounds, and the
restart, which reads back the sub-dags from the last executed one on.

### EpochClose
All validators over one sequence of commits. Adapter tasks stop at every await
(`RegisterWaiter`, `SubmitToConsensus`, `RemovePending`, `FinishTask`); `CloseEpoch` and
the sending of `EndOfPublish` after it are two steps, as the lock is released between
them. `HandleConsensusOutput` is one atomic batch, as in the code: what was seen is
skipped, a certificate that uses randomness is deferred for two rounds of it, messages are
counted until they make a quorum, the reconfiguration state moves, and a pending checkpoint
with the new certificates as roots, ignored ones included, is written for this commit. A
restart loses the tasks and the cache of keys, and the worker may have lost what it was
given. `Settled` is the table of pending checkpoints with the roots that were not ignored,
`Dropped` the certificates that were deferred and then dropped.

### CheckpointBuilder
One validator. The handler notifies the builder and then writes the commit, execution
writes the signature of effects and then the effects, and the builder works in steps
between which it can fail or crash: read effects, wait for the sequencing of all
transactions, sign each checkpoint, write them all, record them as built. The causal sort
and the split into chunks are operators; the sort is tabulated over the scenarios so that
TLC computes it once. The reference definition says which transactions belong to a commit
without the builder's state.

## What the runs check

Every property of a passing run has a mutant: a variant of a mapped definition, with a bug
that could plausibly be made in that code, under which TLC finds the property violated. The
mutants stand in the modules before the definitions they vary. A type invariant stands in
most modules for the reader, and is an invariant of the proofs where there are proofs.

| Run | Shows |
| --- | --- |
| `certification` | a Byzantine author with any headers, or an honest author that restarts: an honest primary votes once per author and round and its store only moves forward (`VoteOnce`, `VoteStoreMonotonic`), the honest author makes no two headers of a round (`NoEquivocation`) and at most one header of a round is certified (`CertificateUnique`), for an honest author except in the rounds up to a stored header that it overwrote before its parents were read back |
| `vote_aggregation` | the weight is exact while bad votes are dropped, and a quorum that is left over is one of valid votes (`AggregatorExact`), a certificate has a quorum of valid signatures (`CertificateSound`), and a quorum of valid votes fails to give one for two reasons only, a malformed signature or the drop of a vote lighter than a valid one (`QuorumCertifies`) |
| `synchronizer` | the store can be recovered from at any moment (`StoreCausal`), `suspended` and `missing` agree with it (`SuspensionConsistent`), nothing waits for collected parents (`SuspendedForAReason`), the parents of the next header are recovered (`ParentsRecovered`), no assertion but one can fail (`OnlySuspendedPanic`), every suspended certificate is accepted in the end (`EventuallyAccepted`) |
| `synchronizer_race` | *violation* of `NoPanic`: the acceptor between the store of the gc round and the lock of garbage collection panics |
| `fetcher` | what is suspended is covered by a command, a target or a later certificate (`SuspendedIsCovered`), is accepted or overtaken (`SuspendedIsFetched`), and fetching comes to rest (`FetchingEnds`) |
| `parents` | until a restart a header has a quorum of parents (`HeaderHasQuorum`), its parents are accepted certificates of the round before (`ParentsAccepted`), none of the proposer's round is kept back (`AllParentsDelivered`) |
| `bullshark_commit` | two validators implement an atomic broadcast of sub-dags with their scores and timestamps (`ImplementsBroadcast`), no certificate twice (`NoDuplicateCommit`), causal order (`CommittedCausally`), faithful recovery (`RecoverySame`, `AppendOnly`), no failed assertion (`NoPanic`), a sound swap table (`ScheduleSound`) |
| `proposer` | nothing acknowledged is lost without a crash (`AckedIsTracked`), nothing is committed twice (`CommittedOnce`), what is acknowledged is committed in the end (`EventuallyCommitted`) |
| `delivery` | execution follows the persisted commits across crashes (`ExecutedIsPrefix`, `ImplementsBroadcast`), the handler's assertion holds (`NoPanic`), every persisted sub-dag is executed in the end through full channels (`EverythingExecuted`) |
| `epoch_close` | handlers that have seen the same commits have the same tables, with one pending checkpoint per commit, up to roots that were ignored (`SameCommitsSameState`), no new certificate follows the `EndOfPublish` of its author (`NothingNewAfterEndOfPublish`), what a client was promised by a counted validator is executed, or was deferred and then dropped (`AcceptedSurvive`), the epoch ends (`EpochEnds`, but for the two cases its comment names) |
| `epoch_close_recovery` | *violation* of `EndOfPublishRecovered`: a crash between closing the epoch and persisting `EndOfPublish` loses the message |
| `checkpoint_builder` | whatever was executed when and wherever it was interrupted, a validator signs, stores and records the checkpoints the commits determine (`CheckpointsAgree`), in causal order (`CausallyOrdered`), and builds all but perhaps the last (`PendingIsBuilt`) |

### Bounds
- *Certification*: four authorities of stake one, one of them Byzantine, two payloads, two
  rounds, one crash. Two headers of one round and a restart between making and certifying
  them are the cases that matter; they need no more. `MCCertification` follows either the
  Byzantine author or the honest one: no step for one reads what belongs to the other.
  What can be certified for the Byzantine author is certified at once, as nothing reads it,
  and of its voters, which are all alike, a fixed one crashes.
- *VoteAggregation*: six authorities of unequal stake, a light and a heavy one of them
  Byzantine, so that two bad votes can be dropped one after the other, that a drop can
  leave a quorum behind and that it need not; the header is sent twice.
- *Synchronizer*: five certificates in three rounds, one crash. A chain of two suspended
  certificates, a certificate that consensus passes by, and a commit that collects its
  round all occur, in every interleaving of both tasks.
- *CertificateFetcher*: two origins, three rounds, answers of at most two certificates, a
  peer that has everything and one that has collected a round, one commit, one restart.
- *ParentAggregation*: four authorities, two rounds, one restart.
- *Bullshark*: four authorities, seven rounds, three leader rounds, a schedule change after
  every second sub-dag, gc depth three (leaders overlap in what they reach), DAGs in which
  leaders lack support, lack links, or an author is slow. One validator runs in order of
  rounds and is the yardstick; the other takes any order and may crash once. Two validators
  whose sequences are both prefixes of the yardstick's agree with each other; two free
  validators at a time are not explored.
- *Proposer*: two batches and a system message, one batch per header, three open headers,
  two messages in the channel, one crash.
- *ConsensusDelivery*: four sub-dags, channels of one place, two fetches, two crashes.
- *EpochClose*: two validators, of which one is a quorum by itself, so that certificates of
  the other can come too late and be ignored; two certificates, one sent to both, which may
  use randomness, and one sent to the lighter validator; a handler at most one commit
  behind, one restart. The run reaches ignored roots that differ after a lost cache,
  certificates deferred, executed and dropped. `MCEpochClose` leaves out interleavings that
  lead to the same states: an `EndOfPublish` task takes its steps at once, as nothing reads
  what they write before the commit with the message is handled, and handlers run right
  after the commit, as all other steps can be moved before the commit or behind the
  handlers. `MCView` merges states that differ in pending checkpoints on which both
  validators agree (no step reads them), and in cached keys that are also recorded as
  processed. The proofs take none of these shortcuts.
- *CheckpointBuilder*: three transactions, with two edges of dependency in all twelve
  acyclic shapes, and one of an earlier epoch sequenced again; each shape with two ways to
  sequence the three over two commits, a third commit that ends the epoch, chunks of two by
  number and by size, one error and one restart. One more scenario has a transaction that
  reads what another overwrites.

### Fairness
- `Synchronizer`: the tasks of the primary run (they are spawned tasks with no blocking
  call), and a certificate above the gc round that is missing is received in the end. The
  latter is an assumption on the network, broadcast and fetch together: the fetcher alone
  stops at a later certificate of the same origin, as `SuspendedIsCovered` says.
- `CertificateFetcher`: the loop runs, a task ends by its timeout, and, peers being asked in
  random order, a peer that has everything is again and again the first to answer.
- `Proposer`: the loop gets to its timers and channels (weak fairness). Of network and
  consensus, strong fairness of the commit of *some* header with a given item: after the
  network settles, an item offered again and again in certifiable headers is not skipped
  for ever. Which header is committed and which are skipped stays open.
- `ConsensusDelivery`: tasks run, and a fetch succeeds in the end, as it is repeated for
  ever and the signers of a certificate hold its batches.
- `EpochClose`: adapters and handlers run, the timer closes the epoch, and consensus
  sequences what the workers hold and goes on with rounds of randomness. The run assumes
  less, weak fairness of all these steps together (`Progress`): without crashes and new
  certificates each of them is a step towards the end.
- `CheckpointBuilder`: handler, execution and builder run. Crashes and errors are never
  fair, and bounded.

## What is proved

For every committee, number of authors, rounds, crashes, payloads, commits and capacities:

- `CommitteeProofs`: the stake of a set, a fold over its members in an unspecified order, is
  a sum, modular over union and intersection (`StakeSum`). Where a paper proof would go by
  induction on the set, a smallest counterexample is taken, which exists as the committee is
  finite. Two quorums share an honest authority (`QuorumIntersection`), a set of `f + 1`
  stake meets every quorum (`ValidityMeetsQuorum`). From the modular sum: the intersection
  weighs at least `2q - N`, more than the Byzantine stake.
- `CertificationProofs!VoteSafety`: types, `VoteOnce` and `VotesCoveredByStore`. `VoteOnce`
  is not inductive: between reading and writing the vote store, a handler could be
  overtaken by another request of the same author. The inductive invariant `VoteInv` adds
  that at most one request of an author is in flight at a voter, that a handler past its
  check has a header above the stored round, and that every vote sent is of a round at or
  below the stored one and equal to it when the rounds are equal. `VoteStoreMovesOn` is the
  action property `VoteStoreMonotonic`, from the same invariant.
- `CertificationProofs!ByzantineCertificateUnique`: `QuorumInv` records that a certificate
  of a Byzantine author has votes, or Byzantine signers, of a quorum; with `VoteOnce` and
  quorum intersection two certificates of a round are equal.
- `CertificationProofs!NoEquivocationAboveRewind`, `CertificatesAreUnique`: the invariant
  `ProposalInv` says that every header made is of a round at or below the stored one and
  equal to it when the rounds are equal, unless its round is at or below `rewound`, that the
  store of certificates has reached the round before the stored header, and that a
  recovered proposer, together with the messages in its channel, has caught up with it.
  Only a header made before that can rewind the store, and then `rewound` covers it.
- `ConsensusDeliveryProofs!DeliveryNeverPanics`, `ExecutionFollowsCommits`: `ExecutedIsPrefix`
  is not inductive, since it says nothing of what is on its way. The invariant reads the
  five queues from the persisted end: each holds consecutive indices and ends where the
  next one begins, and the first index is the one after the last executed or, after a
  restart, that one once more, which the handler skips; leader rounds increase.
- `ConsensusDeliveryProofs!DeliveryImplementsBroadcast`: from this invariant, a commit and an
  execution each are a delivery of `AtomicBroadcast`, at the end of consensus and of
  execution; all other steps, the restart among them, are stutters.
- `AtomicBroadcastProofs!BroadcastTotalOrder`, `BroadcastNoRepeat`: what the abstract
  specification promises, and so what each of its implementations does.
- `VoteAggregationProofs`: `CertificatesAreSound`, `WeightIsExact` and `QuorumsAreUsed` are
  the three properties of the run, for every distribution of stake. The invariant adds that
  a vote still awaited is of nobody who has voted, that the votes held and not bad are
  exactly the valid ones received, that only Byzantine votes are bad, and `Resting`: while
  the task votes, it holds less than a quorum, or all its votes are valid and a vote that
  was dropped is lighter than one of them. When the last drop outweighs the vote that came
  with it, less than a quorum is left, and the next quorum is tested.
- `SynchronizerProofs`: `NoOtherPanic`, `StoreIsCausal`, `SuspensionIsConsistent`,
  `SuspendedHaveAReason`, `ParentsAreRecovered`, for every dag, any number of batches and crashes. The run's
  invariants speak of moments when the lock is free; the inductive one must hold inside
  `accept_children` and garbage collection as well. `Waiting` says that `missing` is the
  inverse of `missing_parents` at every step. `Released` says that nobody waits for what is
  stored or was visited, and that what a suspended certificate no longer waits for is stored,
  in `to_accept`, or garbage. `InOrder` says that `to_accept` lists parents first, which
  with the breadth-first order of `to_traverse` makes each write keep the store causal
  (`Causal`). `InDag` and `Recovered` say where a stored certificate is on its way to
  consensus and to the aggregators, so that a crash between the two loses nothing.
- `ParentAggregationProofs`: `HeadersAreSound`, `HeadersHaveQuorum`, `ParentsAreDelivered`,
  for any number of rounds and restarts. `Kept` says that certificates stay under their
  round from the aggregator to the header. `QuorumFirst` says that, while the acceptor alone
  appends, every message of a round comes behind the one with its quorum. `Traced` says
  where an accepted certificate is: with the recovery task, in its aggregator, drained, in
  the channel, at the proposer or left behind by it, or passed over by the recovery task
  because certificates two rounds later are stored. In the last case the quorum of parents
  of the highest certificate (`Grounded`) has arrived in its place.
- `EpochCloseProofs`: `ValidatorsAgree`, `NothingNewIsMet` and `AcceptedAreKept` are the
  safety properties of the run, for every committee, any certificates, pipeline and number
  of restarts. `SameCommitsSameState` is not inductive: it compares validators that are
  level, and a step of one of them leaves the level. The invariant says that there is a
  sequence of stores, one for each commit in the pipeline, that depends on the commits alone
  (`StoreAfter`) and through which every validator goes (`Replayed`); neither the cache of
  keys nor the time at which a validator closed its epoch occurs in it. That the handler
  follows it needs `HandlerOK`: while certificates are accepted, the cache and the roots
  written so far hold nothing that is not recorded as processed, so that a lost cache makes
  no difference; afterwards roots that were ignored stay ignored. It also needs
  `NothingNewAfterEndOfPublish`, which comes from `Backed` (who has sent `EndOfPublish` had
  processed all it took from clients) and from `AdapterOK`, the same for the message on its
  way through the adapter. The three properties are therefore proved together.

Assumptions used: those of `Committee` above, `InflightLimit = 1`, that the parents of a
certificate are of the round before, that certificates and `EndOfPublish` messages have
different keys, and that bounds and capacities are natural numbers.

Only model-checked: the safety of `CertificateFetcher`, `Bullshark` (its refinement of
`AtomicBroadcast` included), `Proposer` and `CheckpointBuilder`, and all liveness, that of
`Synchronizer`, `ConsensusDelivery` and `EpochClose` included, which is out of the prover's
reach. So is what the recursive operators of `Bullshark` and `CheckpointBuilder` compute.

## Findings

1. *Panic of the acceptor* (`synchronizer.rs:1092`, run `synchronizer_race`): the gc round is
   published before the lock is taken; a fetched certificate of round `gc_round + 1` that is
   still suspended then makes `accept_children` panic.
2. *EndOfPublish is not recovered* (`consensus_adapter.rs:394`, run `epoch_close_recovery`):
   the condition in `submit_recovered` lacks a negation. It adds the message only where one
   is pending already, while its comment describes the cases in which none is.

### Known limits
Behaviours of the code met while modelling it that have no run of their own; the properties
are stated so as to leave them out:

- After a restart the proposer begins at round 0 with the genesis parents, and only the last
  header is stored. If a header timer fires before the stored parents are read back, a
  header of round 1 overwrites the stored one, and a second header of a later round can
  follow, although the comment of `create_new_header` says that "the method ensures we are
  protected against equivocation" (`proposer.rs:202-211`). `NoEquivocation` and
  `CertificateUnique` leave out the rounds up to the header that was overwritten, and no
  others.
- A vote whose signature cannot be aggregated ends the `propose_header` task even when a
  quorum of valid votes is there (`aggregators.rs:70-78`), and with unequal stakes the
  aggregator can drop a bad vote, hold a quorum of valid ones and wait for another vote that
  may not come (`aggregators.rs:96`). `QuorumCertifies` says that there is no third way to
  waste a quorum of valid votes.
- After a restart two tasks append certificates and may overtake each other on the way to
  the proposer, whose header then may lack a quorum of parents (`synchronizer.rs:136-152`,
  `proposer.rs:478`); `HeaderHasQuorum` is stated up to the restart.
- A kick of the fetcher does not start a fetch when no target is known
  (`certificate_fetcher.rs:277`).
- When a single authority exceeds the threshold for bad nodes, there are bad nodes and no
  good node to swap in (`leader_schedule.rs:141`, `173`). Voting power as the Sui framework
  assigns it does not lead there; a Narwhal committee may.
- A deferred certificate counts as processed. If its author restarts, finds it so and sends
  `EndOfPublish`, all handlers drop it when it becomes ready
  (`authority_per_epoch_store.rs:2540`). `AcceptedSurvive` and `EpochEnds` except exactly
  these (`Dropped`, `warned`).
- The roots of a pending checkpoint include certificates that were ignored in
  `RejectAllCerts` while deferred ones are awaited; nobody executes these, and the builder
  would wait for them. When such a certificate is sequenced again, a validator that lost
  its cache writes it as a root a second time and the others do not: `SameCommitsSameState`
  compares the roots that were not ignored (`Settled`).
- The builder is notified before its pending checkpoint is written
  (`authority_per_epoch_store.rs:2234`, `2237`): it can look, find nothing and sleep. For
  the last commit of an epoch no other notice follows. `PendingIsBuilt` leaves this one out.
- The index of checkpoint signatures is restored from the last key of their table, which is
  not the highest index (`authority_per_epoch_store.rs:2854`).

## Plan

1. *Done*: all of the above.
2. *Next*: worker (quorum waiter, batch fetcher) and payload availability; key generation of
   the state handler; checkpoint signatures and the executor of checkpoints; transaction
   manager; stake aggregator and quorum driver.
3. *Proofs*: the refinement of `AtomicBroadcast` by `Bullshark`, conservation in
   `Proposer`, the covered targets of `CertificateFetcher`.

## What is not modelled

Cryptography (signatures are unforgeable), encodings, metrics, configuration and process
start-up, networking beyond loss, delay, repetition and reordering, the Move virtual
machine and framework, and the clients of a validator (indexer, RPC, bridge, tools, SDK,
applications). `PROJECT.json` lists each part with its reason.
