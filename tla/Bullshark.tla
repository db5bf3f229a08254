----------------------------- MODULE Bullshark -----------------------------
(***************************************************************************)
(* How validators turn the DAG of certificates into one sequence of        *)
(* committed sub-dags (bullshark.rs, state.rs, utils.rs).  Every validator *)
(* receives the same certificates, parents first, in an order of its own,  *)
(* commits leaders as support for them shows up, and persists each         *)
(* committed sub-dag.  It may crash between two sub-dags of one commit.    *)
(*                                                                         *)
(* A certificate is the pair of its round and its author, since no two     *)
(* certificates share them (CertificateUnique in Certification).  The DAG  *)
(* is chosen once, among Dags.                                             *)
(***************************************************************************)
EXTENDS LeaderSchedule

CONSTANTS
    Validator,
    Dags,                    \* the possible DAGs: certificate -> authors of parents
    CreatedAt,               \* header.created_at, by certificate
    NumSubDagsPerSchedule,   \* sub-dags between two changes of schedule
    GcDepth,                 \* Parameters.gc_depth
    MaxCrash                 \* bound: crashes of a validator

VARIABLES
    links,           \* the DAG
    delivered,       \* persistent: certificates accepted by the synchronizer
    lastCommitted,   \* persistent: last committed round of each author
    subDags,         \* persistent: committed_sub_dags_by_index
    swapTable,       \* the table of the leader schedule
    trigger,         \* leader_round of the commit under way
    toCommit,        \* leaders_to_commit
    panicked,        \* an assertion or expect failed
    crashes

persistent == <<delivered, lastCommitted, subDags>>
vars == <<links, persistent, swapTable, trigger, toCommit, panicked, crashes>>

ASSUME BullsharkAssumption ==
    /\ \A d \in Dags : \A c \in DOMAIN d :
          /\ \A a \in d[c] : <<c[1] - 1, a>> \in DOMAIN d
          /\ c[1] > 1 => ReachedQuorum(d[c])
    /\ NumSubDagsPerSchedule \in Nat \ {0} /\ GcDepth \in Nat \ {0}
    /\ \A a \in Authority : 100 * Stake[a] <= BadNodesThreshold * TotalStake

RoundOf(c) == c[1]
Origin(c)  == c[2]
Parents(c) == {<<c[1] - 1, a>> : a \in links[c]}

MaxOf(S) == CHOOSE x \in S : \A y \in S : y <= x
MinOf(S) == CHOOSE x \in S : \A y \in S : x <= y
Saturating(n) == IF n < 0 THEN 0 ELSE n

(* ConsensusRound: the committed round and the gc round that follows.      *)
CommittedRoundOf(last) == MaxOf({last[a] : a \in Authority})
GcRoundOf(last) == Saturating(CommittedRoundOf(last) - GcDepth)

(* Mutant: one round too many is purged from the dag.                      *)
DagOf_PurgeMore(certificates, last) ==
    {c \in certificates : \/ RoundOf(c) > GcRoundOf(last) + 1
                          \/ GcRoundOf(last) = 0}

(* ConsensusState.dag, in memory and after a restart.                      *)
DagOf(certificates, last) == {c \in certificates : RoundOf(c) > GcRoundOf(last)}

CommittedRound(v) == CommittedRoundOf(lastCommitted[v])
GcRound(v) == GcRoundOf(lastCommitted[v])
Dag(v) == DagOf(delivered[v], lastCommitted[v])

Init ==
    /\ links \in Dags
    /\ delivered = [v \in Validator |-> {}]
    /\ lastCommitted = [v \in Validator |-> [a \in Authority |-> 0]]
    /\ subDags = [v \in Validator |-> <<>>]
    /\ swapTable = [v \in Validator |-> NoTable]
    /\ trigger = [v \in Validator |-> 0]
    /\ toCommit = [v \in Validator |-> <<>>]
    /\ panicked = FALSE
    /\ crashes = [v \in Validator |-> 0]
-----------------------------------------------------------------------------
(* The pure part: who is linked to whom, and in which order.               *)

(* Mutant: any two leader certificates count as linked.                    *)
Linked_Always(dag, leader, prev) == TRUE

(* Bullshark::linked walks down from a leader, round by round.             *)
Linked(dag, leader, prev) ==
    LET reached[r \in RoundOf(prev) .. RoundOf(leader)] ==
          IF r = RoundOf(leader) THEN {leader}
          ELSE {c \in dag : /\ RoundOf(c) = r
                            /\ \E x \in reached[r + 1] : c \in Parents(x)}
    IN prev \in reached[RoundOf(prev)]

(* Bullshark::order_leaders: from `leader' down to the last commit, the    *)
(* leader certificates linked to the one before; oldest first.             *)
OrderLeaders(dag, table, committed, leader) ==
    LET Previous(r) == {c \in dag : c = <<r, Leader(table, r)>>}
        chain[r \in 0 .. RoundOf(leader)] ==   \* leaders of rounds above r
          IF r >= RoundOf(leader) - 1 THEN <<leader>>
          ELSE LET above == chain[r + 2]
                   next  == r + 2
               IN IF next < RoundOf(leader)
                     /\ \E p \in Previous(next) : Linked(dag, above[1], p)
                  THEN <<<<next, Leader(table, next)>>>> \o above
                  ELSE above
    IN chain[committed]

(* utils::order_dag: depth first, parents in a fixed order, without what   *)
(* is committed or superseded and not below the leader's gc round + 1;     *)
(* then sorted by round.                                                   *)
RECURSIVE DepthFirst(_, _, _, _, _)
DepthFirst(dag, last, gc, buffer, ordered) ==
    IF buffer = <<>> THEN ordered
    ELSE LET x == Last(buffer)
             seen == ToSet(buffer) \cup ToSet(ordered)
             new == IF RoundOf(x) = gc + 1 THEN {}
                    ELSE {p \in Parents(x) \cap dag :
                            p \notin seen /\ RoundOf(p) > last[Origin(p)]}
         IN DepthFirst(dag, last, gc,
               Front(buffer) \o InOrder(new, LAMBDA p, q : Origin(p) < Origin(q)),
               Append(ordered, x))

(* Mutants: certificates that are committed already are not skipped; the   *)
(* depth-first order is returned unsorted.                                 *)
OrderDag_NoSkip(dag, last, leader) ==
    LET gc == Saturating(RoundOf(leader) - GcDepth)
        ordered == DepthFirst(dag, [a \in Authority |-> 0], gc, <<leader>>, <<>>)
    IN FlattenSeq([r \in 1 .. RoundOf(leader) |->
                     SelectSeq(ordered, LAMBDA c : RoundOf(c) = r)])

OrderDag_Unsorted(dag, last, leader) ==
    DepthFirst(dag, last, Saturating(RoundOf(leader) - GcDepth), <<leader>>, <<>>)

OrderDag(dag, last, leader) ==
    LET gc == Saturating(RoundOf(leader) - GcDepth)
        ordered == DepthFirst(dag, last, gc, <<leader>>, <<>>)
    IN FlattenSeq([r \in 1 .. RoundOf(leader) |->
                     SelectSeq(ordered, LAMBDA c : RoundOf(c) = r)])

(* order_dag panics on a parent that is not in the dag.                    *)
OrderDagPanics(dag, last, leader) ==
    \E x \in ToSet(OrderDag(dag, last, leader)) :
       /\ RoundOf(x) # Saturating(RoundOf(leader) - GcDepth) + 1
       /\ ~(Parents(x) \subseteq dag)
-----------------------------------------------------------------------------
(* commit_leader up to the list of leaders: nothing when the leader of the *)
(* round is unknown or has less than f + 1 support.                        *)
Support(dag, leader) ==
    {Origin(c) : c \in {x \in dag : RoundOf(x) = RoundOf(leader) + 1
                                    /\ leader \in Parents(x)}}

LeadersToCommit(dag, table, committed, r) ==
    LET leader == <<r, Leader(table, r)>> IN
    IF leader \in dag /\ ReachedValidity(Support(dag, leader))
    THEN OrderLeaders(dag, table, committed, leader)
    ELSE <<>>

(* process_certificate up to the first commit: the certificate is inserted *)
(* and, if it is of an odd round above a leader that is not committed, the *)
(* leaders to commit are determined.  Certificates come parents first      *)
(* unless the parents are garbage-collected, and may come twice.           *)
ProcessCertificate(v, c) ==
    /\ toCommit[v] = <<>>
    /\ RoundOf(c) > GcRound(v) + 1 => Parents(c) \subseteq delivered[v]
    /\ delivered' = [delivered EXCEPT ![v] = @ \cup {c}]
    /\ LET r == RoundOf(c) - 1
           elect == /\ RoundOf(c) > GcRound(v)
                    /\ RoundOf(c) > lastCommitted[v][Origin(c)]
                    /\ r % 2 = 0 /\ r >= 2
                    /\ r > CommittedRound(v)
           dag == DagOf(delivered[v] \cup {c}, lastCommitted[v])
           leaders == IF elect
                      THEN LeadersToCommit(dag, swapTable[v], CommittedRound(v), r)
                      ELSE <<>>
       IN /\ toCommit' = [toCommit EXCEPT ![v] = leaders]
          /\ trigger' = [trigger EXCEPT ![v] = IF leaders = <<>> THEN 0 ELSE r]
          /\ panicked' = /\ RoundOf(c) > GcRound(v) + 1   \* check_parents
                         /\ ~(Parents(c) \subseteq dag)
    /\ UNCHANGED <<links, lastCommitted, subDags, swapTable, crashes>>

(* resolve_reputation_score.                                               *)
ReputationScores(v, sequence, index) ==
    LET base == IF index = 1 \/ index % NumSubDagsPerSchedule = 0
                THEN [a \in Authority |-> 0]
                ELSE Last(subDags[v]).scores
        gain(a) == IF subDags[v] = <<>> THEN 0
                   ELSE Cardinality({c \in ToSet(sequence) :
                          Origin(c) = a /\ Last(subDags[v]).leader \in Parents(c)})
    IN [a \in Authority |-> base[a] + gain(a)]

FinalOfSchedule(index) == (index + 1) % NumSubDagsPerSchedule = 0

(* Mutant: the timestamp of the leader is taken as it is.                  *)
CommitTimestamp_Leader(v, leader) == CreatedAt[leader]

(* CommittedSubDag::new: the timestamp never goes back.                    *)
CommitTimestamp(v, leader) ==
    LET previous == IF subDags[v] = <<>> THEN 0 ELSE Last(subDags[v]).timestamp
    IN IF previous > CreatedAt[leader] THEN previous ELSE CreatedAt[leader]

(* ConsensusState::update for every certificate of the sub-dag.            *)
Updated(last, sequence) ==
    [a \in Authority |->
        MaxOf({last[a]} \cup {RoundOf(c) : c \in {x \in ToSet(sequence) : Origin(x) = a}})]

(* One turn of the loop of commit_leader: order the sub-dag of the oldest  *)
(* leader, update and persist, change the schedule when its window ends;   *)
(* in that case the leaders that remain are elected again.                 *)
CommitSubDag(v) ==
    /\ toCommit[v] # <<>>
    /\ LET leader == Head(toCommit[v])
           index == Len(subDags[v]) + 1
           sequence == OrderDag(Dag(v), lastCommitted[v], leader)
           scores == ReputationScores(v, sequence, index)
           final == FinalOfSchedule(index)
           table == IF final THEN LeaderSwapTable(scores) ELSE swapTable[v]
           last == Updated(lastCommitted[v], sequence)
           rest == Tail(toCommit[v])
       IN /\ subDags' = [subDags EXCEPT ![v] = Append(@,
                [leader |-> leader, certificates |-> sequence, scores |-> scores,
                 final |-> final, timestamp |-> CommitTimestamp(v, leader)])]
          /\ lastCommitted' = [lastCommitted EXCEPT ![v] = last]
          /\ swapTable' = [swapTable EXCEPT ![v] = table]
          /\ panicked' = OrderDagPanics(Dag(v), lastCommitted[v], leader)
          /\ toCommit' = [toCommit EXCEPT ![v] =
                IF final /\ rest # <<>>
                THEN LeadersToCommit(DagOf(delivered[v], last), table,
                                     CommittedRoundOf(last), trigger[v])
                ELSE rest]
    /\ trigger' = [trigger EXCEPT ![v] = IF toCommit'[v] = <<>> THEN 0 ELSE @]
    /\ UNCHANGED <<links, delivered, crashes>>

(* Mutant: a restart builds the table from the first final scores.         *)
TableFromStore_First(v) ==
    LET finals == {i \in DOMAIN subDags[v] : subDags[v][i].final}
    IN IF finals = {} THEN NoTable
       ELSE LeaderSwapTable(subDags[v][MinOf(finals)].scores)

(* LeaderSchedule::from_store: the table of the last final scores.         *)
TableFromStore(v) ==
    LET finals == {i \in DOMAIN subDags[v] : subDags[v][i].final}
    IN IF finals = {} THEN NoTable
       ELSE LeaderSwapTable(subDags[v][MaxOf(finals)].scores)

(* A crash loses the commit under way, and the certificates that were      *)
(* stored but not yet processed reach the dag only: the rest is read back. *)
Restart(v) ==
    /\ crashes[v] < MaxCrash
    /\ \E c \in DOMAIN links :
          /\ RoundOf(c) > GcRound(v) + 1 => Parents(c) \subseteq delivered[v]
          /\ delivered' = [delivered EXCEPT ![v] = @ \cup {c}]
    /\ crashes' = [crashes EXCEPT ![v] = @ + 1]
    /\ trigger' = [trigger EXCEPT ![v] = 0]
    /\ toCommit' = [toCommit EXCEPT ![v] = <<>>]
    /\ swapTable' = [swapTable EXCEPT ![v] = TableFromStore(v)]
    /\ UNCHANGED <<links, lastCommitted, subDags, panicked>>

Step(v) == \/ \E c \in DOMAIN links : ProcessCertificate(v, c)
           \/ CommitSubDag(v)
           \/ Restart(v)

Next == ~panicked /\ \E v \in Validator : Step(v)

Spec == Init /\ [][Next]_vars
-----------------------------------------------------------------------------
(* Types, and the bookkeeping between the variables of a validator: a      *)
(* trigger is recorded exactly while leaders wait to be committed.         *)
TypeOK ==
    /\ delivered \in [Validator -> SUBSET DOMAIN links]
    /\ lastCommitted \in [Validator -> [Authority -> Nat]]
    /\ \A v \in Validator :
          /\ \A i \in DOMAIN subDags[v] :
                /\ subDags[v][i].leader \in DOMAIN links
                /\ ToSet(subDags[v][i].certificates) \subseteq delivered[v]
                /\ subDags[v][i].scores \in Scores
          /\ ToSet(toCommit[v]) \subseteq Dag(v)
          /\ toCommit[v] = <<>> <=> trigger[v] = 0
          /\ toCommit[v] # <<>> => RoundOf(Last(toCommit[v])) = trigger[v]
    /\ crashes \in [Validator -> 0 .. MaxCrash]

(* check_parents and order_dag find every parent they look for, whatever   *)
(* the order of arrival and whenever a validator crashes: the dag is never *)
(* purged of a certificate that a later insertion or commit refers to.     *)
NoPanic == ~panicked

(* The certificates of all the DAGs, and the sub-dags made of them.        *)
Certificate == UNION {DOMAIN d : d \in Dags}

SubDag == [leader : Certificate, certificates : Seq(Certificate), scores : Scores,
           final : BOOLEAN, timestamp : Nat]

Broadcast == INSTANCE AtomicBroadcast
                WITH Process <- Validator, Entry <- SubDag, outputs <- subDags

(* Two validators commit the same sub-dags at the same indices: leader,    *)
(* certificates in order, scores and timestamp, although each decides from *)
(* its own partial dag, with its own schedule changes and crashes; and     *)
(* they commit them one after the other and none again.                    *)
ImplementsBroadcast == Broadcast!Spec

Committed(v, n) == UNION {ToSet(subDags[v][i].certificates) : i \in 1 .. n}

(* No certificate is committed twice, in one sub-dag or in two, also when  *)
(* a restart or an election under a new schedule starts a commit again.    *)
NoDuplicateCommit ==
    \A v \in Validator : \A i \in DOMAIN subDags[v] :
       /\ IsInjective(subDags[v][i].certificates)
       /\ ToSet(subDags[v][i].certificates) \cap Committed(v, i - 1) = {}

(* A committed certificate is preceded by each of its parents that is      *)
(* above the leader's gc round, except one whose author already had a      *)
(* later certificate committed before (order_dag's skip condition).        *)
CommittedCausally ==
    \A v \in Validator : \A i \in DOMAIN subDags[v] :
       LET s == subDags[v][i].certificates
           before == Committed(v, i - 1)
           gc == Saturating(RoundOf(subDags[v][i].leader) - GcDepth)
       IN \A k \in DOMAIN s : \A p \in Parents(s[k]) :
             \/ RoundOf(p) <= gc
             \/ \E j \in 1 .. k - 1 : s[j] = p
             \/ \E q \in before : Origin(q) = Origin(p) /\ RoundOf(q) >= RoundOf(p)

(* What a restart at this moment reads back is what the validator has in   *)
(* memory: the swap table, and the last leader's round as the committed    *)
(* round (the assertion at the start of Consensus::spawn).                 *)
RecoverySame ==
    \A v \in Validator :
       /\ swapTable[v] = TableFromStore(v)
       /\ subDags[v] # <<>> =>
             RoundOf(Last(subDags[v]).leader) = CommittedRound(v)

(* The schedule in force comes from the last final scores: nobody outside  *)
(* the good nodes has a higher score than one inside, nobody outside the   *)
(* bad nodes a lower one, and in no round does a bad node lead or the swap *)
(* of one fail ("There should be at least one good node available").       *)
ScheduleSound ==
    \A v \in Validator :
       LET table == swapTable[v]
           good == ToSet(table.good)
           finals == {i \in DOMAIN subDags[v] : subDags[v][i].final}
       IN finals # {} =>
             LET scores == subDags[v][MaxOf(finals)].scores IN
             /\ \A a \in good, b \in Authority \ good : scores[a] >= scores[b]
             /\ \A a \in table.bad, b \in Authority \ table.bad : scores[a] <= scores[b]
             /\ \A r \in DOMAIN BaseLeader :
                   ~SwapPanics(table, r) /\ Leader(table, r) \notin table.bad

(* Sub-dags are only ever appended, with leaders of ever higher rounds and *)
(* timestamps that do not go back.                                         *)
AppendOnly ==
    [][\A v \in Validator :
          /\ IsPrefix(subDags[v], subDags'[v])
          /\ \A i \in 2 .. Len(subDags'[v]) :
                LET a == subDags'[v][i - 1]  b == subDags'[v][i] IN
                /\ RoundOf(a.leader) < RoundOf(b.leader)
                /\ a.timestamp <= b.timestamp]_vars
=============================================================================
