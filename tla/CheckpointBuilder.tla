-------------------------- MODULE CheckpointBuilder --------------------------
(***************************************************************************)
(* How a validator makes checkpoints from the commits of consensus         *)
(* (sui-core/src/checkpoints/mod.rs).  The consensus handler writes a      *)
(* pending checkpoint for each commit and notifies the builder; execution  *)
(* goes on at its own pace, also ahead of consensus; the builder adds the  *)
(* transactions the roots depend on, sorts them causally, splits them into *)
(* checkpoints, signs and stores these, and records what it has built.     *)
(*                                                                         *)
(* Transactions are natural numbers, ordered as their digests are.         *)
(***************************************************************************)
EXTENDS Integers, FiniteSets, Sequences, SequencesExt

CONSTANTS
    Transaction,
    Scenarios,         \* environment: what consensus may bring, see below
    Size,              \* the size of a transaction with effects in bytes
    MaxTransactions,   \* max_transactions_per_checkpoint
    MaxSize,           \* max_checkpoint_size_bytes
    MaxCrash,          \* bound: restarts of the validator
    MaxError           \* bound: errors of make_checkpoint

(* A scenario: the certificates of each commit, the dependencies in the    *)
(* effects of a transaction, the transactions that read what it overwrites *)
(* and those that an earlier epoch executed.                               *)
Closed(S, deps) == \A t \in S : deps[t] \subseteq S

ASSUME BuilderAssumption ==
    /\ Transaction \subseteq Nat \ {0} /\ IsFiniteSet(Transaction)
    /\ Size \in [Transaction -> Nat]
    /\ MaxTransactions \in Nat \ {0} /\ MaxSize \in Nat
    /\ MaxCrash \in Nat /\ MaxError \in Nat
    /\ \A s \in Scenarios :
          /\ s.deps \in [Transaction -> SUBSET Transaction]
          /\ s.reads \in [Transaction -> SUBSET Transaction]
          /\ Closed(s.previous, s.deps)
          /\ Transaction \ s.previous \subseteq UNION ToSet(s.commits)

VARIABLES
    scenario,
    written,     \* persistent: commits handled, each with its pending checkpoint
    notified,    \* the handler notified the builder of a commit not yet written
    permit,      \* the permit of notify_builder
    signed,      \* persistent: effects_signatures of this epoch
    executed,    \* persistent: transactions with effects
    builder,     \* the step of CheckpointBuilder and what it works on
    sent,        \* history: checkpoints signed, with their sequence numbers
    local,       \* persistent: locally_computed_checkpoints
    built,       \* persistent: builder_checkpoint_summary
    crashes, errors

vars == <<scenario, written, notified, permit, signed, executed, builder, sent,
          local, built, crashes, errors>>

Deps == scenario.deps
Previous == scenario.previous
Final == Len(scenario.commits)

(* The transaction that create_and_execute_advance_epoch_tx makes.         *)
ChangeEpoch == 0

Start == [stage |-> "scan", queue |-> <<>>, work |-> <<>>]

Init ==
    /\ scenario \in Scenarios
    /\ written = 0 /\ notified = FALSE /\ permit = FALSE
    /\ signed = {} /\ executed = Previous /\ builder = Start
    /\ sent = {} /\ local = <<>> /\ built = <<>>
    /\ crashes = 0 /\ errors = 0
-----------------------------------------------------------------------------
(* Mutant of NotifyCheckpoint: only a builder that waits is notified, no   *)
(* permit is left for one that works (notify_waiters for notify_one).      *)
NotifyCheckpoint_Waiters ==
    /\ ~notified /\ written < Final
    /\ notified' = TRUE /\ permit' = (builder.stage = "idle")
    /\ UNCHANGED <<scenario, written, signed, executed, builder, sent, local,
                   built, crashes, errors>>

(* The consensus handler.  It notifies the builder before it writes the    *)
(* batch that holds the pending checkpoint.                                *)
NotifyCheckpoint ==
    /\ ~notified /\ written < Final
    /\ notified' = TRUE /\ permit' = TRUE
    /\ UNCHANGED <<scenario, written, signed, executed, builder, sent, local,
                   built, crashes, errors>>

WriteCommit ==
    /\ notified
    /\ notified' = FALSE /\ written' = written + 1
    /\ UNCHANGED <<scenario, permit, signed, executed, builder, sent, local,
                   built, crashes, errors>>

Sequenced == UNION {scenario.commits[h] : h \in 1 .. written}
-----------------------------------------------------------------------------
(* Execution (external), driven by clients, consensus or certified         *)
(* checkpoints of others, in the order of dependencies.                    *)
Executable(t) == t \notin executed /\ Deps[t] \subseteq executed

(* commit_certificate: the signature of the effects is written to the      *)
(* epoch store before the effects are written to the perpetual store.      *)
SignEffects(t) ==
    /\ Executable(t) /\ t \notin signed
    /\ signed' = signed \cup {t}
    /\ UNCHANGED <<scenario, written, notified, permit, executed, builder, sent,
                   local, built, crashes, errors>>

(* Mutant of WriteEffects: the effects do not wait for their signature.    *)
WriteEffects_Unsigned(t) ==
    /\ Executable(t)
    /\ executed' = executed \cup {t}
    /\ UNCHANGED <<scenario, written, notified, permit, signed, builder, sent,
                   local, built, crashes, errors>>

WriteEffects(t) ==
    /\ Executable(t) /\ t \in signed
    /\ executed' = executed \cup {t}
    /\ UNCHANGED <<scenario, written, notified, permit, signed, builder, sent,
                   local, built, crashes, errors>>
-----------------------------------------------------------------------------
(* What goes into checkpoints.                                             *)

Included == UNION {ToSet(c.contents) : c \in ToSet(built)}

(* complete_checkpoint_effects: the roots and what they depend on, as far  *)
(* as it is of this epoch and not part of a checkpoint.  The code may take *)
(* a root twice, also as the dependency of another; the maps of the causal *)
(* sort keep it once.                                                      *)
RECURSIVE Complete(_, _, _)
Complete(roots, seen, results) ==
    LET new == roots \ (Included \cup Previous)
        pending == (UNION {Deps[t] : t \in new}) \cap signed
        next == pending \ (seen \cup roots)
    IN IF next = {} THEN results \cup new
       ELSE Complete(next, seen \cup roots, results \cup new)

(* Mutant: transactions that read what another overwrites are not ordered  *)
(* before it.                                                              *)
Edges_NoReads(s, S, t) == s.deps[t]

(* RWLockDependencyBuilder: the dependencies of t among the effects S.     *)
Edges(s, S, t) == s.deps[t] \cup (s.reads[t] \cap S)

(* InsertState: the dependencies not seen yet, last digest first, and then *)
(* the transaction itself.                                                 *)
RECURSIVE Insert(_, _, _, _)
Insert(s, S, t, state) ==
    LET visit(x, d) ==
          IF d \in x.left THEN Insert(s, S, d, [x EXCEPT !.left = @ \ {d}])
                          ELSE x
        after == FoldLeft(visit, state,
                          SetToSortSeq(Edges(s, S, t), LAMBDA a, b : a > b))
    IN [after EXCEPT !.output = Append(@, t)]

Sort(s, S) ==
    LET visit(x, t) ==
          IF t \in x.left THEN Insert(s, S, t, [x EXCEPT !.left = @ \ {t}])
                          ELSE x
    IN FoldLeft(visit, [left |-> S, output |-> <<>>],
                SetToSortSeq(S, LAMBDA a, b : a < b)).output

CausalSort ==
    [s \in Scenarios |-> [S \in SUBSET Transaction |-> Sort(s, S)]]

(* split_checkpoint_chunks: a chunk is full by number or by size, holds a  *)
(* transaction however large, and is empty only if there is nothing.       *)
SplitChunks(sorted) ==
    LET size(chunk) == FoldLeft(LAMBDA n, t : n + Size[t], 0, chunk)
        full(chunk, t) == \/ Len(chunk) = MaxTransactions
                          \/ size(chunk) + Size[t] > MaxSize
        add(s, t) ==
          IF full(s.chunk, t) /\ s.chunk # <<>>
          THEN [chunks |-> Append(s.chunks, s.chunk), chunk |-> <<t>>]
          ELSE [s EXCEPT !.chunk = Append(@, t)]
        end == FoldLeft(add, [chunks |-> <<>>, chunk |-> <<>>], sorted)
    IN IF end.chunk # <<>> \/ end.chunks = <<>>
       THEN Append(end.chunks, end.chunk) ELSE end.chunks

(* create_checkpoints: the last one of the epoch changes it.               *)
CreateCheckpoints(s, height, sorted) ==
    LET chunks == SplitChunks(sorted)
        last(i) == height = Len(s.commits) /\ i = Len(chunks)
    IN [i \in 1 .. Len(chunks) |->
          [height |-> height,
           contents |-> IF last(i) THEN Append(chunks[i], ChangeEpoch)
                                   ELSE chunks[i]]]
-----------------------------------------------------------------------------
(* The builder's loop.                                                     *)

LastHeight == IF built = <<>> THEN 0 ELSE Last(built).height

(* The pending checkpoints after the last one built are read at once.      *)
Scan ==
    /\ builder.stage = "scan"
    /\ builder' = IF LastHeight = written THEN [Start EXCEPT !.stage = "idle"]
                  ELSE [Start EXCEPT !.stage = "read",
                        !.queue = [i \in 1 .. written - LastHeight |->
                                     LastHeight + i]]
    /\ UNCHANGED <<scenario, written, notified, permit, signed, executed, sent,
                   local, built, crashes, errors>>

WakeUp ==
    /\ builder.stage = "idle" /\ permit
    /\ permit' = FALSE /\ builder' = Start
    /\ UNCHANGED <<scenario, written, notified, signed, executed, sent, local,
                   built, crashes, errors>>

Continue(stage, work) ==
    /\ builder' = [builder EXCEPT !.stage = stage, !.work = work]
    /\ UNCHANGED <<scenario, written, notified, permit, signed, executed,
                   crashes, errors>>

(* make_checkpoint, once all roots are executed.  A dependency without     *)
(* effects is a panic.                                                     *)
ReadEffects ==
    LET roots == scenario.commits[Head(builder.queue)]
        complete == Complete(roots, {}, {})
    IN /\ builder.stage = "read" /\ roots \subseteq executed
       /\ IF complete \subseteq executed
          THEN Continue("sequence", CausalSort[scenario][complete])
          ELSE Continue("panic", <<>>)
       /\ UNCHANGED <<sent, local, built>>

(* The first half of create_checkpoints waits until consensus has brought  *)
(* all transactions, those added as dependencies included.                 *)
AwaitSequenced ==
    /\ builder.stage = "sequence" /\ ToSet(builder.work) \subseteq Sequenced
    /\ Continue("sign", CreateCheckpoints(scenario, Head(builder.queue),
                                           builder.work))
    /\ UNCHANGED <<sent, local, built>>

(* checkpoint_created, for one checkpoint after the other.                 *)
SendSignature ==
    LET seq == Len(built)
        todo == {i \in DOMAIN builder.work :
                   <<seq + i, builder.work[i]>> \notin sent}
    IN /\ builder.stage = "sign"
       /\ IF todo = {} THEN Continue("store", builder.work) /\ UNCHANGED sent
          ELSE LET i == CHOOSE i \in todo : \A j \in todo : i <= j IN
               /\ Continue("sign", builder.work)
               /\ sent' = sent \cup {<<seq + i, builder.work[i]>>}
       /\ UNCHANGED <<local, built>>

(* The batch of write_checkpoints, which may write again what a crash or   *)
(* an error left there.                                                    *)
WriteCheckpoints ==
    /\ builder.stage = "store"
    /\ local' = built \o builder.work
    /\ Continue("process", builder.work)
    /\ UNCHANGED <<sent, built>>

(* process_pending_checkpoint, and on to the next pending one.             *)
ProcessPending ==
    /\ builder.stage = "process"
    /\ built' = built \o builder.work
    /\ builder' = IF Len(builder.queue) = 1 THEN [Start EXCEPT !.stage = "idle"]
                  ELSE [Start EXCEPT !.stage = "read",
                                     !.queue = Tail(builder.queue)]
    /\ UNCHANGED <<scenario, written, notified, permit, signed, executed, sent,
                   local, crashes, errors>>

(* An error of make_checkpoint: after a second the main loop starts again. *)
Fail ==
    /\ builder.stage \in {"read", "sequence", "sign", "store", "process"}
    /\ errors < MaxError /\ errors' = errors + 1
    /\ builder' = Start
    /\ UNCHANGED <<scenario, written, notified, permit, signed, executed, sent,
                   local, built, crashes>>

(* A restart.  A commit that was not written is delivered again.           *)
Restart ==
    /\ crashes < MaxCrash /\ crashes' = crashes + 1
    /\ notified' = FALSE /\ permit' = FALSE /\ builder' = Start
    /\ UNCHANGED <<scenario, written, signed, executed, sent, local, built,
                   errors>>

BuilderStep ==
    \/ Scan \/ WakeUp \/ ReadEffects \/ AwaitSequenced
    \/ SendSignature \/ WriteCheckpoints \/ ProcessPending

Handler == NotifyCheckpoint \/ WriteCommit

Execution(t) == SignEffects(t) \/ WriteEffects(t)

Next ==
    \/ BuilderStep \/ Handler \/ Fail \/ Restart
    \/ \E t \in Transaction : Execution(t)

(* The handler, execution and the builder are tasks that go on.            *)
Fairness ==
    /\ WF_vars(BuilderStep) /\ WF_vars(Handler)
    /\ WF_vars(\E t \in Transaction : Execution(t))

Spec == Init /\ [][Next]_vars /\ Fairness
-----------------------------------------------------------------------------
(* The checkpoints that follow from the commits alone: a transaction comes *)
(* with the first commit from which it can be reached.                     *)
Reachable(s, height) ==
    {t \in Transaction : \A S \in SUBSET Transaction :
       s.commits[height] \subseteq S /\ Closed(S, s.deps) => t \in S}

Contents(s, height) ==
    Reachable(s, height)
      \ (s.previous \cup UNION {Reachable(s, h) : h \in 1 .. height - 1})

References ==
    [s \in Scenarios |->
       FlattenSeq([h \in 1 .. Len(s.commits) |->
                     CreateCheckpoints(s, h, CausalSort[s][Contents(s, h)])])]

Reference == References[scenario]

(* Every checkpoint a validator signs, stores or records is the one that   *)
(* the commits determine for its sequence number, whatever was executed    *)
(* when, and wherever an error or a crash made the builder start again: no *)
(* "Local checkpoint fork", no two signatures for one sequence number, and *)
(* no effects missing in complete_checkpoint_effects.                      *)
CheckpointsAgree ==
    /\ builder.stage # "panic"
    /\ IsPrefix(built, local) /\ IsPrefix(local, Reference)
    /\ \A x \in sent : x[1] <= Len(Reference) /\ x[2] = Reference[x[1]]

(* All checkpoints together list a transaction once, after everything it   *)
(* depends on in this epoch and after those that read what it overwrites.  *)
CausallyOrdered ==
    LET all == FlattenSeq([i \in DOMAIN built |-> built[i].contents])
        before(t) == Deps[t] \cup scenario.reads[t]
    IN \A i \in DOMAIN all :
          /\ \A j \in 1 .. i - 1 : all[j] # all[i]
          /\ all[i] # ChangeEpoch =>
                \A d \in before(all[i]) \ Previous :
                   \E j \in 1 .. i - 1 : all[j] = d

(* All commits are written in the end, and all pending checkpoints before  *)
(* the last are built.  The notice of the last one may be taken before it  *)
(* is there to be found, and is not repeated before a later commit.        *)
PendingIsBuilt == <>[](written = Final /\ LastHeight >= written - 1)
=============================================================================
