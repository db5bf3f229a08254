------------------------- MODULE ConsensusDelivery -------------------------
(***************************************************************************)
(* How the sub-dags that a validator commits reach the code that executes  *)
(* them: the consensus task persists them and sends them on a channel      *)
(* (state.rs), the subscriber fetches their batches concurrently and       *)
(* passes them on in order (subscriber.rs), and the consensus handler      *)
(* executes each one in one atomic write (consensus_handler.rs).  After a  *)
(* crash the sub-dags from the last executed one on are read back.         *)
(*                                                                         *)
(* A sub-dag in a queue is its index in the store; what it holds is left   *)
(* out but for the round of its leader.                                    *)
(***************************************************************************)
EXTENDS Integers, Sequences

CONSTANTS
    ChannelCapacity,     \* of tx_sequence and tx_notifier
    MaxPendingPayloads,  \* Subscriber::MAX_PENDING_PAYLOADS
    MaxCommits,          \* bound: sub-dags
    MaxGap,              \* bound: leader rounds without a commit
    MaxCrash             \* bound: crashes

ASSUME DeliveryAssumption ==
    /\ ChannelCapacity \in Nat \ {0} /\ MaxPendingPayloads \in Nat \ {0}
    /\ MaxCommits \in Nat /\ MaxGap \in Nat \ {0} /\ MaxCrash \in Nat

VARIABLES
    committed,   \* persistent: leader rounds in committed_sub_dags_by_index
    executed,    \* persistent: leader rounds of the sub-dags executed
    phase,       \* of the consensus task: in process_certificate, or sending
    outbox,      \* committed_sub_dags that process_certificate returns
    sequence,    \* the channel tx_sequence
    waiting,     \* FuturesOrdered of the subscriber
    fetched,     \* indices whose batches are there
    held,        \* the message the subscriber is sending, if any
    notifier,    \* the channel tx_notifier
    panicked,    \* the assertion on the leader round failed
    crashes

consensus == <<committed, phase, outbox>>
subscriber == <<waiting, fetched, held>>
vars == <<consensus, executed, sequence, subscriber, notifier, panicked, crashes>>

LastOf(s, default) == IF s = <<>> THEN default ELSE s[Len(s)]

Init ==
    /\ committed = <<>> /\ executed = <<>>
    /\ phase = "process" /\ outbox = <<>>
    /\ sequence = <<>> /\ waiting = <<>> /\ fetched = {}
    /\ held = <<>> /\ notifier = <<>>
    /\ panicked = FALSE /\ crashes = 0
-----------------------------------------------------------------------------
(* The consensus task.  process_certificate may commit several leaders;    *)
(* each of their sub-dags is persisted before any is sent.                 *)
CommitSubDag(gap) ==
    /\ phase = "process" /\ Len(committed) < MaxCommits
    /\ committed' = Append(committed, LastOf(committed, 0) + 2 * gap)
    /\ outbox' = Append(outbox, Len(committed) + 1)
    /\ UNCHANGED <<executed, phase, sequence, subscriber, notifier, panicked, crashes>>

ProcessCertificateReturns ==
    /\ phase = "process" /\ outbox # <<>>
    /\ phase' = "send"
    /\ UNCHANGED <<committed, executed, outbox, sequence, subscriber, notifier,
                   panicked, crashes>>

SendSequence ==
    /\ phase = "send" /\ Len(sequence) < ChannelCapacity
    /\ sequence' = Append(sequence, Head(outbox))
    /\ outbox' = Tail(outbox)
    /\ phase' = IF Tail(outbox) = <<>> THEN "process" ELSE "send"
    /\ UNCHANGED <<committed, executed, subscriber, notifier, panicked, crashes>>

(* The loop of Subscriber::run.  While it awaits the send of a message it  *)
(* neither receives nor polls the fetches.                                 *)
ReceiveSubDag ==
    /\ held = <<>> /\ sequence # <<>>
    /\ Len(waiting) < MaxPendingPayloads
    /\ waiting' = Append(waiting, Head(sequence))
    /\ sequence' = Tail(sequence)
    /\ UNCHANGED <<consensus, executed, fetched, held, notifier, panicked, crashes>>

(* fetch_batches completes, in any order.                                  *)
FetchBatches(i) ==
    /\ held = <<>> /\ waiting[i] \notin fetched
    /\ fetched' = fetched \cup {waiting[i]}
    /\ UNCHANGED <<consensus, executed, sequence, waiting, held, notifier, panicked, crashes>>

(* Mutant: the futures are not ordered, the first completed one is next.   *)
NextOutput_Unordered ==
    \E i \in 1 .. Len(waiting) :
       /\ held = <<>> /\ waiting[i] \in fetched
       /\ held' = <<waiting[i]>>
       /\ waiting' = SubSeq(waiting, 1, i - 1) \o SubSeq(waiting, i + 1, Len(waiting))
       /\ fetched' = fetched \ {waiting[i]}
       /\ UNCHANGED <<consensus, executed, sequence, notifier, panicked, crashes>>

(* Mutant: nothing is passed on until the window of fetches is full.       *)
NextOutput_WhenFull ==
    /\ held = <<>> /\ Len(waiting) >= MaxPendingPayloads
    /\ Head(waiting) \in fetched
    /\ held' = <<Head(waiting)>>
    /\ waiting' = Tail(waiting)
    /\ fetched' = fetched \ {Head(waiting)}
    /\ UNCHANGED <<consensus, executed, sequence, notifier, panicked, crashes>>

(* waiting.next(): the oldest future, when it is complete.                 *)
NextOutput ==
    /\ held = <<>> /\ waiting # <<>>
    /\ Head(waiting) \in fetched
    /\ held' = <<Head(waiting)>>
    /\ waiting' = Tail(waiting)
    /\ fetched' = fetched \ {Head(waiting)}
    /\ UNCHANGED <<consensus, executed, sequence, notifier, panicked, crashes>>

SendOutput ==
    /\ held # <<>> /\ Len(notifier) < ChannelCapacity
    /\ notifier' = Append(notifier, held[1])
    /\ held' = <<>>
    /\ UNCHANGED <<consensus, executed, sequence, waiting, fetched, panicked, crashes>>

(* Mutant: a commit that was handled before the restart is not skipped.    *)
HandleConsensusOutput_NoSkip ==
    /\ notifier # <<>>
    /\ notifier' = Tail(notifier)
    /\ LET round == committed[Head(notifier)]
       IN /\ panicked' = (round < LastOf(executed, 0))
          /\ executed' = Append(executed, round)
    /\ UNCHANGED <<consensus, sequence, subscriber, crashes>>

(* run_notify and handle_consensus_output_internal: a commit of the last   *)
(* handled round is skipped, any other one is executed and recorded in one *)
(* write.                                                                  *)
HandleConsensusOutput ==
    /\ notifier # <<>>
    /\ notifier' = Tail(notifier)
    /\ LET round == committed[Head(notifier)]
           lastCommittedRound == LastOf(executed, 0)
       IN /\ panicked' = (round < lastCommittedRound)
          /\ executed' = IF round > lastCommittedRound
                         THEN Append(executed, round) ELSE executed
    /\ UNCHANGED <<consensus, sequence, subscriber, crashes>>

(* last_executed_sub_dag_index: every executed sub-dag has moved it by one.*)
LastExecutedSubDagIndex == Len(executed)

(* Mutant: reading back starts before the last executed sub-dag.           *)
RestoredConsensusOutput_Earlier ==
    LET from == IF LastExecutedSubDagIndex < 2 THEN 1 ELSE LastExecutedSubDagIndex - 1
    IN [i \in 1 .. Len(committed) - from + 1 |-> from + i - 1]

(* get_restored_consensus_output: everything from the last executed        *)
(* sub-dag on, itself included.                                            *)
RestoredConsensusOutput ==
    LET from == IF LastExecutedSubDagIndex = 0 THEN 1 ELSE LastExecutedSubDagIndex
    IN [i \in 1 .. Len(committed) - from + 1 |-> from + i - 1]

(* A crash, and the start that follows: what was on its way is read back   *)
(* before consensus runs again.                                            *)
Restart ==
    /\ crashes < MaxCrash
    /\ crashes' = crashes + 1
    /\ phase' = "process" /\ outbox' = <<>> /\ sequence' = <<>>
    /\ waiting' = RestoredConsensusOutput /\ fetched' = {}
    /\ held' = <<>> /\ notifier' = <<>>
    /\ UNCHANGED <<committed, executed, panicked>>

Deliveries ==
    \/ ProcessCertificateReturns \/ SendSequence
    \/ ReceiveSubDag \/ NextOutput \/ SendOutput
    \/ HandleConsensusOutput

Next ==
    /\ ~panicked
    /\ \/ \E gap \in 1 .. MaxGap : CommitSubDag(gap)
       \/ Deliveries
       \/ \E i \in 1 .. Len(waiting) : FetchBatches(i)
       \/ Restart

Spec == Init /\ [][Next]_vars

(* Tasks make progress, and a fetch succeeds in the end: it is repeated    *)
(* for ever, and the signers of a certificate hold its batches.            *)
Fairness ==
    /\ WF_vars(~panicked /\ Deliveries)
    /\ WF_vars(~panicked /\ \E i \in 1 .. Len(waiting) : FetchBatches(i))

FairSpec == Spec /\ Fairness
-----------------------------------------------------------------------------
(* Types.                                                                  *)
TypeOK ==
    /\ committed \in Seq(Nat) /\ executed \in Seq(Nat)
    /\ phase \in {"process", "send"} /\ (phase = "send" => outbox # <<>>)
    /\ outbox \in Seq(Nat) /\ sequence \in Seq(Nat) /\ waiting \in Seq(Nat)
    /\ held \in Seq(Nat) /\ Len(held) <= 1 /\ notifier \in Seq(Nat)
    /\ fetched \in SUBSET Nat
    /\ panicked \in BOOLEAN /\ crashes \in Nat

(* The assertion that a commit is never older than the last handled one    *)
(* holds, although restored and new sub-dags meet in the same queues.      *)
NoPanic == ~panicked

(* Execution follows the persisted commits: in their order, each once,     *)
(* without a gap, and never ahead of what is persisted.                    *)
ExecutedIsPrefix ==
    /\ Len(executed) <= Len(committed)
    /\ \A i \in 1 .. Len(executed) : executed[i] = committed[i]

End == {"consensus", "execution"}

Broadcast == INSTANCE AtomicBroadcast
                WITH Process <- End, Entry <- Nat,
                     outputs <- [e \in End |-> IF e = "consensus" THEN committed
                                                                  ELSE executed]

(* Commits and executions are the two ends of one atomic broadcast.        *)
ImplementsBroadcast == Broadcast!Spec

(* Every persisted sub-dag is executed in the end, through full channels   *)
(* and crashes.                                                            *)
EverythingExecuted ==
    \A n \in 1 .. MaxCommits : (Len(committed) >= n) ~> (Len(executed) >= n)
=============================================================================
