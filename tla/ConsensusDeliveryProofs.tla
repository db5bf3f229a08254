---------------------- MODULE ConsensusDeliveryProofs ----------------------
(***************************************************************************)
(* Proofs about the delivery of sub-dags, for any number of commits and    *)
(* crashes and any capacity: the handler's assertion holds, execution is a *)
(* prefix of the persisted commits, and the pipeline implements the        *)
(* atomic broadcast.                                                       *)
(***************************************************************************)
EXTENDS ConsensusDelivery, TLAPS

(* The queues hold consecutive indices.  Read from the persisted end: the  *)
(* outbox ends with the last commit, and each queue ends where the next    *)
(* one begins.                                                             *)
Consecutive(q, a) == \A i \in 1 .. Len(q) : q[i] = a + i

Sent      == Len(committed) - Len(outbox)
Received  == Sent - Len(sequence)
Passed    == Received - Len(waiting)
Delivered == Passed - Len(held)
Handled   == Delivered - Len(notifier)

Pipeline ==
    /\ Consecutive(outbox, Sent) /\ Consecutive(sequence, Received)
    /\ Consecutive(waiting, Passed) /\ Consecutive(held, Delivered)
    /\ Consecutive(notifier, Handled)

(* After a restart the first one may be the last executed once more.       *)
StartsAtExecuted ==
    /\ Handled >= 0
    /\ Handled = Len(executed) \/ Handled = Len(executed) - 1

RoundsIncrease ==
    /\ \A i \in 1 .. Len(committed) : committed[i] > 0
    /\ \A i, j \in 1 .. Len(committed) : i < j => committed[i] < committed[j]

Inv == TypeOK /\ Pipeline /\ StartsAtExecuted /\ RoundsIncrease
       /\ ExecutedIsPrefix /\ NoPanic
-----------------------------------------------------------------------------
(* A sequence that is not empty has a positive length.                     *)
LEMMA NonEmpty == ASSUME NEW q \in Seq(Nat), q # <<>> PROVE Len(q) \in Nat /\ Len(q) > 0
OBVIOUS

(* The elements of a sequence of numbers are numbers.                      *)
LEMMA Element == ASSUME NEW q \in Seq(Nat), NEW i \in 1 .. Len(q) PROVE q[i] \in Nat
OBVIOUS

(* A queue of consecutive indices stays one at both ends.                  *)
LEMMA ConsecutiveAppend ==
    ASSUME NEW q \in Seq(Nat), NEW a \in Int, NEW x \in Nat,
           Consecutive(q, a), x = a + Len(q) + 1
    PROVE  /\ Append(q, x) \in Seq(Nat) /\ Len(Append(q, x)) = Len(q) + 1
           /\ Consecutive(Append(q, x), a)
BY DEF Consecutive

(* ... and its head is the index that follows its base.                    *)
LEMMA ConsecutiveTail ==
    ASSUME NEW q \in Seq(Nat), NEW a \in Int, Consecutive(q, a), q # <<>>
    PROVE  /\ Tail(q) \in Seq(Nat) /\ Len(Tail(q)) = Len(q) - 1
           /\ Consecutive(Tail(q), a + 1)
           /\ Head(q) = a + 1 /\ Head(q) \in Nat /\ Len(q) > 0
<1>1. Len(q) > 0 /\ Head(q) = q[1] /\ q[1] \in Nat
  OBVIOUS
<1>2. Tail(q) \in Seq(Nat) /\ Len(Tail(q)) = Len(q) - 1
      /\ \A i \in 1 .. Len(q) - 1 : Tail(q)[i] = q[i + 1]
  OBVIOUS
<1>3. QED
  BY <1>1, <1>2 DEF Consecutive

(* The lengths the invariant counts with are integers.                     *)
LEMMA Lengths ==
    ASSUME Inv
    PROVE  /\ Len(committed) \in Nat /\ Len(executed) \in Nat
           /\ Len(outbox) \in Nat /\ Len(sequence) \in Nat /\ Len(waiting) \in Nat
           /\ Len(held) \in Nat /\ Len(notifier) \in Nat
           /\ Sent \in Int /\ Received \in Int /\ Passed \in Int
           /\ Delivered \in Int /\ Handled \in Int
<1>1. /\ Len(committed) \in Nat /\ Len(executed) \in Nat
      /\ Len(outbox) \in Nat /\ Len(sequence) \in Nat /\ Len(waiting) \in Nat
      /\ Len(held) \in Nat /\ Len(notifier) \in Nat
  BY DEF Inv, TypeOK
<1>2. QED
  BY <1>1 DEF Sent, Received, Passed, Delivered, Handled

(* The queues, each with its base.                                         *)
LEMMA Queues ==
    ASSUME Inv
    PROVE  /\ outbox \in Seq(Nat) /\ Consecutive(outbox, Sent)
           /\ sequence \in Seq(Nat) /\ Consecutive(sequence, Received)
           /\ waiting \in Seq(Nat) /\ Consecutive(waiting, Passed)
           /\ held \in Seq(Nat) /\ Consecutive(held, Delivered)
           /\ notifier \in Seq(Nat) /\ Consecutive(notifier, Handled)
BY DEF Inv, TypeOK, Pipeline

(* Initially everything is empty.                                          *)
LEMMA InvInit == Init => Inv
<1> SUFFICES ASSUME Init PROVE Inv
  OBVIOUS
<1>1. TypeOK
  <2>1. Len(<<>>) = 0 /\ Len(<<>>) <= 1 /\ <<>> \in Seq(Nat) /\ {} \in SUBSET Nat /\ 0 \in Nat
    OBVIOUS
  <2>2. QED
    BY <2>1, Zenon DEF Init, TypeOK
<1>2. Sent = 0 /\ Received = 0 /\ Passed = 0 /\ Delivered = 0 /\ Handled = 0
  <2>1. Len(<<>>) = 0
    OBVIOUS
  <2>2. /\ Len(committed) = 0 /\ Len(outbox) = 0 /\ Len(sequence) = 0
        /\ Len(waiting) = 0 /\ Len(held) = 0 /\ Len(notifier) = 0
    BY <2>1, Zenon DEF Init
  <2>3. QED
    BY <2>2 DEF Sent, Received, Passed, Delivered, Handled
<1>3. Pipeline /\ StartsAtExecuted
  BY <1>2 DEF Init, Pipeline, Consecutive, StartsAtExecuted
<1>4. RoundsIncrease /\ ExecutedIsPrefix
  BY DEF Init, RoundsIncrease, ExecutedIsPrefix
<1>5. QED
  BY <1>1, <1>3, <1>4 DEF Inv, NoPanic, Init
-----------------------------------------------------------------------------
(* A commit goes to both the store and the outbox.                         *)
LEMMA InvCommit ==
    ASSUME Inv, NEW gap \in 1 .. MaxGap, CommitSubDag(gap)
    PROVE  Inv'
<1> DEFINE round == LastOf(committed, 0) + 2 * gap
<1>1. MaxGap \in Nat
  BY DeliveryAssumption
<1>2. round \in Nat /\ round > 0
      /\ \A i \in 1 .. Len(committed) : committed[i] < round
  <2>1. CASE committed = <<>>
    BY <1>1, <2>1 DEF LastOf
  <2>2. CASE committed # <<>>
    <3>1. Len(committed) \in 1 .. Len(committed) /\ committed[Len(committed)] \in Nat
      BY <2>2 DEF Inv, TypeOK
    <3>2. round = committed[Len(committed)] + 2 * gap
      BY <2>2 DEF LastOf
    <3>3. \A i \in 1 .. Len(committed) : committed[i] \in Nat
                                         /\ committed[i] <= committed[Len(committed)]
      <4>1. TAKE i \in 1 .. Len(committed)
      <4>2. committed[i] \in Nat
        <5>1. committed \in Seq(Nat)
          BY DEF Inv, TypeOK
        <5>2. QED
          BY <5>1, Element
      <4>3. i < Len(committed) => committed[i] < committed[Len(committed)]
        BY <3>1 DEF Inv, RoundsIncrease
      <4>4. QED
        BY <3>1, <4>2, <4>3
    <3>4. gap \in Nat /\ gap > 0
      BY <1>1
    <3>5. round \in Nat /\ round > committed[Len(committed)]
      BY <3>1, <3>2, <3>4
    <3>6. QED
      BY <3>1, <3>3, <3>5
  <2>3. QED
    BY <2>1, <2>2
<1> HIDE DEF round
<1>3. committed' = Append(committed, round) /\ outbox' = Append(outbox, Len(committed) + 1)
      /\ UNCHANGED <<executed, phase, sequence, waiting, fetched, held, notifier, panicked, crashes>>
      /\ phase = "process"
  BY DEF CommitSubDag, subscriber, round
<1>4. committed' \in Seq(Nat) /\ Len(committed') = Len(committed) + 1
      /\ (\A i \in 1 .. Len(committed) : committed'[i] = committed[i])
      /\ committed'[Len(committed) + 1] = round
  BY <1>2, <1>3 DEF Inv, TypeOK
<1>5. outbox' \in Seq(Nat) /\ Len(outbox') = Len(outbox) + 1 /\ Consecutive(outbox', Sent)
  <2>1. Len(committed) + 1 = Sent + Len(outbox) + 1
    BY Lengths DEF Sent
  <2>2. outbox \in Seq(Nat) /\ Consecutive(outbox, Sent) /\ Len(committed) + 1 \in Nat
    BY Lengths DEF Inv, TypeOK, Pipeline
  <2>3. QED
    BY <1>3, <2>1, <2>2, Lengths, ConsecutiveAppend
<1>6. Sent' = Sent /\ Received' = Received /\ Passed' = Passed
      /\ Delivered' = Delivered /\ Handled' = Handled
  BY <1>3, <1>4, <1>5, Lengths DEF Sent, Received, Passed, Delivered, Handled
<1>7. TypeOK'
  BY <1>3, <1>4, <1>5 DEF Inv, TypeOK
<1>8. Pipeline'
  BY <1>3, <1>5, <1>6 DEF Inv, Pipeline, Consecutive
<1>9. RoundsIncrease'
  <2>1. \A i \in 1 .. Len(committed') : i \in 1 .. Len(committed) \/ i = Len(committed) + 1
    <3>1. Len(committed) \in Nat
      BY Lengths
    <3>2. Len(committed') = Len(committed) + 1
      BY <1>4
    <3>3. QED
      BY <3>1, <3>2
  <2>2. \A i \in 1 .. Len(committed) : committed[i] \in Nat
    <3>1. committed \in Seq(Nat)
      BY DEF Inv, TypeOK
    <3>2. QED
      BY <3>1, Element
  <2>3. \A i \in 1 .. Len(committed') : committed'[i] > 0
    BY <1>2, <1>4, <2>1 DEF Inv, RoundsIncrease
  <2>4. ASSUME NEW i \in 1 .. Len(committed'), NEW j \in 1 .. Len(committed'), i < j
        PROVE  committed'[i] < committed'[j]
    <3>1. i \in 1 .. Len(committed)
      BY <1>4, <2>4, Lengths
    <3>2. CASE j \in 1 .. Len(committed)
      BY <1>4, <2>4, <3>1, <3>2 DEF Inv, RoundsIncrease
    <3>3. CASE j = Len(committed) + 1
      BY <1>2, <1>4, <3>1, <3>3
    <3>4. QED
      BY <2>1, <3>2, <3>3
  <2>5. QED
    BY <2>3, <2>4 DEF RoundsIncrease
<1>10. ExecutedIsPrefix'
  <2>1. Len(executed) <= Len(committed) /\ Len(executed) \in Nat /\ Len(committed) \in Nat
    BY Lengths DEF Inv, ExecutedIsPrefix
  <2>2. \A i \in 1 .. Len(executed) : i \in 1 .. Len(committed)
    BY <2>1
  <2>3. QED
    BY <1>3, <1>4, <2>1, <2>2 DEF Inv, ExecutedIsPrefix
<1>11. StartsAtExecuted' /\ NoPanic'
  BY <1>3, <1>6 DEF Inv, StartsAtExecuted, NoPanic
<1>12. QED
  BY <1>7, <1>8, <1>9, <1>10, <1>11 DEF Inv
(* What does not touch the queues and what they end in.                    *)
LEMMA InvQuiet ==
    ASSUME Inv, UNCHANGED <<committed, executed, outbox, sequence, waiting, held,
                            notifier, panicked>>, TypeOK'
    PROVE  Inv'
<1>1. Sent' = Sent /\ Received' = Received /\ Passed' = Passed
      /\ Delivered' = Delivered /\ Handled' = Handled
  BY DEF Sent, Received, Passed, Delivered, Handled
<1>2. Pipeline' /\ StartsAtExecuted'
  BY <1>1 DEF Inv, Pipeline, StartsAtExecuted
<1>3. RoundsIncrease' /\ ExecutedIsPrefix' /\ NoPanic'
  BY DEF Inv, RoundsIncrease, ExecutedIsPrefix, NoPanic
<1>4. QED
  BY <1>2, <1>3 DEF Inv

(* The oldest sub-dag of the outbox moves to the channel.                  *)
LEMMA InvSendSequence == ASSUME Inv, SendSequence PROVE Inv'
<1>1. outbox # <<>> /\ outbox' = Tail(outbox) /\ sequence' = Append(sequence, Head(outbox))
      /\ UNCHANGED <<committed, executed, waiting, fetched, held, notifier, panicked, crashes>>
      /\ phase' \in {"process", "send"} /\ (phase' = "send" => outbox' # <<>>)
  BY DEF Inv, TypeOK, SendSequence, subscriber
<1>2. /\ outbox' \in Seq(Nat) /\ Len(outbox') = Len(outbox) - 1
      /\ Consecutive(outbox', Sent + 1) /\ Head(outbox) = Sent + 1 /\ Head(outbox) \in Nat
  BY <1>1, Lengths, Queues, ConsecutiveTail
<1>3. Head(outbox) = Received + Len(sequence) + 1
  BY <1>2, Lengths DEF Received
<1>4. /\ sequence' \in Seq(Nat) /\ Len(sequence') = Len(sequence) + 1
      /\ Consecutive(sequence', Received)
  BY <1>1, <1>2, <1>3, Lengths, Queues, ConsecutiveAppend
<1>5. Sent' = Sent + 1 /\ Received' = Received /\ Passed' = Passed
      /\ Delivered' = Delivered /\ Handled' = Handled
  BY <1>1, <1>2, <1>4, Lengths DEF Sent, Received, Passed, Delivered, Handled
<1>6. TypeOK'
  BY <1>1, <1>2, <1>4 DEF Inv, TypeOK
<1>7. Pipeline' /\ StartsAtExecuted'
  BY <1>1, <1>2, <1>4, <1>5 DEF Inv, Pipeline, StartsAtExecuted
<1>8. RoundsIncrease' /\ ExecutedIsPrefix' /\ NoPanic'
  BY <1>1 DEF Inv, RoundsIncrease, ExecutedIsPrefix, NoPanic
<1>9. QED
  BY <1>6, <1>7, <1>8 DEF Inv

(* The oldest sub-dag of the channel joins the fetches.                    *)
LEMMA InvReceive == ASSUME Inv, ReceiveSubDag PROVE Inv'
<1>1. sequence # <<>> /\ sequence' = Tail(sequence) /\ waiting' = Append(waiting, Head(sequence))
      /\ UNCHANGED <<committed, phase, outbox, executed, fetched, held, notifier, panicked, crashes>>
  BY DEF ReceiveSubDag, consensus
<1>2. /\ sequence' \in Seq(Nat) /\ Len(sequence') = Len(sequence) - 1
      /\ Consecutive(sequence', Received + 1)
      /\ Head(sequence) = Received + 1 /\ Head(sequence) \in Nat
  <2>1. sequence \in Seq(Nat)
    BY DEF Inv, TypeOK
  <2>2. Received \in Int /\ Consecutive(sequence, Received)
    BY Lengths DEF Inv, Pipeline
  <2>3. QED
    BY <1>1, <2>1, <2>2, ConsecutiveTail
<1>3. Head(sequence) = Passed + Len(waiting) + 1
  BY <1>2, Lengths DEF Passed
<1>4. /\ waiting' \in Seq(Nat) /\ Len(waiting') = Len(waiting) + 1
      /\ Consecutive(waiting', Passed)
  BY <1>1, <1>2, <1>3, Lengths, Queues, ConsecutiveAppend
<1>5. Sent' = Sent /\ Received' = Received + 1 /\ Passed' = Passed
      /\ Delivered' = Delivered /\ Handled' = Handled
  BY <1>1, <1>2, <1>4, Lengths DEF Sent, Received, Passed, Delivered, Handled
<1>6. TypeOK'
  BY <1>1, <1>2, <1>4 DEF Inv, TypeOK
<1>7. Pipeline' /\ StartsAtExecuted'
  BY <1>1, <1>2, <1>4, <1>5 DEF Inv, Pipeline, StartsAtExecuted
<1>8. RoundsIncrease' /\ ExecutedIsPrefix' /\ NoPanic'
  BY <1>1 DEF Inv, RoundsIncrease, ExecutedIsPrefix, NoPanic
<1>9. QED
  BY <1>6, <1>7, <1>8 DEF Inv

(* The oldest fetch, when complete, is taken out.                          *)
LEMMA InvNextOutput == ASSUME Inv, NextOutput PROVE Inv'
<1>1. held = <<>> /\ waiting # <<>> /\ waiting' = Tail(waiting) /\ held' = <<Head(waiting)>>
      /\ fetched' = fetched \ {Head(waiting)}
      /\ UNCHANGED <<committed, phase, outbox, executed, sequence, notifier, panicked, crashes>>
  BY DEF NextOutput, consensus
<1>2. /\ waiting' \in Seq(Nat) /\ Len(waiting') = Len(waiting) - 1
      /\ Consecutive(waiting', Passed + 1)
      /\ Head(waiting) = Passed + 1 /\ Head(waiting) \in Nat
  BY <1>1, Lengths, Queues, ConsecutiveTail
<1>3. Len(held) = 0 /\ Passed = Delivered
  <2>1. Len(<<>>) = 0
    OBVIOUS
  <2>2. Len(held) = 0
    BY <1>1, <2>1, Zenon
  <2>3. QED
    BY <2>2, Lengths DEF Delivered
<1>4. held' \in Seq(Nat) /\ Len(held') = 1 /\ held'[1] = Passed + 1
  BY <1>1, <1>2
<1>5. Consecutive(held', Delivered)
  BY <1>3, <1>4 DEF Consecutive
<1>6. Sent' = Sent /\ Received' = Received /\ Passed' = Passed + 1
      /\ Delivered' = Delivered /\ Handled' = Handled
  BY <1>1, <1>2, <1>3, <1>4, Lengths DEF Sent, Received, Passed, Delivered, Handled
<1>7. TypeOK'
  <2>1. Len(held') <= 1
    BY <1>4
  <2>2. fetched' \in SUBSET Nat
    BY <1>1 DEF Inv, TypeOK
  <2>3. QED
    BY <1>1, <1>2, <1>4, <2>1, <2>2 DEF Inv, TypeOK
<1>8. Pipeline' /\ StartsAtExecuted'
  BY <1>1, <1>2, <1>5, <1>6 DEF Inv, Pipeline, StartsAtExecuted
<1>9. RoundsIncrease' /\ ExecutedIsPrefix' /\ NoPanic'
  BY <1>1 DEF Inv, RoundsIncrease, ExecutedIsPrefix, NoPanic
<1>10. QED
  BY <1>7, <1>8, <1>9 DEF Inv
(* It is then sent to the notifier.                                        *)
LEMMA InvSendOutput == ASSUME Inv, SendOutput PROVE Inv'
<1>1. held # <<>> /\ held' = <<>> /\ notifier' = Append(notifier, held[1])
      /\ UNCHANGED <<committed, phase, outbox, executed, sequence, waiting, fetched, panicked, crashes>>
  BY DEF SendOutput, consensus
<1>2. Len(held) = 1 /\ held[1] \in Nat /\ held[1] = Delivered + 1
  <2>1. held \in Seq(Nat)
    BY DEF Inv, TypeOK
  <2>1a. Len(held) <= 1
    BY DEF Inv, TypeOK
  <2>2. Len(held) = 1
    <3>1. held # <<>>
      BY <1>1
    <3>2. Len(held) \in Nat /\ Len(held) > 0
      BY <2>1, <3>1, NonEmpty
    <3>3. QED
      BY <2>1a, <3>2
  <2>3. held[1] \in Nat
    <3>1. 1 \in 1 .. Len(held)
      BY <2>2
    <3>2. QED
      BY <2>1, <3>1, Element
  <2>4. QED
    BY <2>2, <2>3 DEF Inv, Pipeline, Consecutive
<1>3. held[1] = Handled + Len(notifier) + 1
  BY <1>2, Lengths DEF Handled
<1>4. /\ notifier' \in Seq(Nat) /\ Len(notifier') = Len(notifier) + 1
      /\ Consecutive(notifier', Handled)
  BY <1>1, <1>2, <1>3, Lengths, Queues, ConsecutiveAppend
<1>5. held' \in Seq(Nat) /\ Len(held') = 0
  <2>1. <<>> \in Seq(Nat) /\ Len(<<>>) = 0
    OBVIOUS
  <2>2. QED
    BY <1>1, <2>1, Zenon
<1>6. Sent' = Sent /\ Received' = Received /\ Passed' = Passed
      /\ Delivered' = Delivered + 1 /\ Handled' = Handled
  BY <1>1, <1>2, <1>4, <1>5, Lengths DEF Sent, Received, Passed, Delivered, Handled
<1>7. TypeOK'
  BY <1>1, <1>4, <1>5 DEF Inv, TypeOK
<1>8. Pipeline' /\ StartsAtExecuted'
  <2>1. Consecutive(held', Delivered')
    BY <1>5 DEF Consecutive
  <2>2. QED
    BY <1>1, <1>4, <1>6, <2>1 DEF Inv, Pipeline, StartsAtExecuted
<1>9. RoundsIncrease' /\ ExecutedIsPrefix' /\ NoPanic'
  BY <1>1 DEF Inv, RoundsIncrease, ExecutedIsPrefix, NoPanic
<1>10. QED
  BY <1>7, <1>8, <1>9 DEF Inv

(* What the handler finds at the head of its queue: the last executed      *)
(* sub-dag once more, or the one after it.                                 *)
LEMMA HandledNext ==
    ASSUME Inv, notifier # <<>>
    PROVE  /\ Head(notifier) = Handled + 1 /\ Head(notifier) \in 1 .. Len(committed)
           /\ committed[Head(notifier)] \in Nat /\ LastOf(executed, 0) \in Nat
           /\ Handled = Len(executed) => committed[Head(notifier)] > LastOf(executed, 0)
           /\ Handled = Len(executed) - 1 => committed[Head(notifier)] = LastOf(executed, 0)
<1>1. Head(notifier) = Handled + 1 /\ Len(notifier) > 0
  <2>1. notifier \in Seq(Nat)
    BY DEF Inv, TypeOK
  <2>2. Handled \in Int /\ Consecutive(notifier, Handled)
    BY Lengths DEF Inv, Pipeline
  <2>3. QED
    BY <2>1, <2>2, ConsecutiveTail
<1>2. Handled + Len(notifier) <= Len(committed)
  BY Lengths DEF Handled, Delivered, Passed, Received, Sent
<1>3. Head(notifier) \in 1 .. Len(committed)
  <2>1. /\ Handled \in Int /\ Handled >= 0
        /\ Len(notifier) \in Nat /\ Len(committed) \in Nat
    BY Lengths DEF Inv, StartsAtExecuted
  <2>2. QED
    BY <1>1, <1>2, <2>1
<1>4. committed[Head(notifier)] \in Nat /\ committed[Head(notifier)] > 0
  <2>1. committed \in Seq(Nat)
    BY DEF Inv, TypeOK
  <2>2. committed[Head(notifier)] > 0
    BY <1>3 DEF Inv, RoundsIncrease
  <2>3. QED
    BY <1>3, <2>1, <2>2, Element
<1>5. CASE executed = <<>>
  <2>1. Len(<<>>) = 0
    OBVIOUS
  <2>2. LastOf(executed, 0) = 0 /\ Len(executed) = 0
    BY <1>5, <2>1, Zenon DEF LastOf
  <2>3. Handled = 0
    BY <2>2, Lengths DEF Inv, StartsAtExecuted
  <2>4. QED
    BY <1>1, <1>3, <1>4, <2>2, <2>3
<1>6. CASE executed # <<>>
  <2>1. LastOf(executed, 0) = executed[Len(executed)]
    BY <1>6 DEF LastOf
  <2>2. Len(executed) \in 1 .. Len(executed) /\ Len(executed) \in 1 .. Len(committed)
    <3>1. executed \in Seq(Nat) /\ Len(executed) <= Len(committed)
      BY DEF Inv, TypeOK, ExecutedIsPrefix
    <3>2. QED
      BY <1>6, <3>1, Lengths
  <2>3. executed[Len(executed)] = committed[Len(executed)] /\ committed[Len(executed)] \in Nat
    <3>1. committed \in Seq(Nat)
      BY DEF Inv, TypeOK
    <3>2. QED
      BY <2>2, <3>1 DEF Inv, ExecutedIsPrefix
  <2>4. Len(executed) < Head(notifier) => committed[Len(executed)] < committed[Head(notifier)]
    BY <1>3, <2>2 DEF Inv, RoundsIncrease
  <2>5. LastOf(executed, 0) = committed[Len(executed)] /\ LastOf(executed, 0) \in Nat
    BY <2>1, <2>3
  <2>6. Len(executed) \in Nat /\ Handled \in Int
    BY Lengths
  <2>7. Handled = Len(executed) - 1 => Head(notifier) = Len(executed)
    BY <1>1, <2>6
  <2>8. QED
    BY <1>1, <1>3, <1>4, <2>4, <2>5, <2>6, <2>7
<1>7. QED
  BY <1>5, <1>6
(* The handler skips the one and executes the other.                       *)
LEMMA InvHandle == ASSUME Inv, HandleConsensusOutput PROVE Inv'
<1> DEFINE round == committed[Head(notifier)]  last == LastOf(executed, 0)
<1>1. notifier # <<>> /\ notifier' = Tail(notifier)
      /\ UNCHANGED <<committed, phase, outbox, sequence, waiting, fetched, held, crashes>>
  BY DEF HandleConsensusOutput, consensus, subscriber
<1>1a. panicked' = (round < last)
  BY DEF HandleConsensusOutput
<1>1b. executed' = IF round > last THEN Append(executed, round) ELSE executed
  BY DEF HandleConsensusOutput
<1>1c. notifier # <<>>
  BY <1>1
<1>2. /\ Head(notifier) = Handled + 1 /\ Head(notifier) \in 1 .. Len(committed)
      /\ round \in Nat /\ last \in Nat
      /\ Handled = Len(executed) => round > last
      /\ Handled = Len(executed) - 1 => round = last
  BY <1>1c, HandledNext
<1>2a. round = committed[Handled + 1]
  BY <1>2
<1> HIDE DEF round, last
<1>3. Handled = Len(executed) \/ Handled = Len(executed) - 1
  BY DEF Inv, StartsAtExecuted
<1>4. ~panicked'
  <2>1. ~(round < last)
    BY <1>2, <1>3
  <2>2. QED
    BY <1>1a, <2>1
<1>5. /\ notifier' \in Seq(Nat) /\ Len(notifier') = Len(notifier) - 1
      /\ Consecutive(notifier', Handled + 1)
  BY <1>1, Lengths, Queues, ConsecutiveTail
<1>6. Sent' = Sent /\ Received' = Received /\ Passed' = Passed
      /\ Delivered' = Delivered /\ Handled' = Handled + 1
  BY <1>1, <1>5, Lengths DEF Sent, Received, Passed, Delivered, Handled
<1>7. /\ executed' \in Seq(Nat) /\ Len(executed') = Handled + 1
      /\ ExecutedIsPrefix'
  <2>1. executed \in Seq(Nat) /\ Len(executed) \in Nat /\ Len(committed) \in Nat
    BY Lengths DEF Inv, TypeOK
  <2>2. CASE Handled = Len(executed)
    <3>1. executed' = Append(executed, round)
      BY <1>1b, <1>2, <2>2
    <3>2. /\ executed' \in Seq(Nat) /\ Len(executed') = Len(executed) + 1
          /\ \A i \in 1 .. Len(executed) : executed'[i] = executed[i]
          /\ executed'[Len(executed) + 1] = round
      BY <1>2, <2>1, <3>1
    <3>3. round = committed[Len(executed) + 1] /\ Len(executed) + 1 <= Len(committed)
      BY <1>2, <1>2a, <2>1, <2>2
    <3>4. \A i \in 1 .. Len(executed') : executed'[i] = committed[i]
      <4>1. TAKE i \in 1 .. Len(executed')
      <4>2. i \in 1 .. Len(executed) \/ i = Len(executed) + 1
        BY <2>1, <3>2
      <4>3. QED
        BY <3>2, <3>3, <4>2 DEF Inv, ExecutedIsPrefix
    <3>5. QED
      BY <1>1, <2>1, <2>2, <3>2, <3>3, <3>4 DEF ExecutedIsPrefix
  <2>3. CASE Handled = Len(executed) - 1
    <3>1. executed' = executed
      BY <1>1b, <1>2, <2>3
    <3>2. QED
      BY <1>1, <2>1, <2>3, <3>1 DEF Inv, ExecutedIsPrefix
  <2>4. QED
    BY <1>3, <2>2, <2>3
<1>8. TypeOK'
  <2>1. panicked' \in BOOLEAN
    BY <1>1a
  <2>2. QED
    BY <1>1, <1>5, <1>7, <2>1 DEF Inv, TypeOK
<1>9. Pipeline'
  BY <1>1, <1>5, <1>6 DEF Inv, Pipeline
<1>10. StartsAtExecuted' /\ RoundsIncrease' /\ NoPanic'
  BY <1>1, <1>4, <1>6, <1>7, Lengths DEF Inv, StartsAtExecuted, RoundsIncrease, NoPanic
<1>11. QED
  BY <1>7, <1>8, <1>9, <1>10 DEF Inv

(* What a restart reads back are the indices from the last executed on.    *)
LEMMA InvRestart == ASSUME Inv, Restart PROVE Inv'
<1> DEFINE from == IF Len(executed) = 0 THEN 1 ELSE Len(executed)
           n == Len(committed) - from + 1
<1>1. /\ phase' = "process" /\ outbox' = <<>> /\ sequence' = <<>> /\ held' = <<>>
      /\ notifier' = <<>> /\ fetched' = {} /\ crashes' = crashes + 1
      /\ waiting' = [i \in 1 .. n |-> from + i - 1]
      /\ UNCHANGED <<committed, executed, panicked>>
  BY DEF Restart, RestoredConsensusOutput, LastExecutedSubDagIndex
<1>2. from \in Nat /\ n \in Nat /\ from >= 1
      /\ (from - 1 = Len(executed) \/ from - 1 = Len(executed) - 1)
  BY Lengths DEF Inv, ExecutedIsPrefix
<1> HIDE DEF from
<1>3. waiting' \in Seq(Nat) /\ Len(waiting') = n
      /\ \A i \in 1 .. n : waiting'[i] = from + i - 1
  <2>1. \A i \in 1 .. n : from + i - 1 \in Nat
    BY <1>2
  <2>2. QED
    BY <1>1, <1>2, <2>1
<1>4. <<>> \in Seq(Nat) /\ Len(<<>>) = 0 /\ Len(<<>>) <= 1
  OBVIOUS
<1>5. /\ outbox' \in Seq(Nat) /\ sequence' \in Seq(Nat) /\ held' \in Seq(Nat)
      /\ notifier' \in Seq(Nat) /\ Len(outbox') = 0 /\ Len(sequence') = 0
      /\ Len(held') = 0 /\ Len(held') <= 1 /\ Len(notifier') = 0
  BY <1>1, <1>4, Zenon
<1>6. Sent' = Len(committed) /\ Received' = Len(committed) /\ Passed' = from - 1
      /\ Delivered' = from - 1 /\ Handled' = from - 1
  BY <1>1, <1>2, <1>3, <1>5, Lengths DEF Sent, Received, Passed, Delivered, Handled
<1>7. TypeOK'
  BY <1>1, <1>3, <1>5 DEF Inv, TypeOK
<1>8. Pipeline'
  <2>1. Consecutive(waiting', Passed')
    BY <1>2, <1>3, <1>6 DEF Consecutive
  <2>2. QED
    BY <1>5, <2>1 DEF Pipeline, Consecutive
<1>9. StartsAtExecuted' /\ RoundsIncrease' /\ ExecutedIsPrefix' /\ NoPanic'
  BY <1>1, <1>2, <1>6 DEF Inv, StartsAtExecuted, RoundsIncrease, ExecutedIsPrefix, NoPanic
<1>10. QED
  BY <1>7, <1>8, <1>9 DEF Inv
-----------------------------------------------------------------------------
(* Every step keeps the invariant.                                         *)
LEMMA InvNext == Inv /\ [Next]_vars => Inv'
<1> SUFFICES ASSUME Inv, [Next]_vars PROVE Inv'
  OBVIOUS
<1>1. ASSUME NEW gap \in 1 .. MaxGap, CommitSubDag(gap) PROVE Inv'
  BY <1>1, InvCommit
<1>2. CASE ProcessCertificateReturns
  <2>1. UNCHANGED <<committed, executed, outbox, sequence, waiting, held, notifier, panicked>>
    BY <1>2 DEF ProcessCertificateReturns, subscriber
  <2>2. TypeOK'
    BY <1>2 DEF ProcessCertificateReturns, subscriber, Inv, TypeOK
  <2>3. QED
    BY <2>1, <2>2, InvQuiet
<1>3. CASE SendSequence
  BY <1>3, InvSendSequence
<1>4. CASE ReceiveSubDag
  BY <1>4, InvReceive
<1>5. ASSUME NEW i \in 1 .. Len(waiting), FetchBatches(i) PROVE Inv'
  <2>1. UNCHANGED <<committed, executed, outbox, sequence, waiting, held, notifier, panicked>>
    BY <1>5 DEF FetchBatches, consensus
  <2>2. TypeOK'
    <3>1. waiting[i] \in Nat
      BY DEF Inv, TypeOK
    <3>2. fetched' \in SUBSET Nat /\ phase' = phase /\ crashes' = crashes
      BY <1>5, <3>1 DEF FetchBatches, consensus, Inv, TypeOK
    <3>3. QED
      BY <2>1, <3>2 DEF Inv, TypeOK
  <2>3. QED
    BY <2>1, <2>2, InvQuiet
<1>6. CASE NextOutput
  BY <1>6, InvNextOutput
<1>7. CASE SendOutput
  BY <1>7, InvSendOutput
<1>8. CASE HandleConsensusOutput
  BY <1>8, InvHandle
<1>9. CASE Restart
  BY <1>9, InvRestart
<1>10. CASE UNCHANGED vars
  <2>1. UNCHANGED <<committed, executed, outbox, sequence, waiting, held, notifier, panicked>>
        /\ UNCHANGED <<phase, fetched, crashes>>
    BY <1>10 DEF vars, consensus, subscriber
  <2>2. TypeOK'
    BY <2>1 DEF Inv, TypeOK
  <2>3. QED
    BY <2>1, <2>2, InvQuiet
<1>11. QED
  BY <1>1, <1>2, <1>3, <1>4, <1>5, <1>6, <1>7, <1>8, <1>9, <1>10 DEF Next, Deliveries

(* The invariant holds throughout.                                         *)
LEMMA Invariance == Spec => []Inv
BY InvInit, InvNext, PTL DEF Spec

(* The handler never fails its assertion that leader rounds do not go      *)
(* back, for any number of commits and crashes.                            *)
THEOREM DeliveryNeverPanics == Spec => []NoPanic
<1>1. Inv => NoPanic
  BY DEF Inv
<1>2. QED
  BY <1>1, Invariance, PTL

(* What is executed is always a prefix of what is persisted: in order,     *)
(* once, and without a gap.                                                *)
THEOREM ExecutionFollowsCommits == Spec => []ExecutedIsPrefix
<1>1. Inv => ExecutedIsPrefix
  BY DEF Inv
<1>2. QED
  BY <1>1, Invariance, PTL
-----------------------------------------------------------------------------
(* From the commits that consensus persists to the commits that are        *)
(* executed, the delivery implements an atomic broadcast.                  *)
outputs == [e \in End |-> IF e = "consensus" THEN committed ELSE executed]

(* Nothing is delivered at the start.                                      *)
LEMMA RefinesInit == Init => Broadcast!Init
BY DEF Init, Broadcast!Init, End

(* A commit is a delivery at the end of consensus.                         *)
LEMMA CommitDelivers ==
    ASSUME Inv, NEW gap \in 1 .. MaxGap, CommitSubDag(gap)
    PROVE  Broadcast!Deliver("consensus")
<1> DEFINE round == LastOf(committed, 0) + 2 * gap
           n == Len(committed) + 1
<1>1. committed' = Append(committed, round) /\ executed' = executed
  BY DEF CommitSubDag
<1>2. Inv'
  BY InvCommit
<1>3. Len(committed) \in Nat /\ Len(executed) \in Nat /\ Len(executed) <= Len(committed)
  BY Lengths DEF Inv, ExecutedIsPrefix
<1> HIDE DEF round
<1>4. Len(committed') = n
      /\ committed'[n] = round
      /\ \A i \in 1 .. Len(committed) : committed'[i] = committed[i]
  BY <1>1, <1>3 DEF Inv, TypeOK
<1>5. round \in Nat /\ \A i \in 1 .. n - 1 : committed[i] # round
  <2>1. committed' \in Seq(Nat)
        /\ \A i, j \in 1 .. Len(committed') : i < j => committed'[i] < committed'[j]
    BY <1>2 DEF Inv, TypeOK, RoundsIncrease
  <2>2. n \in 1 .. Len(committed')
    BY <1>3, <1>4
  <2>3. round \in Nat
    BY <1>4, <2>1, <2>2
  <2>4. ASSUME NEW i \in 1 .. n - 1 PROVE committed[i] # round
    <3>1. i \in 1 .. Len(committed) /\ i \in 1 .. Len(committed') /\ i < n
      BY <1>3, <1>4
    <3>2. committed'[i] < committed'[n] /\ committed'[i] = committed[i]
      BY <1>4, <2>1, <2>2, <3>1
    <3>3. committed'[i] \in Nat
      BY <2>1, <3>1
    <3>4. QED
      BY <1>4, <2>3, <3>2, <3>3
  <2>5. QED
    BY <2>3, <2>4
<1>6. outputs' = [outputs EXCEPT !["consensus"] = Append(@, round)]
  BY <1>1, Zenon DEF outputs, End
<1>7. \A q \in End : ~(n <= Len(outputs[q]))
  BY <1>3 DEF outputs, End
<1>8. outputs["consensus"] = committed /\ outputs'["consensus"] = committed'
  BY DEF outputs, End
<1>9. QED
  BY <1>4, <1>5, <1>6, <1>7, <1>8 DEF Broadcast!Deliver, outputs, End

(* Handling an output is a delivery at the end of execution, or leaves it  *)
(* alone when the output was executed before.                              *)
LEMMA HandleDelivers ==
    ASSUME Inv, HandleConsensusOutput, executed' # executed
    PROVE  Broadcast!Deliver("execution")
<1> DEFINE round == committed[Head(notifier)]
           n == Len(executed) + 1
<1>1. notifier # <<>> /\ committed' = committed /\ executed' = Append(executed, round)
  BY DEF HandleConsensusOutput, consensus, subscriber
<1>2. Inv'
  BY InvHandle
<1>3. Len(committed) \in Nat /\ Len(executed) \in Nat
  BY Lengths DEF Inv
<1>4. round \in Nat
  BY <1>1, HandledNext
<1> HIDE DEF round
<1>5. Len(executed') = n /\ executed'[n] = round
  BY <1>1, <1>3, <1>4 DEF Inv, TypeOK
<1>6. n <= Len(committed) /\ committed[n] = round
      /\ \A i \in 1 .. Len(executed) : executed[i] = committed[i]
  BY <1>1, <1>2, <1>3, <1>5 DEF Inv, ExecutedIsPrefix
<1>7. \A i \in 1 .. n - 1 : executed[i] # round
  <2>1. \A i, j \in 1 .. Len(committed) : i < j => committed[i] < committed[j]
    BY DEF Inv, RoundsIncrease
  <2>2. committed \in Seq(Nat)
    BY DEF Inv, TypeOK
  <2>3. ASSUME NEW i \in 1 .. n - 1 PROVE executed[i] # round
    <3>1. i \in 1 .. Len(committed) /\ n \in 1 .. Len(committed) /\ i < n
          /\ i \in 1 .. Len(executed)
      BY <1>3, <1>6
    <3>2. executed[i] = committed[i] /\ committed[i] < committed[n]
      BY <1>6, <2>1, <3>1
    <3>3. committed[i] \in Nat
      BY <2>2, <3>1
    <3>4. QED
      BY <1>4, <1>6, <3>2, <3>3
  <2>4. QED
    BY <2>3
<1>8. outputs' = [outputs EXCEPT !["execution"] = Append(@, round)]
  BY <1>1, Zenon DEF outputs, End
<1>9. \A q \in End : n <= Len(outputs[q]) => outputs[q][n] = round
  BY <1>3, <1>6 DEF outputs, End
<1>10. outputs["execution"] = executed /\ outputs'["execution"] = executed'
  BY DEF outputs, End
<1>11. QED
  BY <1>4, <1>5, <1>7, <1>8, <1>9, <1>10 DEF Broadcast!Deliver, outputs, End

(* Every step of the delivery is a delivery of the broadcast or a stutter. *)
LEMMA RefinesNext == Inv /\ [Next]_vars => [Broadcast!Next]_outputs
<1> SUFFICES ASSUME Inv, [Next]_vars, ~UNCHANGED outputs PROVE Broadcast!Next
  OBVIOUS
<1>1. ~(committed' = committed /\ executed' = executed)
  BY DEF outputs
<1>2. ASSUME NEW gap \in 1 .. MaxGap, CommitSubDag(gap) PROVE Broadcast!Next
  BY <1>2, CommitDelivers DEF Broadcast!Next, End
<1>3. CASE HandleConsensusOutput
  <2>1. committed' = committed
    BY <1>3 DEF HandleConsensusOutput, consensus
  <2>2. QED
    BY <1>1, <1>3, <2>1, HandleDelivers DEF Broadcast!Next, End
<1>4. CASE ProcessCertificateReturns \/ SendSequence \/ ReceiveSubDag \/ NextOutput \/ SendOutput
  BY <1>1, <1>4 DEF ProcessCertificateReturns, SendSequence, ReceiveSubDag, NextOutput,
                    SendOutput, consensus, subscriber
<1>5. CASE Restart
  BY <1>1, <1>5 DEF Restart
<1>6. ASSUME NEW i \in 1 .. Len(waiting), FetchBatches(i) PROVE Broadcast!Next
  BY <1>1, <1>6 DEF FetchBatches, consensus
<1>7. CASE UNCHANGED vars
  BY <1>1, <1>7 DEF vars, consensus, subscriber
<1>8. QED
  BY <1>2, <1>3, <1>4, <1>5, <1>6, <1>7 DEF Next, Deliveries

(* Through full channels, crashes and replays, execution receives what     *)
(* consensus persists as an atomic broadcast would deliver it.             *)
THEOREM DeliveryImplementsBroadcast == Spec => ImplementsBroadcast
<1>1. Inv /\ [Next]_vars => [Broadcast!Next]_outputs
  BY RefinesNext
<1>2. QED
  BY <1>1, RefinesInit, Invariance, PTL DEF Spec, ImplementsBroadcast, Broadcast!Spec, outputs
=============================================================================
