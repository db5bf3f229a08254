------------------------------ MODULE Proposer ------------------------------
(***************************************************************************)
(* What becomes of the batch digests and system messages handed to the     *)
(* proposer (proposer.rs): they wait in a queue, go into a header, and are *)
(* put back into the queue when a later header of the same author is       *)
(* committed first, until a header that carries them is committed          *)
(* (state_handler.rs tells the proposer which are).                        *)
(*                                                                         *)
(* Rounds matter here only for their order: `headers' lists this author's  *)
(* headers oldest first.  A header that is committed carries the number of *)
(* its message in the channel to the proposer.                             *)
(***************************************************************************)
EXTENDS Integers, Sequences, FiniteSets, SequencesExt

CONSTANTS
    Digest,                \* batches of the workers
    SystemMessage,         \* messages of the randomness protocol
    MaxHeaderNumOfBatches, \* Parameters.max_header_num_of_batches
    MaxHeaders,            \* bound: headers that are neither committed nor given up
    MaxMessages,           \* bound: messages in rx_committed_own_headers
    MaxCrash               \* bound: crashes

VARIABLES
    digests,          \* Proposer.digests
    systemMessages,   \* Proposer.system_messages
    headers,          \* own headers, those of proposed_headers being `tracked'
    inflight,         \* number of messages in rx_committed_own_headers
    reported,         \* digests and messages that were handed in
    acked,            \* those of them handed in since the last restart
    timesCommitted,   \* how often a digest or message was committed
    crashes

vars == <<digests, systemMessages, headers, inflight, reported, acked,
          timesCommitted, crashes>>

ASSUME ProposerAssumption ==
    /\ Digest \cap SystemMessage = {}
    /\ MaxHeaderNumOfBatches \in Nat \ {0}
    /\ MaxHeaders \in Nat /\ MaxMessages \in Nat /\ MaxCrash \in Nat

Item == Digest \cup SystemMessage

Contents(h) == ToSet(h.digests) \cup ToSet(h.messages)

Init ==
    /\ digests = <<>>
    /\ systemMessages = <<>>
    /\ headers = <<>>
    /\ inflight = 0
    /\ reported = {}
    /\ acked = {}
    /\ timesCommitted = [i \in Item |-> 0]
    /\ crashes = 0

(* A worker reports a batch: the ack is sent, the digest queued.           *)
ReceiveDigest(d) ==
    /\ d \notin reported
    /\ digests' = Append(digests, d)
    /\ reported' = reported \cup {d}
    /\ acked' = acked \cup {d}
    /\ UNCHANGED <<systemMessages, headers, inflight, timesCommitted, crashes>>

ReceiveSystemMessage(m) ==
    /\ m \notin reported
    /\ systemMessages' = Append(systemMessages, m)
    /\ reported' = reported \cup {m}
    /\ acked' = acked \cup {m}
    /\ UNCHANGED <<digests, headers, inflight, timesCommitted, crashes>>

NumOfDigests == IF Len(digests) < MaxHeaderNumOfBatches
                THEN Len(digests) ELSE MaxHeaderNumOfBatches

(* create_new_header, when parents and timers permit: the oldest digests   *)
(* and all system messages go into a header of a new round, which is       *)
(* entered in proposed_headers.  (A stored header of the same round, found *)
(* after a restart, is proposed again and leaves all of this as it is.)    *)
CreateNewHeader ==
    /\ Len(headers) < MaxHeaders
    /\ headers' = Append(headers,
          [digests |-> SubSeq(digests, 1, NumOfDigests), messages |-> systemMessages,
           tracked |-> TRUE, commit |-> 0])
    /\ digests' = SubSeq(digests, NumOfDigests + 1, Len(digests))
    /\ systemMessages' = <<>>
    /\ UNCHANGED <<inflight, reported, acked, timesCommitted, crashes>>

(* Consensus commits a sub-dag with the headers S of this author.  It      *)
(* skips what is not above the author's last committed round (order_dag),  *)
(* so S lies behind all that was committed before.  handle_sequenced sends *)
(* the rounds to the proposer.                                             *)
CommitHeaders(S) ==
    /\ S # {} /\ inflight < MaxMessages
    /\ \A i \in S, j \in DOMAIN headers : headers[j].commit > 0 => j < i
    /\ headers' = [i \in DOMAIN headers |->
          IF i \in S THEN [headers[i] EXCEPT !.commit = inflight + 1] ELSE headers[i]]
    /\ inflight' = inflight + 1
    /\ timesCommitted' = [x \in Item |->
          timesCommitted[x] + Cardinality({i \in S : x \in Contents(headers[i])})]
    /\ UNCHANGED <<digests, systemMessages, reported, acked, crashes>>

(* Mutants: headers above the committed one are sent again as well; only   *)
(* the header right below the committed one is; none is.                   *)
Retransmit_Later == SelectSeq(headers, LAMBDA h : h.tracked /\ h.commit # 1)

Retransmit_LastOnly ==
    LET M == CHOOSE i \in DOMAIN headers :
                /\ headers[i].commit = 1
                /\ \A j \in DOMAIN headers : headers[j].commit = 1 => j <= i
    IN SelectSeq(SubSeq(headers, IF M = 1 THEN 1 ELSE M - 1, M),
                 LAMBDA h : h.tracked /\ h.commit # 1)

Retransmit_None == <<>>

(* The rounds of the first message: the last header it names, and the      *)
(* tracked headers up to that one that it does not name.                   *)
MaxCommitted == CHOOSE i \in DOMAIN headers :
                   /\ headers[i].commit = 1
                   /\ \A j \in DOMAIN headers : headers[j].commit = 1 => j <= i

Retransmit == SelectSeq(SubSeq(headers, 1, MaxCommitted),
                        LAMBDA h : h.tracked /\ h.commit # 1)

(* The rx_committed_own_headers branch: committed headers are dropped,     *)
(* the older ones put back in front of the queues.                         *)
ReceiveCommitted ==
    /\ inflight > 0
    /\ digests' = FlattenSeq([i \in DOMAIN Retransmit |-> Retransmit[i].digests])
                     \o digests
    /\ systemMessages' = FlattenSeq([i \in DOMAIN Retransmit |-> Retransmit[i].messages])
                     \o systemMessages
    /\ headers' = [i \in 1 .. Len(headers) - MaxCommitted |->
          [headers[i + MaxCommitted] EXCEPT !.commit = IF @ = 0 THEN 0 ELSE @ - 1]]
    /\ inflight' = inflight - 1
    /\ UNCHANGED <<reported, acked, timesCommitted, crashes>>

(* A crash loses the queues, proposed_headers and the channel.  Headers    *)
(* that left the primary may still be committed.                           *)
Restart ==
    /\ crashes < MaxCrash
    /\ crashes' = crashes + 1
    /\ digests' = <<>> /\ systemMessages' = <<>>
    /\ LET committed == {i \in DOMAIN headers : headers[i].commit > 0}
           last == IF committed = {} THEN 0
                   ELSE CHOOSE i \in committed : \A j \in committed : j <= i
       IN headers' = [i \in 1 .. Len(headers) - last |->
                        [headers[i + last] EXCEPT !.tracked = FALSE]]
    /\ inflight' = 0
    /\ acked' = {}
    /\ UNCHANGED <<reported, timesCommitted>>

Next ==
    \/ \E d \in Digest : ReceiveDigest(d)
    \/ \E m \in SystemMessage : ReceiveSystemMessage(m)
    \/ CreateNewHeader
    \/ \E S \in SUBSET DOMAIN headers : CommitHeaders(S)
    \/ ReceiveCommitted
    \/ Restart

Spec == Init /\ [][Next]_vars

(* The proposer's loop always gets to its channels and timers.  Of the     *)
(* network and consensus it is assumed that an item offered again and      *)
(* again in headers that can be committed is in the end committed; which   *)
(* of the headers that is, and what else is committed, stays open.         *)
CommitWith(x) ==
    \E S \in SUBSET DOMAIN headers :
       /\ \E i \in S : x \in Contents(headers[i])
       /\ CommitHeaders(S)

Fairness ==
    /\ WF_vars(CreateNewHeader)
    /\ WF_vars(ReceiveCommitted)
    /\ WF_vars(\E S \in SUBSET DOMAIN headers : CommitHeaders(S))
    /\ \A x \in Item : SF_vars(CommitWith(x))

FairSpec == Spec /\ Fairness
-----------------------------------------------------------------------------
Tracked == {i \in DOMAIN headers : headers[i].tracked}

TypeOK ==
    /\ digests \in Seq(Digest) /\ systemMessages \in Seq(SystemMessage)
    /\ headers \in Seq([digests : Seq(Digest), messages : Seq(SystemMessage),
                        tracked : BOOLEAN, commit : 0 .. MaxMessages])
    /\ inflight \in 0 .. MaxMessages
    /\ reported \in SUBSET Item /\ acked \in SUBSET reported
    /\ timesCommitted \in [Item -> Nat]
    /\ crashes \in 0 .. MaxCrash
    /\ {headers[i].commit : i \in DOMAIN headers} \ {0} = 1 .. inflight

(* Nothing the proposer acknowledged since it started is lost: it waits in *)
(* a queue, is in a header of proposed_headers, or is committed ("tracked  *)
(* until inclusion" in the branch of rx_our_digests).                      *)
AckedIsTracked ==
    \A x \in acked :
       \/ x \in ToSet(digests) \cup ToSet(systemMessages)
       \/ \E i \in Tracked : x \in Contents(headers[i])
       \/ timesCommitted[x] > 0

(* A digest is committed at most once: the proposer puts a header's        *)
(* digests back only when the header can no longer be committed, however   *)
(* late the news of commits arrives and whatever was left by a crash.      *)
CommittedOnce == \A x \in Item : timesCommitted[x] <= 1

(* What was acknowledged is committed in the end, unless the primary       *)
(* crashes first.                                                          *)
EventuallyCommitted ==
    \A x \in Item : (x \in acked) ~> (timesCommitted[x] > 0 \/ x \notin acked)
=============================================================================
