-------------------------- MODULE EpochCloseProofs --------------------------
(***************************************************************************)
(* Proofs about EpochClose, for any committee, any certificates and any    *)
(* number of commits in flight and of restarts.                            *)
(***************************************************************************)
EXTENDS EpochClose, FiniteSetTheorems, TLAPS

(* What a commit does to the store of whoever handles it, by the store     *)
(* alone: the cache of keys, which a restart loses, and the moment a       *)
(* validator closed its own epoch have no part in it.                      *)
Phase == {"Accepts", "RejectAllCerts", "RejectAllTx"}

Store == [processed : SUBSET Item, endOfPublish : SUBSET Authority,
          deferred : SUBSET Waiting, executed : SUBSET Certificate,
          checkpoints : Seq(PendingCheckpoint), phase : Phase]

PhaseOf(v) == IF AcceptsConsensusCerts(v) THEN "Accepts" ELSE reconfig[v]

StoreOf(v) ==
    [processed |-> processed[v], endOfPublish |-> endOfPublish[v],
     deferred |-> deferred[v], executed |-> executed[v],
     checkpoints |-> Settled(v), phase |-> PhaseOf(v)]

NewTxs(s, k) ==
    {[cert |-> c, author |-> k.certs[c]] : c \in DOMAIN k.certs \ s.processed}

DueTxs(s, k) == {d \in s.deferred : d.wait <= (IF k.randomness THEN 1 ELSE 0)}

TakenTxs(s, k) == IF s.phase = "Accepts" THEN NewTxs(s, k) ELSE {}

HeldTxs(rand, s, k) == {t \in TakenTxs(s, k) : t.cert \in rand}

RunTxs(rand, s, k) ==
    (TakenTxs(s, k) \ HeldTxs(rand, s, k))
    \cup {t \in {d.tx : d \in DueTxs(s, k)} : t.author \notin s.endOfPublish}

EndsAfter(s, k) ==
    IF s.phase = "Accepts"
    THEN Collect(s.endOfPublish, Range(k.ends) \ s.processed, k.ends)
    ELSE s.endOfPublish

PhaseAfter(rand, s, k) ==
    IF s.phase = "RejectAllCerts" \/ (s.phase = "Accepts" /\ ReachedQuorum(EndsAfter(s, k)))
    THEN IF s.deferred = {} /\ HeldTxs(rand, s, k) = {} THEN "RejectAllTx"
         ELSE "RejectAllCerts"
    ELSE s.phase

CheckpointsAfter(rand, s, k) ==
    IF s.phase = "RejectAllTx" THEN s.checkpoints
    ELSE Append(s.checkpoints,
                [roots |-> {t.cert : t \in TakenTxs(s, k)},
                 last |-> PhaseAfter(rand, s, k) = "RejectAllTx"])

StoreAfter(rand, s, k) ==
    [processed |-> s.processed \cup (Range(k.ends) \ s.processed)
                     \cup {t.cert : t \in RunTxs(rand, s, k) \cup HeldTxs(rand, s, k)},
     endOfPublish |-> EndsAfter(s, k),
     deferred |-> {[d EXCEPT !.wait = IF k.randomness THEN @ - 1 ELSE @] :
                     d \in s.deferred \ DueTxs(s, k)}
                  \cup {[tx |-> t, wait |-> 2] : t \in HeldTxs(rand, s, k)},
     executed |-> s.executed \cup {t.cert : t \in RunTxs(rand, s, k)},
     checkpoints |-> CheckpointsAfter(rand, s, k),
     phase |-> PhaseAfter(rand, s, k)]

(* The stores that validators go through: h[i] is the one of whoever has   *)
(* handled i of the commits that are left.                                 *)
Replayed(h) ==
    /\ h \in [0 .. Len(commits) -> Store]
    /\ \A i \in 1 .. Len(commits) : h[i] = StoreAfter(random, h[i - 1], commits[i])
    /\ \A v \in Authority : StoreOf(v) = h[handled[v]]
    /\ \A i, j \in 0 .. Len(commits) : i <= j => h[i].processed \subseteq h[j].processed

(* Who has sent EndOfPublish takes no certificates any more, and those     *)
(* that it took are processed.                                             *)
Finished(w, S) == reconfig[w] # "AcceptAllCerts" /\ accepted[w] \subseteq S

(* The certificates of a commit were taken by their submitter.             *)
Backed(h) ==
    /\ \A i \in 1 .. Len(commits) :
          /\ \A c \in DOMAIN commits[i].certs :
                c \in accepted[commits[i].certs[c]]
          /\ \A w \in Range(commits[i].ends) : Finished(w, h[i - 1].processed)
    /\ \A i \in 0 .. Len(commits) :
          \A w \in h[i].endOfPublish : Finished(w, h[i].processed)

Sent(w) == w \in worker[w] \cup pending[w] \/ \E s \in Stage : <<w, s>> \in tasks[w]

(* The adapter: what it works on was taken from a client, what was taken   *)
(* stays pending until it is processed, and EndOfPublish comes last.       *)
AdapterOK(v) ==
    /\ (worker[v] \cup pending[v]) \cap Certificate \subseteq accepted[v]
    /\ \A x \in tasks[v] : x[1] \in Certificate => x[1] \in accepted[v]
    /\ accepted[v] \subseteq pending[v] \cup processed[v]
    /\ \A x \in tasks[v] : x[2] = "processed" => x[1] \in processed[v]
    /\ Sent(v) => Finished(v, processed[v])

(* The handler: as long as certificates are accepted, all keys in the      *)
(* cache and all roots of pending checkpoints are recorded as processed;   *)
(* afterwards those that came too late are not.  Nothing is deferred when  *)
(* the epoch is over.                                                      *)
HandlerOK(v) ==
    /\ cache[v] \cap Authority \subseteq processed[v]
    /\ AcceptsConsensusCerts(v) => cache[v] \cap Certificate \subseteq processed[v]
    /\ AcceptsConsensusCerts(v) =>
          \A n \in DOMAIN checkpoints[v] :
             checkpoints[v][n].roots \subseteq processed[v]
    /\ \A d \in deferred[v] : d.tx.cert \in processed[v]
    /\ reconfig[v] = "RejectAllTx" => deferred[v] = {}
    /\ processed[v] \cap Certificate \subseteq
          executed[v] \cup {d.tx.cert : d \in deferred[v]}
          \cup {x.cert : x \in warned[v]}

Log == \E h : Replayed(h) /\ Backed(h)

Inv ==
    /\ TypeOK /\ Log /\ NothingNewAfterEndOfPublish
    /\ \A v \in Authority : AdapterOK(v) /\ HandlerOK(v)
-----------------------------------------------------------------------------
(* The three properties follow from the invariant.                         *)

(* The fields of the store of v.                                           *)
LEMMA StoreFields ==
    ASSUME NEW v \in Authority
    PROVE  /\ StoreOf(v).processed = processed[v]
           /\ StoreOf(v).endOfPublish = endOfPublish[v]
           /\ StoreOf(v).deferred = deferred[v]
           /\ StoreOf(v).executed = executed[v]
           /\ StoreOf(v).checkpoints = Settled(v)
           /\ StoreOf(v).phase = PhaseOf(v)
BY Zenon DEF StoreOf

(* What the phase of a store tells about the reconfiguration state.        *)
LEMMA PhaseFacts ==
    ASSUME TypeOK, NEW v \in Authority
    PROVE  /\ PhaseOf(v) \in Phase
           /\ AcceptsConsensusCerts(v) <=> PhaseOf(v) = "Accepts"
           /\ reconfig[v] = "RejectAllCerts" <=> PhaseOf(v) = "RejectAllCerts"
           /\ reconfig[v] = "RejectAllTx" <=> PhaseOf(v) = "RejectAllTx"
<1>1. reconfig[v] \in Status
  BY Zenon DEF TypeOK
<1>2. QED
  BY <1>1, Zenon DEF PhaseOf, AcceptsConsensusCerts, Status, Phase

(* The same in the next state.                                             *)
LEMMA PhasePrimed ==
    ASSUME TypeOK', NEW v \in Authority
    PROVE  /\ PhaseOf(v)' \in Phase
           /\ AcceptsConsensusCerts(v)' <=> PhaseOf(v)' = "Accepts"
           /\ reconfig'[v] = "RejectAllTx" <=> PhaseOf(v)' = "RejectAllTx"
<1>1. reconfig'[v] \in Status
  BY Zenon DEF TypeOK
<1>2. QED
  BY <1>1, Zenon DEF PhaseOf, AcceptsConsensusCerts, Status, Phase

(* What commits are made of.                                               *)
LEMMA CommitFacts ==
    ASSUME TypeOK, NEW i \in 1 .. Len(commits)
    PROVE  /\ commits[i] \in CommitRecord
           /\ DOMAIN commits[i].certs \subseteq Certificate
           /\ \A c \in DOMAIN commits[i].certs : commits[i].certs[c] \in Authority
           /\ Range(commits[i].ends) \subseteq Authority
           /\ commits[i].randomness \in BOOLEAN
<1>1. commits[i] \in CommitRecord
  BY DEF TypeOK
<1>2. PICK C \in SUBSET Certificate : commits[i].certs \in [C -> Authority]
  BY <1>1, Zenon DEF CommitRecord
<1>3. commits[i].ends \in Seq(Authority) /\ commits[i].randomness \in BOOLEAN
  BY <1>1, Zenon DEF CommitRecord
<1>4. Range(commits[i].ends) \subseteq Authority
  BY <1>3 DEF Range
<1>5. QED
  BY <1>1, <1>2, <1>3, <1>4, Zenon

(* Two validators at the same place of the log have the store that is      *)
(* there.                                                                  *)
LEMMA InvAgreement == Inv => SameCommitsSameState
<1> SUFFICES ASSUME Inv, NEW v \in Authority, NEW w \in Authority,
                    handled[v] = handled[w]
             PROVE  /\ processed[v] = processed[w]
                    /\ endOfPublish[v] = endOfPublish[w]
                    /\ deferred[v] = deferred[w] /\ executed[v] = executed[w]
                    /\ Settled(v) = Settled(w)
                    /\ AcceptsConsensusCerts(v) = AcceptsConsensusCerts(w)
                    /\ reconfig[v] = "RejectAllTx" <=> reconfig[w] = "RejectAllTx"
  BY Zenon DEF SameCommitsSameState
<1>1. StoreOf(v) = StoreOf(w)
  BY Zenon DEF Inv, Log, Replayed
<1>2. PhaseOf(v) = PhaseOf(w)
  BY <1>1, StoreFields, Zenon
<1>3. /\ AcceptsConsensusCerts(v) = AcceptsConsensusCerts(w)
      /\ reconfig[v] = "RejectAllTx" <=> reconfig[w] = "RejectAllTx"
  <2>1. AcceptsConsensusCerts(v) <=> AcceptsConsensusCerts(w)
    BY <1>2, PhaseFacts, Zenon DEF Inv
  <2>2. AcceptsConsensusCerts(v) = AcceptsConsensusCerts(w)
    BY <2>1 DEF AcceptsConsensusCerts
  <2>3. QED
    BY <1>2, <2>2, PhaseFacts, Zenon DEF Inv
<1>4. QED
  BY <1>1, <1>3, StoreFields, Zenon

(* A counted sender has finished, so that what it took is processed, and   *)
(* the handler accounts for what is processed.                             *)
LEMMA InvSurvival == Inv => AcceptedSurvive
<1> SUFFICES ASSUME Inv, NEW v \in Authority, NEW w \in endOfPublish[v],
                    NEW c \in accepted[w] \ Dropped(v), c \notin executed[v]
             PROVE  /\ c \in {d.tx.cert : d \in deferred[v]}
                    /\ reconfig[v] # "RejectAllTx"
  BY Zenon DEF AcceptedSurvive
<1>1. PICK h : Replayed(h) /\ Backed(h)
  BY Zenon DEF Inv, Log
<1>2. /\ handled[v] \in 0 .. Len(commits) /\ w \in Authority
      /\ accepted \in [Authority -> SUBSET Certificate]
  BY Zenon DEF Inv, TypeOK
<1>3. h[handled[v]].endOfPublish = endOfPublish[v] /\ h[handled[v]].processed = processed[v]
  BY <1>1, StoreFields, Zenon DEF Replayed
<1>4. accepted[w] \subseteq processed[v]
  BY <1>1, <1>2, <1>3, Zenon DEF Backed, Finished
<1>5. c \in processed[v] \cap Certificate
  BY <1>2, <1>4, Zenon
<1>6. c \in executed[v] \cup {d.tx.cert : d \in deferred[v]} \cup {x.cert : x \in warned[v]}
  BY <1>5, Zenon DEF Inv, HandlerOK
<1>7. c \notin {x.cert : x \in warned[v]}
  BY Zenon DEF Inv, NothingNewAfterEndOfPublish, Dropped
<1>8. c \in {d.tx.cert : d \in deferred[v]}
  BY <1>6, <1>7, Zenon
<1>9. reconfig[v] # "RejectAllTx"
  BY <1>8, Zenon DEF Inv, HandlerOK
<1>10. QED
  BY <1>8, <1>9, Zenon
-----------------------------------------------------------------------------
(* The invariant holds initially.                                          *)

(* Initially the log is empty, and so are the stores.                      *)
LEMMA InvInit == Init => Inv
<1> SUFFICES ASSUME Init PROVE Inv
  BY Zenon
<1>1. TypeOK
  <2>1. random \subseteq Certificate
    BY EpochCloseAssumption, Zenon DEF Init
  <2>2. <<>> \in Seq(CommitRecord) /\ Len(<<>>) = 0 /\ <<>> \in Seq(PendingCheckpoint)
    OBVIOUS
  <2>3. handled \in [Authority -> 0 .. Len(commits)]
    BY <2>2 DEF Init
  <2>4. QED
    BY <2>1, <2>2, <2>3, Zenon DEF Init, TypeOK, None, Status
<1>2. Log
  <2> DEFINE s == [processed |-> {}, endOfPublish |-> {}, deferred |-> {},
                   executed |-> {}, checkpoints |-> <<>>, phase |-> "Accepts"]
             h == [i \in 0 .. 0 |-> s]
  <2>1. commits = <<>> /\ Len(commits) = 0 /\ handled = [v \in Authority |-> 0]
    BY Zenon DEF Init
  <2>2. s \in Store /\ h \in [0 .. 0 -> Store] /\ h[0] = s
    BY DEF Store, Phase
  <2>3. \A v \in Authority : StoreOf(v) = s
    <3>1. \A v \in Authority : Settled(v) = <<>>
      BY DEF Init, Settled
    <3>2. QED
      BY <3>1, Zenon DEF Init, None, StoreOf, PhaseOf, AcceptsConsensusCerts
  <2> HIDE DEF h
  <2>4. s.endOfPublish = {}
    BY Zenon
  <2> HIDE DEF s
  <2>5. Replayed(h)
    BY <2>1, <2>2, <2>3 DEF Replayed
  <2>6. Backed(h)
    BY <2>1, <2>2, <2>4 DEF Backed
  <2>7. QED
    BY <2>5, <2>6, Zenon DEF Log
<1>3. NothingNewAfterEndOfPublish
  BY Zenon DEF Init, None, NothingNewAfterEndOfPublish
<1>4. ASSUME NEW v \in Authority
      PROVE  AdapterOK(v) /\ HandlerOK(v)
  <2>1. DOMAIN <<>> = {}
    OBVIOUS
  <2>2. /\ pending[v] = {} /\ tasks[v] = {} /\ worker[v] = {} /\ cache[v] = {}
        /\ processed[v] = {} /\ deferred[v] = {} /\ DOMAIN checkpoints[v] = {}
        /\ accepted[v] = {}
    BY <2>1, Zenon DEF Init, None
  <2>3. AdapterOK(v)
    BY <2>2, Zenon DEF AdapterOK, Sent
  <2>4. HandlerOK(v)
    BY <2>2, Zenon DEF HandlerOK
  <2>5. QED
    BY <2>3, <2>4, Zenon
<1>5. QED
  BY <1>1, <1>2, <1>3, <1>4, Zenon DEF Inv
-----------------------------------------------------------------------------
(* The steps of the adapter.                                               *)

(* Who stopped taking certificates does not start again, and no            *)
(* acknowledgement is taken back.                                          *)
Frozen ==
    \A w \in Authority :
       /\ reconfig[w] # "AcceptAllCerts" =>
             reconfig'[w] # "AcceptAllCerts" /\ accepted'[w] = accepted[w]
       /\ accepted[w] \subseteq accepted'[w]

(* A step that leaves the commits and the stores alone keeps the log.      *)
LEMMA LogKept ==
    ASSUME TypeOK, Log, Frozen,
           UNCHANGED <<commits, handled, random, processed, endOfPublish,
                       deferred, executed, checkpoints>>,
           \A v \in Authority : PhaseOf(v)' = PhaseOf(v)
    PROVE  Log'
<1>1. PICK h : Replayed(h) /\ Backed(h)
  BY Zenon DEF Log
<1>2. \A v \in Authority : StoreOf(v)' = StoreOf(v)
  BY Zenon DEF StoreOf, Settled
<1>3. Replayed(h)'
  BY <1>1, <1>2, Zenon DEF Replayed
<1>4. \A w \in Authority : \A S : Finished(w, S) => Finished(w, S)'
  BY Zenon DEF Frozen, Finished
<1>5. ASSUME NEW i \in 1 .. Len(commits)
      PROVE  /\ Range(commits[i].ends) \subseteq Authority
             /\ \A c \in DOMAIN commits[i].certs : commits[i].certs[c] \in Authority
  BY <1>5, CommitFacts, Zenon
<1>6. ASSUME NEW i \in 0 .. Len(commits)
      PROVE  h[i].endOfPublish \subseteq Authority
  BY <1>1, <1>6, Zenon DEF Replayed, Store
<1>7. Backed(h)'
  BY <1>1, <1>4, <1>5, <1>6, Zenon DEF Backed, Frozen
<1>8. QED
  BY <1>3, <1>7, Zenon DEF Log

(* The handlers' part is kept where only caches shrink and an epoch is     *)
(* closed.                                                                 *)
LEMMA HandlerKept ==
    ASSUME NEW w \in Authority, HandlerOK(w),
           UNCHANGED <<processed, deferred, executed, checkpoints, warned>>,
           cache'[w] \subseteq cache[w], PhaseOf(w)' = PhaseOf(w),
           TypeOK, TypeOK'
    PROVE  HandlerOK(w)'
<1>1. /\ AcceptsConsensusCerts(w)' <=> AcceptsConsensusCerts(w)
      /\ reconfig'[w] = "RejectAllTx" <=> reconfig[w] = "RejectAllTx"
  BY PhaseFacts, PhasePrimed, Zenon
<1>2. QED
  BY <1>1, Zenon DEF HandlerOK

(* The others' part of the adapters is left alone.                         *)
OnlyOf(v) ==
    \A w \in Authority \ {v} :
       /\ pending'[w] = pending[w] /\ tasks'[w] = tasks[w]
       /\ worker'[w] = worker[w] /\ accepted'[w] = accepted[w]
       /\ reconfig'[w] = reconfig[w]

(* A step of the adapter of v keeps the invariant when it keeps v's part   *)
(* and leaves the stores alone.                                            *)
LEMMA AdapterStepInv ==
    ASSUME Inv, TypeOK', Frozen, NEW v \in Authority, AdapterOK(v)', OnlyOf(v),
           UNCHANGED <<commits, handled, random, processed, endOfPublish,
                       deferred, executed, checkpoints, warned>>,
           \A w \in Authority : cache'[w] \subseteq cache[w],
           PhaseOf(v)' = PhaseOf(v)
    PROVE  Inv'
<1>1. \A w \in Authority : PhaseOf(w)' = PhaseOf(w)
  BY Zenon DEF OnlyOf, PhaseOf, AcceptsConsensusCerts
<1>2. Log'
  BY <1>1, LogKept, Zenon DEF Inv
<1>3. ASSUME NEW w \in Authority
      PROVE  HandlerOK(w)'
  BY <1>1, HandlerKept, Zenon DEF Inv
<1>4. ASSUME NEW w \in Authority, w # v
      PROVE  AdapterOK(w)'
  <2>1. /\ pending'[w] = pending[w] /\ tasks'[w] = tasks[w]
        /\ worker'[w] = worker[w] /\ accepted'[w] = accepted[w]
        /\ reconfig'[w] = reconfig[w] /\ processed'[w] = processed[w]
    BY <1>4, Zenon DEF OnlyOf
  <2>2. AdapterOK(w)
    BY Zenon DEF Inv
  <2>3. QED
    BY <2>1, <2>2, Zenon DEF AdapterOK, Sent, Finished
<1>5. NothingNewAfterEndOfPublish'
  BY Zenon DEF Inv, NothingNewAfterEndOfPublish
<1>6. QED
  BY <1>2, <1>3, <1>4, <1>5, Zenon DEF Inv

(* EndOfPublish is sent when the certificates that were taken are          *)
(* processed: no certificate is pending then.                              *)
LEMMA DrainedIsFinished ==
    ASSUME TypeOK, NEW v \in Authority, AdapterOK(v), PendingCertificates(v) = {}
    PROVE  accepted[v] \subseteq processed[v]
<1>1. accepted[v] \subseteq Certificate
  BY Zenon DEF TypeOK
<1>2. QED
  BY <1>1, Zenon DEF AdapterOK, PendingCertificates

(* A certificate is taken from a client only before EndOfPublish is sent.  *)
LEMMA HandleCertificateInv ==
    ASSUME Inv, NEW v \in Authority, NEW c \in Certificate, HandleCertificate(v, c)
    PROVE  Inv'
<1>1. TypeOK /\ AdapterOK(v) /\ reconfig[v] = "AcceptAllCerts" /\ c # v
  BY EpochCloseAssumption, Zenon DEF Inv, HandleCertificate
<1>2. /\ pending'[v] = pending[v] \cup {c} /\ accepted'[v] = accepted[v] \cup {c}
      /\ tasks'[v] = tasks[v] \cup {<<c, "start">>}
      /\ OnlyOf(v)
  BY <1>1 DEF HandleCertificate, TypeOK, OnlyOf
<1>3. UNCHANGED <<reconfig, worker, commits, handled, handler>>
  BY Zenon DEF HandleCertificate
<1>4. TypeOK'
  BY <1>1, <1>3 DEF HandleCertificate, TypeOK, handler, Item, Stage
<1>5. Frozen
  BY <1>1, <1>2, <1>3, Zenon DEF Frozen, OnlyOf
<1>6. ~Sent(v) /\ ~Sent(v)'
  <2>1. ~Sent(v)
    BY <1>1, Zenon DEF AdapterOK, Finished
  <2>2. \A s \in Stage : <<v, s>> # <<c, "start">>
    BY <1>1, Zenon
  <2>3. QED
    BY <1>1, <1>2, <1>3, <2>1, <2>2, Zenon DEF Sent
<1>7. AdapterOK(v)'
  <2>1. UNCHANGED processed
    BY <1>3, Zenon DEF handler
  <2>2. /\ <<c, "start">>[1] = c /\ <<c, "start">>[2] # "processed"
    BY Zenon
  <2>3. QED
    BY <1>1, <1>2, <1>3, <1>6, <2>1, <2>2, Zenon DEF AdapterOK
<1>8. PhaseOf(v)' = PhaseOf(v)
  BY <1>3, Zenon DEF PhaseOf, AcceptsConsensusCerts
<1>9. QED
  BY <1>2, <1>3, <1>4, <1>5, <1>7, <1>8, AdapterStepInv, Zenon DEF handler

(* A task that moves on works on the same item.                            *)
LEMMA AdvanceFacts ==
    ASSUME TypeOK, NEW v \in Authority, NEW item \in Certificate \cup {v},
           NEW from \in Stage, NEW to \in Stage, Advance(v, item, from, to)
    PROVE  /\ <<item, from>> \in tasks[v]
           /\ \A w \in Authority \ {v} : tasks'[w] = tasks[w]
           /\ tasks' \in [Authority -> SUBSET (Item \X Stage)]
           /\ \A w \in Authority : tasks'[w] \subseteq (Certificate \cup {w}) \X Stage
           /\ \A x \in tasks'[v] : \E y \in tasks[v] : y[1] = x[1]
           /\ \A x \in tasks'[v] : x \in tasks[v] \/ x = <<item, to>>
           /\ (\E s \in Stage : <<v, s>> \in tasks'[v]) =>
                 \E s \in Stage : <<v, s>> \in tasks[v]
<1>1. /\ <<item, from>> \in tasks[v]
      /\ tasks' = [tasks EXCEPT ![v] = (@ \ {<<item, from>>}) \cup {<<item, to>>}]
      /\ tasks \in [Authority -> SUBSET (Item \X Stage)]
      /\ \A w \in Authority : tasks[w] \subseteq (Certificate \cup {w}) \X Stage
  BY Zenon DEF Advance, TypeOK
<1>2. /\ tasks'[v] = (tasks[v] \ {<<item, from>>}) \cup {<<item, to>>}
      /\ \A w \in Authority \ {v} : tasks'[w] = tasks[w]
  BY <1>1, Zenon
<1>3. /\ <<item, to>> \in (Certificate \cup {v}) \X Stage
      /\ <<item, to>> \in Item \X Stage
  BY Zenon DEF Item
<1>4. tasks' \in [Authority -> SUBSET (Item \X Stage)]
  BY <1>1, <1>3, Zenon
<1>5. \A w \in Authority : tasks'[w] \subseteq (Certificate \cup {w}) \X Stage
  BY <1>1, <1>2, <1>3, Zenon
<1>6. /\ <<item, from>>[1] = item /\ <<item, to>>[1] = item
  BY Zenon
<1>7. /\ \A x \in tasks'[v] : \E y \in tasks[v] : y[1] = x[1]
      /\ \A x \in tasks'[v] : x \in tasks[v] \/ x = <<item, to>>
  BY <1>1, <1>2, <1>6, Zenon
<1>8. ASSUME NEW s \in Stage, <<v, s>> \in tasks'[v]
      PROVE  \E u \in Stage : <<v, u>> \in tasks[v]
  <2>1. CASE <<v, s>> \in tasks[v]
    BY <2>1, Zenon
  <2>2. CASE <<v, s>> = <<item, to>>
    BY <1>1, <2>2, Zenon
  <2>3. QED
    BY <1>2, <1>8, <2>1, <2>2, Zenon
<1>9. QED
  BY <1>1, <1>2, <1>4, <1>5, <1>7, <1>8, Zenon

(* What a step of a task shares with the others: the task, the pending     *)
(* items and the worker of v.                                              *)
LEMMA TaskStepInv ==
    ASSUME Inv, NEW v \in Authority, NEW item \in Certificate \cup {v},
           NEW from \in Stage, NEW to \in Stage, Advance(v, item, from, to),
           to = "processed" => item \in processed[v],
           UNCHANGED <<reconfig, accepted, commits, handled, handler>>,
           pending' \in [Authority -> SUBSET Item],
           worker' \in [Authority -> SUBSET Item],
           \A w \in Authority \ {v} : pending'[w] = pending[w] /\ worker'[w] = worker[w],
           pending'[v] \subseteq pending[v] \cup {item},
           worker'[v] \subseteq worker[v] \cup {item},
           pending[v] \subseteq pending'[v] \cup processed[v]
    PROVE  Inv'
<1>1. TypeOK /\ AdapterOK(v)
  BY Zenon DEF Inv
<1>2. /\ <<item, from>> \in tasks[v] /\ <<item, from>>[1] = item
      /\ item = v => \E s \in Stage : <<v, s>> \in tasks[v]
  BY <1>1, AdvanceFacts, Zenon
<1>3. OnlyOf(v)
  BY <1>1, AdvanceFacts, Zenon DEF OnlyOf
<1>4. TypeOK'
  <2>1. /\ tasks' \in [Authority -> SUBSET (Item \X Stage)]
        /\ \A w \in Authority : tasks'[w] \subseteq (Certificate \cup {w}) \X Stage
    BY <1>1, AdvanceFacts, Zenon
  <2>2. \A w \in Authority : pending[w] \cup worker[w] \subseteq Certificate \cup {w}
    BY <1>1, Zenon DEF TypeOK
  <2>3. pending'[v] \cup worker'[v] \subseteq Certificate \cup {v}
    BY <2>2, Zenon
  <2>4. \A w \in Authority : pending'[w] \cup worker'[w] \subseteq Certificate \cup {w}
    BY <2>2, <2>3, Zenon
  <2>5. QED
    BY <1>1, <2>1, <2>4, Zenon DEF TypeOK, handler
<1>5. Frozen
  BY Zenon DEF Frozen
<1>6. UNCHANGED processed
  BY Zenon DEF handler
<1>7. Sent(v)' => Sent(v)
  BY <1>1, <1>2, AdvanceFacts, Zenon DEF Sent
<1>8. item \in Certificate => item \in accepted[v]
  BY <1>1, <1>2, Zenon DEF AdapterOK
<1>9. AdapterOK(v)'
  <2>1. (worker'[v] \cup pending'[v]) \cap Certificate \subseteq accepted'[v]
    BY <1>1, <1>8, Zenon DEF AdapterOK
  <2>2. ASSUME NEW x \in tasks'[v], x[1] \in Certificate
        PROVE  x[1] \in accepted'[v]
    <3>1. PICK y \in tasks[v] : y[1] = x[1]
      BY <1>1, AdvanceFacts, Zenon
    <3>2. QED
      BY <1>1, <2>2, <3>1, Zenon DEF AdapterOK
  <2>3. accepted'[v] \subseteq pending'[v] \cup processed'[v]
    BY <1>1, <1>6, Zenon DEF AdapterOK
  <2>4. ASSUME NEW x \in tasks'[v], x[2] = "processed"
        PROVE  x[1] \in processed'[v]
    <3>1. x \in tasks[v] \/ x = <<item, to>>
      BY <1>1, <2>4, Zenon DEF Advance, TypeOK
    <3>2. x \in tasks[v] \/ (x[1] = item /\ x[2] = to)
      BY <3>1
    <3>3. QED
      BY <1>1, <1>6, <2>4, <3>2, Zenon DEF AdapterOK
  <2>5. Sent(v)' => Finished(v, processed[v])'
    BY <1>1, <1>6, <1>7, Zenon DEF AdapterOK, Finished
  <2>6. QED
    BY <2>1, <2>2, <2>3, <2>4, <2>5, Zenon DEF AdapterOK
<1>10. PhaseOf(v)' = PhaseOf(v)
  BY Zenon DEF PhaseOf, AcceptsConsensusCerts
<1>11. QED
  BY <1>3, <1>4, <1>5, <1>9, <1>10, AdapterStepInv, Zenon DEF handler

(* The last step of a task, and the closing of an epoch: where tasks only  *)
(* end or a task for EndOfPublish begins.                                  *)
LEMMA SendingInv ==
    ASSUME Inv, TypeOK', NEW v \in Authority,
           tasks'[v] \subseteq tasks[v] \cup {<<v, "send">>},
           OnlyOf(v), Frozen, PhaseOf(v)' = PhaseOf(v),
           UNCHANGED <<pending, worker, accepted, commits, handled, handler>>,
           <<v, "send">> \in tasks'[v] => \/ <<v, "send">> \in tasks[v]
                                          \/ Finished(v, processed[v])'
    PROVE  Inv'
<1>1. TypeOK /\ AdapterOK(v) /\ UNCHANGED <<processed, cache>>
  BY Zenon DEF Inv, handler
<1>2. <<v, "send">>[1] = v /\ <<v, "send">>[2] # "processed" /\ v \notin Certificate
  BY EpochCloseAssumption, Zenon
<1>3. Sent(v) => Finished(v, processed[v])'
  BY <1>1, Zenon DEF AdapterOK, Finished, Frozen
<1>4. Sent(v)' => Sent(v) \/ <<v, "send">> \in tasks'[v]
  BY Zenon DEF Sent
<1>5. <<v, "send">> \in tasks[v] => Sent(v)
  BY Zenon DEF Sent, Stage
<1>6. Sent(v)' => Finished(v, processed[v])'
  BY <1>3, <1>4, <1>5, Zenon
<1>7. /\ \A x \in tasks'[v] : x[1] \in Certificate => x[1] \in accepted'[v]
      /\ \A x \in tasks'[v] : x[2] = "processed" => x[1] \in processed'[v]
  BY <1>1, <1>2, Zenon DEF AdapterOK
<1>8. AdapterOK(v)'
  BY <1>1, <1>6, <1>7, Zenon DEF AdapterOK
<1>9. QED
  BY <1>8, AdapterStepInv, Zenon DEF handler

(* The task that removed the last certificate sends EndOfPublish when all  *)
(* that was taken is processed.                                            *)
LEMMA FinishTaskInv ==
    ASSUME Inv, NEW v \in Authority, NEW item, FinishTask(v, item)
    PROVE  Inv'
<1>1. TypeOK /\ AdapterOK(v)
  BY Zenon DEF Inv
<1>2. /\ tasks'[v] \subseteq tasks[v] \cup {<<v, "send">>}
      /\ \A w \in Authority \ {v} : tasks'[w] = tasks[w]
      /\ <<v, "send">> \in tasks'[v] => <<v, "send">> \in tasks[v] \/ Drained(v, item)
  BY <1>1, Zenon DEF FinishTask, TypeOK
<1>3. UNCHANGED <<reconfig, pending, worker, accepted, commits, handled, handler>>
  BY Zenon DEF FinishTask
<1>4. OnlyOf(v) /\ Frozen /\ PhaseOf(v)' = PhaseOf(v)
  BY <1>2, <1>3, Zenon DEF OnlyOf, Frozen, PhaseOf, AcceptsConsensusCerts
<1>5. Drained(v, item) => Finished(v, processed[v])'
  <2>1. ASSUME Drained(v, item) PROVE reconfig'[v] # "AcceptAllCerts"
    BY <1>3, <2>1, Zenon DEF Drained
  <2>2. QED
    BY <1>1, <1>3, <2>1, DrainedIsFinished, Zenon DEF Drained, Finished, handler
<1>6. TypeOK'
  <2>1. tasks' \in [Authority -> SUBSET (Item \X Stage)]
    BY <1>1 DEF FinishTask, TypeOK, Item, Stage
  <2>2. \A w \in Authority : tasks[w] \subseteq (Certificate \cup {w}) \X Stage
    BY <1>1, Zenon DEF TypeOK
  <2>3. <<v, "send">> \in (Certificate \cup {v}) \X Stage
    BY Zenon DEF Stage
  <2>4. \A w \in Authority : tasks'[w] \subseteq (Certificate \cup {w}) \X Stage
    BY <1>2, <2>2, <2>3, Zenon
  <2>5. QED
    BY <1>1, <1>3, <2>1, <2>4, Zenon DEF TypeOK, handler
<1>7. QED
  BY <1>2, <1>3, <1>4, <1>5, <1>6, SendingInv, Zenon

(* close_epoch sends EndOfPublish only where no certificate is pending.    *)
LEMMA CloseEpochInv ==
    ASSUME Inv, NEW v \in Authority, CloseEpoch(v)
    PROVE  Inv'
<1>1. TypeOK /\ AdapterOK(v) /\ reconfig[v] = "AcceptAllCerts"
  BY Zenon DEF Inv, CloseEpoch
<1>2. /\ tasks'[v] \subseteq tasks[v] \cup {<<v, "send">>}
      /\ \A w \in Authority \ {v} : tasks'[w] = tasks[w] /\ reconfig'[w] = reconfig[w]
      /\ <<v, "send">> \in tasks'[v] =>
            <<v, "send">> \in tasks[v] \/ PendingCertificates(v) = {}
      /\ reconfig'[v] = "RejectUserCerts"
  BY <1>1 DEF CloseEpoch, TypeOK
<1>3. UNCHANGED <<pending, worker, accepted, commits, handled, handler>>
  BY Zenon DEF CloseEpoch
<1>4. reconfig'[v] # "AcceptAllCerts" /\ PhaseOf(v)' = PhaseOf(v)
  BY <1>1, <1>2, Zenon DEF PhaseOf, AcceptsConsensusCerts
<1>5. OnlyOf(v) /\ Frozen
  BY <1>2, <1>3, <1>4, Zenon DEF OnlyOf, Frozen
<1>6. PendingCertificates(v) = {} => Finished(v, processed[v])'
  BY <1>1, <1>3, <1>4, DrainedIsFinished, Zenon DEF Finished, handler
<1>7. TypeOK'
  <2>1. /\ tasks' \in [Authority -> SUBSET (Item \X Stage)]
        /\ reconfig' \in [Authority -> Status]
    BY <1>1 DEF CloseEpoch, TypeOK, Item, Stage, Status
  <2>2. \A w \in Authority : tasks[w] \subseteq (Certificate \cup {w}) \X Stage
    BY <1>1, Zenon DEF TypeOK
  <2>3. <<v, "send">> \in (Certificate \cup {v}) \X Stage
    BY Zenon DEF Stage
  <2>4. \A w \in Authority : tasks'[w] \subseteq (Certificate \cup {w}) \X Stage
    BY <1>2, <2>2, <2>3, Zenon
  <2>5. QED
    BY <1>1, <1>3, <2>1, <2>4, Zenon DEF TypeOK, handler
<1>8. QED
  BY <1>2, <1>3, <1>5, <1>4, <1>6, <1>7, SendingInv, Zenon

(* The steps of tasks.                                                     *)
LEMMA TaskInv ==
    ASSUME Inv, NEW v \in Authority, NEW x \in tasks[v], TaskStep(v, x[1])
    PROVE  Inv'
<1> DEFINE item == x[1]
<1>1. /\ TypeOK /\ AdapterOK(v) /\ item \in Certificate \cup {v}
      /\ item \in Item
  <2>1. TypeOK /\ AdapterOK(v)
    BY Zenon DEF Inv
  <2>2. x \in (Certificate \cup {v}) \X Stage
    BY <2>1, Zenon DEF TypeOK
  <2>3. item \in Certificate \cup {v}
    BY <2>2, Zenon
  <2>4. QED
    BY <2>1, <2>3, Zenon DEF Item
<1>2. /\ pending \in [Authority -> SUBSET Item]
      /\ worker \in [Authority -> SUBSET Item]
  BY <1>1, Zenon DEF TypeOK
<1>3. {"send", "start", "waiting", "submitted", "processed", "removed"} = Stage
  BY Zenon DEF Stage
<1> HIDE DEF item
<1>4. CASE RegisterWaiter(v, item)
  <2>1. PICK to \in {"processed", "waiting"} :
           /\ Advance(v, item, "start", to)
           /\ to = "processed" => item \in processed[v]
    BY <1>4, Zenon DEF RegisterWaiter
  <2>2. /\ "start" \in Stage /\ to \in Stage
    BY Zenon DEF Stage
  <2>3. UNCHANGED <<reconfig, accepted, commits, handled, handler, pending, worker>>
    BY <1>4, Zenon DEF RegisterWaiter
  <2>4. /\ pending' \in [Authority -> SUBSET Item] /\ worker' \in [Authority -> SUBSET Item]
        /\ \A w \in Authority \ {v} : pending'[w] = pending[w] /\ worker'[w] = worker[w]
        /\ pending'[v] \subseteq pending[v] \cup {item}
        /\ worker'[v] \subseteq worker[v] \cup {item}
        /\ pending[v] \subseteq pending'[v] \cup processed[v]
    BY <1>2, <2>3, Zenon
  <2>5. QED
    BY <1>1, <2>1, <2>2, <2>3, <2>4, TaskStepInv, Zenon
<1>5. CASE SubmitToConsensus(v, item)
  <2>1. /\ Advance(v, item, "waiting", "submitted")
        /\ UNCHANGED <<reconfig, accepted, commits, handled, handler, pending>>
    BY <1>5, Zenon DEF SubmitToConsensus
  <2>2. "waiting" \in Stage /\ "submitted" \in Stage /\ "submitted" # "processed"
    BY Zenon DEF Stage
  <2>3. /\ worker' \in [Authority -> SUBSET Item] /\ pending' = pending
        /\ \A w \in Authority \ {v} : worker'[w] = worker[w]
        /\ worker'[v] = worker[v] \cup {item}
    BY <1>1, <1>2, <1>5, Zenon DEF SubmitToConsensus
  <2>4. /\ pending' \in [Authority -> SUBSET Item] /\ worker' \in [Authority -> SUBSET Item]
        /\ \A w \in Authority \ {v} : pending'[w] = pending[w] /\ worker'[w] = worker[w]
        /\ pending'[v] \subseteq pending[v] \cup {item}
        /\ worker'[v] \subseteq worker[v] \cup {item}
        /\ pending[v] \subseteq pending'[v] \cup processed[v]
    BY <1>2, <2>3, Zenon
  <2>5. QED
    BY <1>1, <2>1, <2>2, <2>4, TaskStepInv, Zenon
<1>6. CASE RemovePending(v, item)
  <2>1. /\ Advance(v, item, "processed", "removed")
        /\ UNCHANGED <<reconfig, accepted, commits, handled, handler, worker>>
    BY <1>6, Zenon DEF RemovePending
  <2>2. "processed" \in Stage /\ "removed" \in Stage /\ "removed" # "processed"
    BY Zenon DEF Stage
  <2>3. item \in processed[v]
    <3>1. <<item, "processed">> \in tasks[v]
      BY <2>1, Zenon DEF Advance
    <3>2. <<item, "processed">>[1] = item /\ <<item, "processed">>[2] = "processed"
      BY Zenon
    <3>3. QED
      BY <1>1, <3>1, <3>2, Zenon DEF AdapterOK
  <2>4. /\ pending' \in [Authority -> SUBSET Item] /\ worker' = worker
        /\ \A w \in Authority \ {v} : pending'[w] = pending[w]
        /\ pending'[v] = pending[v] \ {item}
    BY <1>1, <1>2, <1>6, Zenon DEF RemovePending
  <2>5. /\ pending' \in [Authority -> SUBSET Item] /\ worker' \in [Authority -> SUBSET Item]
        /\ \A w \in Authority \ {v} : pending'[w] = pending[w] /\ worker'[w] = worker[w]
        /\ pending'[v] \subseteq pending[v] \cup {item}
        /\ worker'[v] \subseteq worker[v] \cup {item}
        /\ pending[v] \subseteq pending'[v] \cup processed[v]
    BY <1>2, <2>3, <2>4, Zenon
  <2>6. QED
    BY <1>1, <2>1, <2>2, <2>5, TaskStepInv, Zenon
<1>7. CASE FinishTask(v, item)
  BY <1>7, FinishTaskInv, Zenon
<1>8. QED
  BY <1>4, <1>5, <1>6, <1>7, Zenon DEF TaskStep, item

(* submit(EndOfPublish): its task was there before.                        *)
LEMMA SendEndOfPublishInv ==
    ASSUME Inv, NEW v \in Authority, SendEndOfPublish(v)
    PROVE  Inv'
<1>1. /\ Advance(v, v, "send", "start")
      /\ UNCHANGED <<reconfig, accepted, commits, handled, handler, worker>>
  BY Zenon DEF SendEndOfPublish
<1>2. "send" \in Stage /\ "start" \in Stage /\ "start" # "processed"
  BY Zenon DEF Stage
<1>3. /\ TypeOK /\ v \in Certificate \cup {v} /\ v \in Item
  BY Zenon DEF Inv, Item
<1>4. /\ pending \in [Authority -> SUBSET Item]
      /\ worker \in [Authority -> SUBSET Item]
  BY <1>3, Zenon DEF TypeOK
<1>5. /\ pending' \in [Authority -> SUBSET Item] /\ worker' = worker
      /\ \A w \in Authority \ {v} : pending'[w] = pending[w]
      /\ pending'[v] = pending[v] \cup {v}
  BY <1>3, <1>4, Zenon DEF SendEndOfPublish
<1>6. /\ pending' \in [Authority -> SUBSET Item] /\ worker' \in [Authority -> SUBSET Item]
      /\ \A w \in Authority \ {v} : pending'[w] = pending[w] /\ worker'[w] = worker[w]
      /\ pending'[v] \subseteq pending[v] \cup {v}
      /\ worker'[v] \subseteq worker[v] \cup {v}
      /\ pending[v] \subseteq pending'[v] \cup processed[v]
  BY <1>4, <1>5, Zenon
<1>7. QED
  BY <1>1, <1>2, <1>3, <1>6, TaskStepInv, Zenon

(* A restart loses tasks, the cache and what the worker held.              *)
LEMMA RestartInv ==
    ASSUME Inv, NEW v \in Authority, Restart(v)
    PROVE  Inv'
<1>1. TypeOK /\ AdapterOK(v)
  BY Zenon DEF Inv
<1>2. /\ tasks' = [tasks EXCEPT ![v] = pending[v] \X {"start"}]
      /\ cache' = [cache EXCEPT ![v] = {}]
      /\ UNCHANGED <<reconfig, pending, accepted, commits, handled, random,
                     processed, endOfPublish, deferred, executed, checkpoints,
                     warned>>
  BY Zenon DEF Restart
<1>3. PICK kept \in SUBSET worker[v] : worker' = [worker EXCEPT ![v] = kept]
  BY Zenon DEF Restart
<1>4. /\ pending \in [Authority -> SUBSET Item]
      /\ worker \in [Authority -> SUBSET Item]
      /\ tasks \in [Authority -> SUBSET (Item \X Stage)]
      /\ cache \in [Authority -> SUBSET Item]
      /\ \A w \in Authority :
            /\ pending[w] \cup worker[w] \subseteq Certificate \cup {w}
            /\ tasks[w] \subseteq (Certificate \cup {w}) \X Stage
  BY <1>1, Zenon DEF TypeOK
<1>5. /\ worker' \in [Authority -> SUBSET Item] /\ worker'[v] \subseteq worker[v]
      /\ \A w \in Authority \ {v} : worker'[w] = worker[w]
  BY <1>3, <1>4, Zenon
<1>6. /\ cache' \in [Authority -> SUBSET Item]
      /\ \A w \in Authority : cache'[w] \subseteq cache[w]
  BY <1>2, <1>4, Zenon
<1>7. /\ tasks'[v] = pending[v] \X {"start"}
      /\ \A w \in Authority \ {v} : tasks'[w] = tasks[w]
  BY <1>2, <1>4, Zenon
<1>8. tasks' \in [Authority -> SUBSET (Item \X Stage)]
  BY <1>2, <1>4, Zenon DEF Stage
<1>9. tasks'[v] \subseteq (Certificate \cup {v}) \X Stage
  BY <1>4, <1>7, Zenon DEF Stage
<1>10. TypeOK'
  <2>1. \A w \in Authority :
           /\ pending'[w] \cup worker'[w] \subseteq Certificate \cup {w}
           /\ tasks'[w] \subseteq (Certificate \cup {w}) \X Stage
    BY <1>2, <1>4, <1>5, <1>7, <1>9, Zenon
  <2>2. QED
    BY <1>1, <1>2, <1>5, <1>6, <1>8, <2>1, Zenon DEF TypeOK
<1>11. OnlyOf(v) /\ Frozen /\ PhaseOf(v)' = PhaseOf(v)
  BY <1>2, <1>5, <1>7, Zenon DEF OnlyOf, Frozen, PhaseOf, AcceptsConsensusCerts
<1>12. ASSUME NEW x \in tasks'[v]
       PROVE  x[1] \in pending[v] /\ x[2] # "processed"
  BY <1>7, <1>12
<1>13. ASSUME NEW s \in Stage, <<v, s>> \in tasks'[v]
       PROVE  v \in pending[v]
  BY <1>7, <1>13
<1>14. Sent(v)' => Sent(v)
  BY <1>2, <1>5, <1>13, Zenon DEF Sent
<1>15. AdapterOK(v)'
  BY <1>1, <1>2, <1>5, <1>12, <1>14, Zenon DEF AdapterOK, Finished
<1>16. QED
  BY <1>2, <1>6, <1>10, <1>11, <1>15, AdapterStepInv, Zenon
-----------------------------------------------------------------------------
(* What a commit does to a store.                                          *)

(* Only new messages join the EndOfPublish messages that are counted.      *)
LEMMA CollectBounds ==
    ASSUME NEW counted, NEW new, NEW ends
    PROVE  /\ counted \subseteq Collect(counted, new, ends)
           /\ Collect(counted, new, ends) \subseteq counted \cup new
BY Zenon DEF Collect

(* Types of what a commit brings to a store.                               *)
LEMMA TxTypes ==
    ASSUME NEW s \in Store, NEW k \in CommitRecord, NEW rand
    PROVE  /\ NewTxs(s, k) \subseteq Transaction
           /\ HeldTxs(rand, s, k) \subseteq NewTxs(s, k)
           /\ HeldTxs(rand, s, k) \subseteq Transaction
           /\ RunTxs(rand, s, k) \subseteq Transaction
           /\ Range(k.ends) \subseteq Authority
           /\ DOMAIN k.certs \subseteq Certificate
<1>1. PICK C \in SUBSET Certificate : k.certs \in [C -> Authority]
  BY Zenon DEF CommitRecord
<1>2. NewTxs(s, k) \subseteq Transaction
  BY <1>1 DEF NewTxs, Transaction
<1>3. HeldTxs(rand, s, k) \subseteq NewTxs(s, k)
  BY Zenon DEF HeldTxs, TakenTxs
<1>4. \A d \in s.deferred : d.tx \in Transaction
  BY Zenon DEF Store, Waiting
<1>5. RunTxs(rand, s, k) \subseteq Transaction
  <2>1. TakenTxs(s, k) \subseteq NewTxs(s, k)
    BY Zenon DEF TakenTxs
  <2>2. \A d \in DueTxs(s, k) : d.tx \in Transaction
    BY <1>4, Zenon DEF DueTxs
  <2>3. QED
    BY <1>2, <2>1, <2>2, Zenon DEF RunTxs
<1>6. Range(k.ends) \subseteq Authority
  <2>1. k.ends \in Seq(Authority)
    BY Zenon DEF CommitRecord
  <2>2. QED
    BY <2>1 DEF Range
<1>7. QED
  BY <1>1, <1>2, <1>3, <1>5, <1>6, Zenon

(* A commit makes a store of a store, and takes nothing from what is       *)
(* processed.                                                              *)
LEMMA StoreAfterFacts ==
    ASSUME NEW s \in Store, NEW k \in CommitRecord, NEW rand
    PROVE  /\ StoreAfter(rand, s, k) \in Store
           /\ s.processed \subseteq StoreAfter(rand, s, k).processed
           /\ StoreAfter(rand, s, k).endOfPublish
                 \subseteq s.endOfPublish \cup Range(k.ends)
<1> DEFINE held == HeldTxs(rand, s, k)
           run == RunTxs(rand, s, k)
           due == DueTxs(s, k)
           newProcessed == s.processed \cup (Range(k.ends) \ s.processed)
                              \cup {t.cert : t \in run \cup held}
           newDeferred == {[d EXCEPT !.wait = IF k.randomness THEN @ - 1 ELSE @] :
                              d \in s.deferred \ due}
                          \cup {[tx |-> t, wait |-> 2] : t \in held}
           newExecuted == s.executed \cup {t.cert : t \in run}
<1>1. /\ s.processed \subseteq Item /\ s.endOfPublish \subseteq Authority
      /\ s.deferred \subseteq Waiting /\ s.executed \subseteq Certificate
      /\ s.checkpoints \in Seq(PendingCheckpoint) /\ s.phase \in Phase
  BY Zenon DEF Store
<1>2. held \subseteq Transaction /\ run \subseteq Transaction
  BY TxTypes, Zenon
<1>3. \A t \in Transaction : t.cert \in Certificate
  BY Zenon DEF Transaction
<1>4. newProcessed \subseteq Item
  BY <1>1, <1>2, <1>3, TxTypes, Zenon DEF Item
<1>5. newExecuted \subseteq Certificate
  BY <1>1, <1>2, <1>3, Zenon
<1>6. CheckpointsAfter(rand, s, k) \in Seq(PendingCheckpoint)
  <2> DEFINE e == [roots |-> {t.cert : t \in TakenTxs(s, k)},
                   last |-> PhaseAfter(rand, s, k) = "RejectAllTx"]
  <2>1. TakenTxs(s, k) \subseteq Transaction
    BY TxTypes, Zenon DEF TakenTxs
  <2>2. e \in PendingCheckpoint
    BY <1>3, <2>1, Zenon DEF PendingCheckpoint
  <2>3. CheckpointsAfter(rand, s, k) \in {s.checkpoints, Append(s.checkpoints, e)}
    BY Zenon DEF CheckpointsAfter
  <2> HIDE DEF e
  <2>4. QED
    BY <1>1, <2>2, <2>3
<1>7. newDeferred \subseteq Waiting
  <2>1. ASSUME NEW d \in s.deferred \ due
        PROVE  [d EXCEPT !.wait = IF k.randomness THEN @ - 1 ELSE @] \in Waiting
    <3>1. /\ d \in Waiting /\ ~(d.wait <= (IF k.randomness THEN 1 ELSE 0))
      BY <1>1, <2>1, Zenon DEF DueTxs
    <3>2. k.randomness \in BOOLEAN
      BY Zenon DEF CommitRecord
    <3>3. QED
      BY <3>1, <3>2 DEF Waiting
  <2>2. ASSUME NEW t \in held
        PROVE  [tx |-> t, wait |-> 2] \in Waiting
    BY <1>2, <2>2 DEF Waiting
  <2> HIDE DEF held, due
  <2>3. QED
    BY <2>1, <2>2, Zenon
<1>8. /\ EndsAfter(s, k) \subseteq s.endOfPublish \cup Range(k.ends)
      /\ EndsAfter(s, k) \subseteq Authority
  <2>1. Collect(s.endOfPublish, Range(k.ends) \ s.processed, k.ends)
           \subseteq s.endOfPublish \cup (Range(k.ends) \ s.processed)
    BY CollectBounds, Zenon
  <2>2. EndsAfter(s, k) \subseteq s.endOfPublish \cup Range(k.ends)
    BY <2>1, Zenon DEF EndsAfter
  <2>3. QED
    BY <1>1, <2>2, TxTypes, Zenon
<1>9. PhaseAfter(rand, s, k) \in Phase
  BY <1>1, Zenon DEF PhaseAfter, Phase
<1>10. StoreAfter(rand, s, k) =
          [processed |-> newProcessed, endOfPublish |-> EndsAfter(s, k),
           deferred |-> newDeferred, executed |-> newExecuted,
           checkpoints |-> CheckpointsAfter(rand, s, k),
           phase |-> PhaseAfter(rand, s, k)]
  BY Zenon DEF StoreAfter
<1>11. s.processed \subseteq newProcessed
  BY Zenon
<1> HIDE DEF held, run, due, newProcessed, newDeferred, newExecuted
<1>12. QED
  BY <1>4, <1>5, <1>6, <1>7, <1>8, <1>9, <1>10, <1>11 DEF Store

(* What consensus commits was submitted: a certificate by its author, who  *)
(* has taken it from a client, and an EndOfPublish by its sender, who has  *)
(* finished.                                                               *)
LEMMA SubmittedFacts ==
    ASSUME Inv, NEW t \in Submitted
    PROVE  /\ t[1] \in Authority /\ t[2] \in worker[t[1]]
           /\ t[2] \in Certificate => t[2] \in accepted[t[1]]
           /\ t[2] \in Authority => Finished(t[2], processed[t[2]])
<1>1. PICK u \in Authority : t \in {u} \X worker[u]
  BY Zenon DEF Submitted
<1>2. t[1] = u /\ t[2] \in worker[u]
  BY <1>1, Zenon
<1>3. TypeOK /\ AdapterOK(u)
  BY Zenon DEF Inv
<1>4. t[2] \in Certificate => t[2] \in accepted[u]
  BY <1>2, <1>3, Zenon DEF AdapterOK
<1>5. ASSUME t[2] \in Authority PROVE Finished(t[2], processed[t[2]])
  <2>1. t[2] = u
    BY <1>2, <1>3, <1>5, EpochCloseAssumption DEF TypeOK
  <2>2. Sent(u)
    BY <1>2, <2>1, Zenon DEF Sent
  <2>3. QED
    BY <1>3, <2>1, <2>2, Zenon DEF AdapterOK
<1>6. QED
  BY <1>1, <1>2, <1>4, <1>5, Zenon

(* A commit continues the log.                                             *)
LEMMA LogAppend ==
    ASSUME TypeOK, TypeOK', Log, NEW k \in CommitRecord,
           commits' = Append(commits, k),
           UNCHANGED <<reconfig, handled, random, accepted, processed,
                       endOfPublish, deferred, executed, checkpoints>>,
           \A c \in DOMAIN k.certs : c \in accepted[k.certs[c]],
           \A w \in Range(k.ends) : w \in Authority /\ Finished(w, processed[w])
    PROVE  Log'
<1>1. PICK h : Replayed(h) /\ Backed(h)
  BY Zenon DEF Log
<1>2. PICK n : n = Len(commits)
  BY Zenon
<1>3. /\ n \in Nat /\ Len(commits') = n + 1 /\ commits'[n + 1] = k
      /\ \A i \in 1 .. n : commits'[i] = commits[i]
  BY <1>2 DEF TypeOK
<1>4. h \in [0 .. n -> Store] /\ h[n] \in Store
  BY <1>1, <1>2, <1>3 DEF Replayed
<1>5. PICK s : s = StoreAfter(random, h[n], k)
  BY Zenon
<1>6. /\ s \in Store /\ h[n].processed \subseteq s.processed
      /\ s.endOfPublish \subseteq h[n].endOfPublish \cup Range(k.ends)
  BY <1>4, <1>5, StoreAfterFacts, Zenon
<1> DEFINE g == [i \in 0 .. n + 1 |-> IF i <= n THEN h[i] ELSE s]
<1>7. /\ g \in [0 .. n + 1 -> Store] /\ g[n + 1] = s
      /\ \A i \in 0 .. n : g[i] = h[i]
      /\ \A i \in 1 .. n + 1 : i - 1 \in 0 .. n /\ g[i - 1] = h[i - 1]
  BY <1>3, <1>4, <1>6
<1> HIDE DEF g
<1>8. ASSUME NEW i \in 1 .. n + 1
      PROVE  i \in 1 .. n \/ (i = n + 1 /\ i - 1 = n)
  BY <1>3, <1>8
<1>9. ASSUME NEW i \in 0 .. n + 1
      PROVE  i \in 0 .. n \/ i = n + 1
  BY <1>3, <1>9
<1>10. n \in 0 .. n /\ \A i \in 0 .. n : i <= n /\ ~(n + 1 <= i)
  BY <1>3
<1>11. ASSUME NEW v \in Authority
       PROVE  handled[v] \in 0 .. n
  BY <1>2, Zenon DEF TypeOK
<1>12. ASSUME NEW i \in 0 .. n
       PROVE  h[i].processed \subseteq h[n].processed
  BY <1>1, <1>2, <1>10, <1>12, Zenon DEF Replayed
<1>13. Replayed(g)'
  <2>1. \A i \in 1 .. n + 1 : g[i] = StoreAfter(random', g[i - 1], commits'[i])
    <3>1. ASSUME NEW i \in 1 .. n
          PROVE  g[i] = StoreAfter(random, g[i - 1], commits'[i])
      <4>1. i \in 0 .. n /\ i \in 1 .. n + 1
        BY <1>3, <3>1
      <4>2. h[i] = StoreAfter(random, h[i - 1], commits[i])
        BY <1>1, <1>2, <3>1, Zenon DEF Replayed
      <4>3. QED
        BY <1>3, <1>7, <3>1, <4>1, <4>2, Zenon
    <3>2. g[n + 1] = StoreAfter(random, g[n], commits'[n + 1])
      BY <1>3, <1>5, <1>7, <1>10, Zenon
    <3>3. QED
      BY <1>8, <3>1, <3>2, Zenon
  <2>2. ASSUME NEW v \in Authority
        PROVE  StoreOf(v)' = g[handled'[v]]
    <3>1. StoreOf(v)' = StoreOf(v)
      BY Zenon DEF StoreOf, PhaseOf, AcceptsConsensusCerts, Settled
    <3>2. QED
      BY <1>1, <1>7, <1>11, <3>1, Zenon DEF Replayed
  <2>3. ASSUME NEW i \in 0 .. n + 1, NEW j \in 0 .. n + 1, i <= j
        PROVE  g[i].processed \subseteq g[j].processed
    <3>1. CASE i \in 0 .. n /\ j \in 0 .. n
      BY <1>1, <1>2, <1>7, <2>3, <3>1, Zenon DEF Replayed
    <3>2. CASE i \in 0 .. n /\ j = n + 1
      BY <1>6, <1>7, <1>12, <3>2, Zenon
    <3>3. CASE i = n + 1
      BY <1>9, <1>10, <2>3, <3>3, Zenon
    <3>4. QED
      BY <1>9, <3>1, <3>2, <3>3, Zenon
  <2>4. QED
    BY <1>3, <1>7, <2>1, <2>2, <2>3, Zenon DEF Replayed
<1>14. \A w : \A S : Finished(w, S)' <=> Finished(w, S)
  BY Zenon DEF Finished
<1>15. ASSUME NEW w \in Range(k.ends)
       PROVE  Finished(w, h[n].processed)
  <2>1. w \in Authority /\ Finished(w, processed[w])
    BY <1>15, Zenon
  <2>2. processed[w] = h[handled[w]].processed
    BY <1>1, <2>1, StoreFields, Zenon DEF Replayed
  <2>3. processed[w] \subseteq h[n].processed
    BY <1>11, <1>12, <2>1, <2>2, Zenon
  <2>4. QED
    BY <2>1, <2>3, Zenon DEF Finished
<1>16. Backed(g)'
  <2>1. ASSUME NEW i \in 1 .. n + 1
        PROVE  /\ \A c \in DOMAIN commits'[i].certs :
                     c \in accepted'[commits'[i].certs[c]]
               /\ \A w \in Range(commits'[i].ends) : Finished(w, g[i - 1].processed)'
    <3>1. CASE i \in 1 .. n
      BY <1>1, <1>2, <1>3, <1>7, <1>14, <2>1, <3>1, Zenon DEF Backed
    <3>2. CASE i = n + 1 /\ i - 1 = n
      BY <1>3, <1>7, <1>14, <1>15, <2>1, <3>2, Zenon
    <3>3. QED
      BY <1>8, <3>1, <3>2, Zenon
  <2>2. ASSUME NEW i \in 0 .. n + 1, NEW w \in g[i].endOfPublish
        PROVE  Finished(w, g[i].processed)'
    <3>1. CASE i \in 0 .. n
      BY <1>1, <1>2, <1>7, <1>14, <2>2, <3>1, Zenon DEF Backed
    <3>2. CASE i = n + 1
      <4>1. Finished(w, h[n].processed)
        BY <1>1, <1>2, <1>6, <1>7, <1>10, <1>15, <2>2, <3>2, Zenon DEF Backed
      <4>2. QED
        BY <1>6, <1>7, <1>14, <3>2, <4>1, Zenon DEF Finished
    <3>3. QED
      BY <1>9, <3>1, <3>2, Zenon
  <2>3. QED
    BY <1>3, <2>1, <2>2, Zenon DEF Backed
<1>17. QED
  BY <1>13, <1>16, Zenon DEF Log

(* A commit is made of what the workers hold, which was taken, or is the   *)
(* EndOfPublish of one who has finished.                                   *)
LEMMA CommitInv ==
    ASSUME Inv, NEW taken \in SUBSET Submitted, NEW r \in BOOLEAN, Commit(taken, r)
    PROVE  Inv'
<1> DEFINE items == {t[2] : t \in taken}
<1>1. PICK author \in [items \cap Certificate -> Authority],
           ends \in Enumerations(items \cap Authority) :
         /\ \A c \in DOMAIN author : <<author[c], c>> \in taken
         /\ commits' = Append(commits, [certs |-> author, ends |-> ends,
                                        randomness |-> r])
  BY Zenon DEF Commit
<1>2. PICK k : k = [certs |-> author, ends |-> ends, randomness |-> r]
  BY Zenon
<1>3. UNCHANGED <<reconfig, pending, tasks, accepted, handled, handler>>
  BY Zenon DEF Commit
<1>4. TypeOK
  BY Zenon DEF Inv
<1>5. ends \in Seq(items \cap Authority)
  <2>1. IsFiniteSet(items \cap Authority)
    BY FS_Subset, CommitteeAssumption, Zenon
  <2>2. Cardinality(items \cap Authority) \in Nat
    BY <2>1, FS_CardinalityType, Zenon
  <2>3. ends \in [1 .. Cardinality(items \cap Authority) -> items \cap Authority]
    BY <1>1, Zenon DEF Enumerations, Bijection, Injection
  <2> HIDE DEF items
  <2>4. ASSUME NEW S, NEW n \in Nat, NEW f \in [1 .. n -> S]
        PROVE  f \in Seq(S)
    BY <2>4
  <2>5. QED
    BY <2>2, <2>3, <2>4, Zenon
<1>6. k \in CommitRecord
  <2> DEFINE C == items \cap Certificate
  <2>1. C \in SUBSET Certificate /\ author \in [C -> Authority]
    BY <1>1, Zenon
  <2>2. author \in UNION {[D -> Authority] : D \in SUBSET Certificate}
    BY <2>1, Zenon
  <2>3. ends \in Seq(Authority)
    <3> HIDE DEF items
    <3>1. QED
      BY <1>5
  <2>4. QED
    BY <1>2, <2>2, <2>3, Zenon DEF CommitRecord
<1>7. /\ worker' \in [Authority -> SUBSET Item]
      /\ \A w \in Authority : worker'[w] \subseteq worker[w]
  <2>1. worker' = [w \in Authority |-> {i \in worker[w] : <<w, i>> \notin taken}]
    BY Zenon DEF Commit
  <2>2. worker \in [Authority -> SUBSET Item]
    BY <1>4, Zenon DEF TypeOK
  <2>3. QED
    BY <2>1, <2>2, Zenon
<1>8. TypeOK'
  <2>1. commits' = Append(commits, k)
    BY <1>1, <1>2, Zenon
  <2>2. /\ commits \in Seq(CommitRecord)
        /\ handled \in [Authority -> 0 .. Len(commits)]
    BY <1>4, Zenon DEF TypeOK
  <2>3. /\ commits' \in Seq(CommitRecord)
        /\ handled' \in [Authority -> 0 .. Len(commits')]
    BY <1>3, <1>6, <2>1, <2>2
  <2>4. QED
    BY <1>3, <1>4, <1>7, <2>3, Zenon DEF TypeOK, handler
<1>9. \A c \in DOMAIN k.certs : c \in accepted[k.certs[c]]
  <2>1. ASSUME NEW c \in items \cap Certificate
        PROVE  c \in accepted[author[c]]
    <3>1. <<author[c], c>> \in Submitted
      BY <1>1, <2>1, Zenon
    <3>2. <<author[c], c>>[1] = author[c] /\ <<author[c], c>>[2] = c
      BY Zenon
    <3>3. QED
      BY <2>1, <3>1, <3>2, SubmittedFacts, Zenon
  <2> HIDE DEF items
  <2>2. k.certs = author /\ DOMAIN author = items \cap Certificate
    BY <1>1, <1>2, Zenon
  <2>3. QED
    BY <2>1, <2>2, Zenon
<1>10. \A w \in Range(k.ends) : w \in Authority /\ Finished(w, processed[w])
  <2>1. ASSUME NEW w \in items \cap Authority
        PROVE  Finished(w, processed[w])
    BY <2>1, SubmittedFacts, Zenon
  <2> HIDE DEF items
  <2>2. k.ends = ends
    BY <1>2, Zenon
  <2>3. Range(ends) \subseteq items \cap Authority
    BY <1>5 DEF Range
  <2>4. QED
    BY <2>1, <2>2, <2>3, Zenon
<1>11. Log'
  <2>1. commits' = Append(commits, k)
    BY <1>1, <1>2, Zenon
  <2>2. QED
    BY <1>3, <1>4, <1>6, <1>8, <1>9, <1>10, <2>1, LogAppend, Zenon DEF Inv, handler
<1>12. ASSUME NEW w \in Authority
       PROVE  AdapterOK(w)' /\ HandlerOK(w)'
  <2>1. AdapterOK(w) /\ HandlerOK(w)
    BY Zenon DEF Inv
  <2>2. Sent(w)' => Sent(w)
    BY <1>3, <1>7, Zenon DEF Sent
  <2>3. AdapterOK(w)'
    BY <1>3, <1>7, <2>1, <2>2, Zenon DEF AdapterOK, Finished, handler
  <2>4. HandlerOK(w)'
    BY <1>3, <2>1, Zenon DEF HandlerOK, AcceptsConsensusCerts, handler
  <2>5. QED
    BY <2>3, <2>4, Zenon
<1>13. NothingNewAfterEndOfPublish'
  BY <1>3, Zenon DEF Inv, NothingNewAfterEndOfPublish, handler
<1>14. QED
  BY <1>8, <1>11, <1>12, <1>13, Zenon DEF Inv
-----------------------------------------------------------------------------
(* The handler.                                                            *)

(* The certificates that are new to v are those whose keys it has not met. *)
LEMMA FreshCerts ==
    ASSUME NEW v, NEW k
    PROVE  {t.cert : t \in Fresh(v, k)} = DOMAIN k.certs \ Seen(v)
<1>1. \A c : [cert |-> c, author |-> k.certs[c]].cert = c
  BY Zenon
<1>2. QED
  BY <1>1, Zenon DEF Fresh

(* What the handler of v makes of a commit is what the store alone makes   *)
(* of it, when the certificates that are new come before the EndOfPublish  *)
(* of their authors.                                                       *)
LEMMA HandledSets ==
    ASSUME TypeOK, NEW v \in Authority, HandlerOK(v), NEW k \in CommitRecord,
           \A t \in Fresh(v, k) : t.author \notin endOfPublish[v],
           NEW s, s = StoreOf(v)
    PROVE  /\ Due(v, k) = DueTxs(s, k)
           /\ AcceptsConsensusCerts(v) => Fresh(v, k) = NewTxs(s, k)
           /\ NewDeferred(v, k) = HeldTxs(random, s, k)
           /\ Scheduled(v, k) = {t.cert : t \in RunTxs(random, s, k)}
           /\ NewEnds(v, k) = Range(k.ends) \ s.processed
           /\ Fresh(v, k) \cap Ready(v, k) = {}
           /\ Warned(v, k) \subseteq Ready(v, k)
<1>1. /\ s.processed = processed[v] /\ s.endOfPublish = endOfPublish[v]
      /\ s.deferred = deferred[v] /\ s.phase = PhaseOf(v)
  BY StoreFields, Zenon
<1>2. AcceptsConsensusCerts(v) <=> s.phase = "Accepts"
  BY <1>1, PhaseFacts, Zenon
<1>3. PICK C \in SUBSET Certificate : k.certs \in [C -> Authority]
  BY Zenon DEF CommitRecord
<1>4. DOMAIN k.certs \subseteq Certificate
  BY <1>3, Zenon
<1>5. Range(k.ends) \subseteq Authority
  <2>1. k.ends \in Seq(Authority)
    BY Zenon DEF CommitRecord
  <2>2. QED
    BY <2>1 DEF Range
<1>6. Due(v, k) = DueTxs(s, k)
  BY <1>1, Zenon DEF Due, DueTxs
<1>7. ASSUME AcceptsConsensusCerts(v)
      PROVE  Fresh(v, k) = NewTxs(s, k)
  <2>1. DOMAIN k.certs \ Seen(v) = DOMAIN k.certs \ s.processed
    BY <1>1, <1>4, <1>7, Zenon DEF Seen, HandlerOK
  <2>2. QED
    BY <2>1, Zenon DEF Fresh, NewTxs
<1>8. \A t \in Fresh(v, k) : t.cert \notin processed[v]
  <2>1. ASSUME NEW c \in DOMAIN k.certs \ Seen(v)
        PROVE  [cert |-> c, author |-> k.certs[c]].cert \notin processed[v]
    BY <2>1, Zenon DEF Seen
  <2>2. QED
    BY <2>1, Zenon DEF Fresh
<1>9. \A t \in Ready(v, k) : t.cert \in processed[v]
  BY Zenon DEF Ready, Due, HandlerOK
<1>10. Fresh(v, k) \cap Ready(v, k) = {}
  BY <1>8, <1>9, Zenon
<1>11. Warned(v, k) = {t \in Ready(v, k) : t.author \in endOfPublish[v]}
  BY Zenon DEF Warned
<1>12. Warned(v, k) \cap Fresh(v, k) = {}
  BY <1>10, <1>11, Zenon
<1>13. NewDeferred(v, k) = HeldTxs(random, s, k)
  <2>1. CASE AcceptsConsensusCerts(v)
    BY <1>2, <1>7, <1>12, <2>1, Zenon DEF NewDeferred, HeldTxs, TakenTxs, Ignored
  <2>2. CASE ~AcceptsConsensusCerts(v)
    BY <1>2, <2>2, Zenon DEF NewDeferred, HeldTxs, TakenTxs, Ignored
  <2>3. QED
    BY <2>1, <2>2, Zenon
<1>14. Ready(v, k) = {d.tx : d \in DueTxs(s, k)}
  BY <1>6, Zenon DEF Ready
<1>15. (Fresh(v, k) \cup Ready(v, k)) \ (Ignored(v, k) \cup NewDeferred(v, k))
          = RunTxs(random, s, k)
  <2>1. RunTxs(random, s, k) =
           (TakenTxs(s, k) \ NewDeferred(v, k)) \cup (Ready(v, k) \ Warned(v, k))
    BY <1>1, <1>11, <1>13, <1>14, Zenon DEF RunTxs
  <2>2. NewDeferred(v, k) \subseteq Fresh(v, k)
    BY Zenon DEF NewDeferred
  <2>3. CASE AcceptsConsensusCerts(v)
    <3>1. TakenTxs(s, k) = Fresh(v, k) /\ Ignored(v, k) = Warned(v, k)
      BY <1>2, <1>7, <2>3, Zenon DEF TakenTxs, Ignored
    <3>2. ASSUME NEW F, NEW R, NEW W, NEW N, F \cap R = {}, W \subseteq R, N \subseteq F
          PROVE  (F \cup R) \ (W \cup N) = (F \ N) \cup (R \ W)
      BY <3>2, Zenon
    <3>3. Warned(v, k) \subseteq Ready(v, k)
      BY <1>11, Zenon
    <3>4. (Fresh(v, k) \cup Ready(v, k)) \ (Warned(v, k) \cup NewDeferred(v, k))
             = (Fresh(v, k) \ NewDeferred(v, k)) \cup (Ready(v, k) \ Warned(v, k))
      BY <1>10, <2>2, <3>2, <3>3, Zenon
    <3>5. QED
      BY <2>1, <3>1, <3>4, Zenon
  <2>4. CASE ~AcceptsConsensusCerts(v)
    <3>1. TakenTxs(s, k) = {} /\ Ignored(v, k) = Warned(v, k) \cup Fresh(v, k)
      BY <1>2, <2>4, Zenon DEF TakenTxs, Ignored
    <3>2. QED
      BY <1>10, <1>12, <2>1, <2>2, <3>1, Zenon
  <2>5. QED
    BY <2>3, <2>4, Zenon
<1>16. Scheduled(v, k) = {t.cert : t \in RunTxs(random, s, k)}
  BY <1>15, Zenon DEF Scheduled
<1>17. NewEnds(v, k) = Range(k.ends) \ s.processed
  BY <1>1, <1>5, Zenon DEF NewEnds, Seen, HandlerOK
<1>18. QED
  BY <1>6, <1>7, <1>10, <1>11, <1>13, <1>16, <1>17, Zenon

(* The pending checkpoint of the commit, and the warnings.                 *)
NewCheckpoint(v, k) ==
    [roots |-> {t.cert : t \in Fresh(v, k)},
     last |-> ReconfigAfter(v, k, EndOfPublishAfter(v, k)) = "RejectAllTx"]

Warning == [cert : Certificate, deferred : BOOLEAN]

NewWarned(v, k) ==
    {[cert |-> t.cert, deferred |-> t \in Ready(v, k)] : t \in Warned(v, k)}

(* The fields that the handler of v writes.                                *)
Handles(v, k) ==
    /\ reconfig'[v] = ReconfigAfter(v, k, EndOfPublishAfter(v, k))
    /\ endOfPublish'[v] = EndOfPublishAfter(v, k)
    /\ executed'[v] = executed[v] \cup Scheduled(v, k)
    /\ deferred'[v] =
          {[d EXCEPT !.wait = IF k.randomness THEN @ - 1 ELSE @] :
              d \in deferred[v] \ Due(v, k)}
          \cup {[tx |-> t, wait |-> 2] : t \in NewDeferred(v, k)}
    /\ processed'[v] = processed[v] \cup (Scheduled(v, k) \cup NewEnds(v, k))
                          \cup {t.cert : t \in NewDeferred(v, k)}
    /\ cache'[v] = cache[v] \cup DOMAIN k.certs \cup Range(k.ends)
    /\ checkpoints'[v] =
          IF reconfig[v] = "RejectAllTx" THEN checkpoints[v]
          ELSE Append(checkpoints[v], NewCheckpoint(v, k))
    /\ warned'[v] = warned[v] \cup NewWarned(v, k)

(* Pending checkpoints with the roots in P only.                           *)
OnlyIn(e, P) == [roots |-> e.roots \cap P, last |-> e.last]

Trim(C, P) ==
    [n \in DOMAIN C |-> [roots |-> C[n].roots \cap P, last |-> C[n].last]]

(* Trimmed checkpoints are pending checkpoints.                            *)
LEMMA TrimType ==
    ASSUME NEW C \in Seq(PendingCheckpoint), NEW P
    PROVE  Trim(C, P) \in Seq(PendingCheckpoint)
<1>1. \A n \in DOMAIN C : [roots |-> C[n].roots \cap P, last |-> C[n].last]
                             \in PendingCheckpoint
  <2>1. \A n \in DOMAIN C : C[n] \in PendingCheckpoint
    OBVIOUS
  <2>2. QED
    BY <2>1, Zenon DEF PendingCheckpoint
<1>2. QED
  BY <1>1 DEF Trim

LEMMA SettledType ==
    ASSUME TypeOK, NEW v \in Authority
    PROVE  Settled(v) \in Seq(PendingCheckpoint)
<1>1. checkpoints[v] \in Seq(PendingCheckpoint)
  BY Zenon DEF TypeOK
<1>2. Settled(v) = Trim(checkpoints[v], processed[v])
  BY Zenon DEF Settled, Trim
<1>3. QED
  BY <1>1, <1>2, TrimType, Zenon

(* P and Q make no difference to the roots in C.                           *)
AlikeFor(C, P, Q) == \A n \in DOMAIN C : C[n].roots \cap Q = C[n].roots \cap P

(* A further checkpoint, and more that is processed, where this makes no   *)
(* difference to the checkpoints before.                                   *)
LEMMA TrimAppend ==
    ASSUME NEW C \in Seq(PendingCheckpoint), NEW e \in PendingCheckpoint,
           NEW P, NEW Q, AlikeFor(C, P, Q)
    PROVE  /\ Trim(C, Q) = Trim(C, P)
           /\ Trim(Append(C, e), Q) =
                 Append(Trim(C, P), OnlyIn(e, Q))
<1>1. Trim(C, Q) = Trim(C, P)
  BY Zenon DEF Trim, AlikeFor
<1> DEFINE f == [roots |-> e.roots \cap Q, last |-> e.last]
           D == Append(C, e)
           T == Trim(C, Q)
<1>2. /\ D \in Seq(PendingCheckpoint) /\ Len(D) = Len(C) + 1 /\ D[Len(C) + 1] = e
      /\ DOMAIN C = 1 .. Len(C) /\ DOMAIN D = 1 .. Len(C) + 1 /\ Len(C) \in Nat
      /\ \A n \in 1 .. Len(C) : D[n] = C[n]
  OBVIOUS
<1>3. /\ T \in Seq(PendingCheckpoint) /\ DOMAIN T = 1 .. Len(C) /\ Len(T) = Len(C)
      /\ \A n \in 1 .. Len(C) : T[n] = [roots |-> C[n].roots \cap Q, last |-> C[n].last]
  <2>1. T \in Seq(PendingCheckpoint)
    BY TrimType, Zenon
  <2>2. /\ DOMAIN T = DOMAIN C
        /\ \A n \in DOMAIN C : T[n] = [roots |-> C[n].roots \cap Q, last |-> C[n].last]
    BY Zenon DEF Trim
  <2> HIDE DEF T, D
  <2>3. Len(T) = Len(C)
    BY <1>2, <2>1, <2>2
  <2>4. QED
    BY <1>2, <2>1, <2>2, <2>3, Zenon
<1>4. f \in PendingCheckpoint
  BY DEF PendingCheckpoint
<1> HIDE DEF f, D, T
<1>5. /\ Append(T, f) \in Seq(PendingCheckpoint) /\ DOMAIN Append(T, f) = 1 .. Len(C) + 1
      /\ Append(T, f)[Len(C) + 1] = f
      /\ \A n \in 1 .. Len(C) : Append(T, f)[n] = T[n]
  BY <1>2, <1>3, <1>4
<1>6. ASSUME NEW n \in 1 .. Len(C) + 1
      PROVE  Trim(D, Q)[n] = Append(T, f)[n]
  <2>1. Trim(D, Q)[n] = [roots |-> D[n].roots \cap Q, last |-> D[n].last]
    BY <1>2, <1>6, Zenon DEF Trim
  <2>2. CASE n = Len(C) + 1
    BY <1>2, <1>5, <2>1, <2>2, Zenon DEF f
  <2>3. CASE n # Len(C) + 1
    <3>1. n \in 1 .. Len(C)
      BY <1>2, <1>6, <2>3
    <3>2. QED
      BY <1>2, <1>3, <1>5, <2>1, <3>1, Zenon
  <2>4. QED
    BY <2>2, <2>3, Zenon
<1>7. Trim(D, Q) = [n \in 1 .. Len(C) + 1 |-> Trim(D, Q)[n]]
  BY <1>2, Zenon DEF Trim
<1>8. Append(T, f) = [n \in 1 .. Len(C) + 1 |-> Append(T, f)[n]]
  <2>1. PICK X : X = Append(T, f)
    BY Zenon
  <2>2. X \in [1 .. Len(X) -> PendingCheckpoint]
    <3>1. X \in Seq(PendingCheckpoint)
      BY <1>5, <2>1, Zenon
    <3>2. QED
      BY <3>1
  <2>3. X = [n \in DOMAIN X |-> X[n]]
    BY <2>2, Zenon
  <2>4. QED
    BY <1>5, <2>1, <2>3, Zenon
<1>9. Trim(D, Q) = Append(T, f)
  BY <1>6, <1>7, <1>8, Zenon
<1>10. QED
  BY <1>1, <1>9, Zenon DEF f, D, T, OnlyIn

(* The certificates of a commit that are new.                              *)
LEMMA CertsOfFresh ==
    ASSUME NEW v, NEW k \in CommitRecord
    PROVE  \A t \in Fresh(v, k) : t.cert \in Certificate /\ t.cert \notin processed[v]
<1>1. PICK C \in SUBSET Certificate : k.certs \in [C -> Authority]
  BY Zenon DEF CommitRecord
<1>2. DOMAIN k.certs \subseteq Certificate
  BY <1>1, Zenon
<1>3. {t.cert : t \in Fresh(v, k)} = DOMAIN k.certs \ Seen(v)
  BY FreshCerts, Zenon
<1>4. ASSUME NEW t \in Fresh(v, k)
      PROVE  t.cert \in DOMAIN k.certs \ Seen(v)
  BY <1>3, <1>4, Zenon
<1>5. QED
  BY <1>2, <1>4, Zenon DEF Seen

LEMMA NewCheckpointType ==
    ASSUME NEW v, NEW k \in CommitRecord
    PROVE  NewCheckpoint(v, k) \in PendingCheckpoint
<1>1. {t.cert : t \in Fresh(v, k)} \subseteq Certificate
  BY CertsOfFresh, Zenon
<1>2. \A b : (b = "RejectAllTx") \in BOOLEAN
  BY Zenon
<1>3. QED
  BY <1>1, <1>2, Zenon DEF NewCheckpoint, PendingCheckpoint

(* Roots that were ignored stay ignored, and the new ones that are not     *)
(* ignored are those that the store alone takes.                           *)
LEMMA HandledRoots ==
    ASSUME TypeOK, NEW v \in Authority, HandlerOK(v), NEW k \in CommitRecord,
           \A t \in Fresh(v, k) : t.author \notin endOfPublish[v],
           NEW s, s = StoreOf(v), Handles(v, k)
    PROVE  /\ \A n \in DOMAIN checkpoints[v] :
                 checkpoints[v][n].roots \cap processed'[v]
                    = checkpoints[v][n].roots \cap processed[v]
           /\ {t.cert : t \in Fresh(v, k)} \cap processed'[v]
                 = {t.cert : t \in TakenTxs(s, k)}
<1>1. /\ AcceptsConsensusCerts(v) => Fresh(v, k) = NewTxs(s, k)
      /\ Fresh(v, k) \cap Ready(v, k) = {} /\ Warned(v, k) \subseteq Ready(v, k)
  BY HandledSets, Zenon
<1>2. AcceptsConsensusCerts(v) <=> s.phase = "Accepts"
  BY StoreFields, PhaseFacts, Zenon
<1>3. processed[v] \subseteq processed'[v]
  BY Zenon DEF Handles
<1>4. \A n \in DOMAIN checkpoints[v] : checkpoints[v][n].roots \subseteq Certificate
  <2>1. checkpoints[v] \in Seq(PendingCheckpoint)
    BY Zenon DEF TypeOK
  <2>2. \A n \in DOMAIN checkpoints[v] : checkpoints[v][n] \in PendingCheckpoint
    BY <2>1
  <2>3. QED
    BY <2>2, Zenon DEF PendingCheckpoint
<1>5. CASE AcceptsConsensusCerts(v)
  <2>1. ASSUME NEW t \in Fresh(v, k)
        PROVE  t.cert \in processed'[v]
    <3>1. t \notin Ignored(v, k)
      BY <1>1, <1>5, <2>1, Zenon DEF Ignored
    <3>2. t \in NewDeferred(v, k) \/ t.cert \in Scheduled(v, k)
      BY <2>1, <3>1, Zenon DEF Scheduled
    <3>3. QED
      BY <3>2, Zenon DEF Handles
  <2>2. TakenTxs(s, k) = Fresh(v, k)
    BY <1>1, <1>2, <1>5, Zenon DEF TakenTxs
  <2>3. \A n \in DOMAIN checkpoints[v] : checkpoints[v][n].roots \subseteq processed[v]
    BY <1>5, Zenon DEF HandlerOK
  <2>4. QED
    BY <1>3, <2>1, <2>2, <2>3, Zenon
<1>6. CASE ~AcceptsConsensusCerts(v)
  <2>1. Fresh(v, k) \subseteq Ignored(v, k) /\ NewDeferred(v, k) = {}
    BY <1>6, Zenon DEF Ignored, NewDeferred
  <2>2. \A t \in Ready(v, k) : t.cert \in processed[v]
    BY Zenon DEF Ready, Due, HandlerOK
  <2>3. Scheduled(v, k) \subseteq processed[v]
    BY <2>1, <2>2, Zenon DEF Scheduled
  <2>4. NewEnds(v, k) \cap Certificate = {}
    <3>1. k.ends \in Seq(Authority)
      BY Zenon DEF CommitRecord
    <3>2. Range(k.ends) \subseteq Authority
      BY <3>1 DEF Range
    <3>3. QED
      BY <3>2, EpochCloseAssumption, Zenon DEF NewEnds
  <2>5. processed'[v] \cap Certificate \subseteq processed[v]
    BY <2>1, <2>3, <2>4, Zenon DEF Handles
  <2>6. TakenTxs(s, k) = {}
    BY <1>2, <1>6, Zenon DEF TakenTxs
  <2>7. \A t \in Fresh(v, k) : t.cert \notin processed'[v]
    BY <2>5, CertsOfFresh, Zenon
  <2>8. QED
    BY <1>3, <1>4, <2>5, <2>6, <2>7, Zenon
<1>7. QED
  BY <1>5, <1>6, Zenon

(* The handler changes the store of v as the log says, and does not open   *)
(* an epoch that was closed.                                               *)
LEMMA HandledStore ==
    ASSUME TypeOK, NEW v \in Authority, HandlerOK(v), NEW k \in CommitRecord,
           \A t \in Fresh(v, k) : t.author \notin endOfPublish[v],
           NEW s, s = StoreOf(v), Handles(v, k)
    PROVE  /\ StoreOf(v)' = StoreAfter(random, s, k)
           /\ reconfig[v] # "AcceptAllCerts" => reconfig'[v] # "AcceptAllCerts"
           /\ reconfig'[v] \in Status
<1>1. /\ s.processed = processed[v] /\ s.endOfPublish = endOfPublish[v]
      /\ s.deferred = deferred[v] /\ s.executed = executed[v]
      /\ s.checkpoints = Settled(v) /\ s.phase = PhaseOf(v)
  BY StoreFields, Zenon
<1>2. /\ Due(v, k) = DueTxs(s, k)
      /\ NewDeferred(v, k) = HeldTxs(random, s, k)
      /\ Scheduled(v, k) = {t.cert : t \in RunTxs(random, s, k)}
      /\ NewEnds(v, k) = Range(k.ends) \ s.processed
  BY HandledSets, Zenon
<1>3. /\ AcceptsConsensusCerts(v) <=> s.phase = "Accepts"
      /\ reconfig[v] = "RejectAllCerts" <=> s.phase = "RejectAllCerts"
      /\ reconfig[v] = "RejectAllTx" <=> s.phase = "RejectAllTx"
  BY <1>1, PhaseFacts, Zenon
<1>4. EndOfPublishAfter(v, k) = EndsAfter(s, k)
  BY <1>1, <1>2, <1>3, Zenon DEF EndOfPublishAfter, EndsAfter
<1>5. /\ PhaseOf(v)' = PhaseAfter(random, s, k)
      /\ reconfig[v] # "AcceptAllCerts" => reconfig'[v] # "AcceptAllCerts"
      /\ reconfig'[v] \in Status
  <2>1. FinalRound(v, k) <=> s.deferred = {} /\ HeldTxs(random, s, k) = {}
    BY <1>1, <1>2, Zenon DEF FinalRound
  <2>2. reconfig[v] \in Status
    BY Zenon DEF TypeOK
  <2> DEFINE q == ReachedQuorum(EndsAfter(s, k))
  <2>3. reconfig'[v] =
           IF (AcceptsConsensusCerts(v) /\ q) \/ reconfig[v] = "RejectAllCerts"
           THEN IF FinalRound(v, k) THEN "RejectAllTx" ELSE "RejectAllCerts"
           ELSE reconfig[v]
    BY <1>4, Zenon DEF Handles, ReconfigAfter
  <2>4. PhaseAfter(random, s, k) =
           IF s.phase = "RejectAllCerts" \/ (s.phase = "Accepts" /\ q)
           THEN IF FinalRound(v, k) THEN "RejectAllTx" ELSE "RejectAllCerts"
           ELSE s.phase
    BY <2>1, Zenon DEF PhaseAfter
  <2> HIDE DEF q
  <2>5. CASE (AcceptsConsensusCerts(v) /\ q) \/ reconfig[v] = "RejectAllCerts"
    <3>1. /\ reconfig'[v] \in {"RejectAllTx", "RejectAllCerts"}
          /\ reconfig'[v] = PhaseAfter(random, s, k)
      BY <1>3, <2>3, <2>4, <2>5, Zenon
    <3>2. QED
      BY <3>1, Zenon DEF PhaseOf, AcceptsConsensusCerts, Status
  <2>6. CASE ~((AcceptsConsensusCerts(v) /\ q) \/ reconfig[v] = "RejectAllCerts")
    <3>1. reconfig'[v] = reconfig[v] /\ PhaseAfter(random, s, k) = PhaseOf(v)
      BY <1>1, <1>3, <2>3, <2>4, <2>6, Zenon
    <3>2. QED
      BY <2>2, <3>1, Zenon DEF PhaseOf, AcceptsConsensusCerts
  <2>7. QED
    BY <2>5, <2>6, Zenon
<1>6. Settled(v)' = CheckpointsAfter(random, s, k)
  <2>1. /\ \A n \in DOMAIN checkpoints[v] :
              checkpoints[v][n].roots \cap processed'[v]
                 = checkpoints[v][n].roots \cap processed[v]
        /\ {t.cert : t \in Fresh(v, k)} \cap processed'[v]
              = {t.cert : t \in TakenTxs(s, k)}
    BY HandledRoots, Zenon
  <2>2. /\ checkpoints[v] \in Seq(PendingCheckpoint)
        /\ NewCheckpoint(v, k) \in PendingCheckpoint
    BY NewCheckpointType, Zenon DEF TypeOK
  <2>3. /\ Trim(checkpoints[v], processed'[v]) = Trim(checkpoints[v], processed[v])
        /\ Trim(Append(checkpoints[v], NewCheckpoint(v, k)), processed'[v]) =
              Append(Trim(checkpoints[v], processed[v]),
                     OnlyIn(NewCheckpoint(v, k), processed'[v]))
    <3>1. PICK C, e, P, Q : /\ C = checkpoints[v] /\ e = NewCheckpoint(v, k)
                            /\ P = processed[v] /\ Q = processed'[v]
      BY Zenon
    <3>2. /\ C \in Seq(PendingCheckpoint) /\ e \in PendingCheckpoint
          /\ AlikeFor(C, P, Q)
      BY <2>1, <2>2, <3>1, Zenon DEF AlikeFor
    <3>3. /\ Trim(C, Q) = Trim(C, P)
          /\ Trim(Append(C, e), Q) =
                Append(Trim(C, P), OnlyIn(e, Q))
      BY <3>2, TrimAppend
    <3>4. QED
      BY <3>1, <3>3, Zenon
  <2>4. /\ Settled(v) = Trim(checkpoints[v], processed[v])
        /\ Settled(v)' = Trim(checkpoints'[v], processed'[v])
    BY Zenon DEF Settled, Trim
  <2>5. CASE reconfig[v] = "RejectAllTx"
    <3>1. checkpoints'[v] = checkpoints[v]
      BY <2>5, Zenon DEF Handles
    <3>2. QED
      BY <1>1, <1>3, <2>3, <2>4, <2>5, <3>1, Zenon DEF CheckpointsAfter
  <2>6. CASE reconfig[v] # "RejectAllTx"
    <3>1. checkpoints'[v] = Append(checkpoints[v], NewCheckpoint(v, k))
      BY <2>6, Zenon DEF Handles
    <3>2. NewCheckpoint(v, k).roots = {t.cert : t \in Fresh(v, k)}
      BY Zenon DEF NewCheckpoint
    <3>3. NewCheckpoint(v, k).last = (PhaseAfter(random, s, k) = "RejectAllTx")
      <4>1. NewCheckpoint(v, k).last = (reconfig'[v] = "RejectAllTx")
        BY Zenon DEF NewCheckpoint, Handles
      <4>2. reconfig'[v] = "RejectAllTx" <=> PhaseOf(v)' = "RejectAllTx"
        BY <1>5, Zenon DEF PhaseOf, AcceptsConsensusCerts, Status
      <4>3. QED
        BY <1>5, <4>1, <4>2
    <3>4. Settled(v)' = Append(s.checkpoints,
                               [roots |-> {t.cert : t \in TakenTxs(s, k)},
                                last |-> PhaseAfter(random, s, k) = "RejectAllTx"])
      BY <1>1, <2>1, <2>3, <2>4, <3>1, <3>2, <3>3, Zenon DEF OnlyIn
    <3>5. QED
      BY <1>3, <2>6, <3>4, Zenon DEF CheckpointsAfter
  <2>7. QED
    BY <2>5, <2>6, Zenon
<1>7. processed'[v] = s.processed \cup (Range(k.ends) \ s.processed)
         \cup {t.cert : t \in RunTxs(random, s, k) \cup HeldTxs(random, s, k)}
  <2>1. processed'[v] =
           s.processed \cup ({t.cert : t \in RunTxs(random, s, k)}
                             \cup (Range(k.ends) \ s.processed))
           \cup {t.cert : t \in HeldTxs(random, s, k)}
    BY <1>1, <1>2, Zenon DEF Handles
  <2>2. QED
    BY <2>1
<1>8. /\ endOfPublish'[v] = EndsAfter(s, k)
      /\ deferred'[v] =
            {[d EXCEPT !.wait = IF k.randomness THEN @ - 1 ELSE @] :
                d \in s.deferred \ DueTxs(s, k)}
            \cup {[tx |-> t, wait |-> 2] : t \in HeldTxs(random, s, k)}
      /\ executed'[v] = s.executed \cup {t.cert : t \in RunTxs(random, s, k)}
  BY <1>1, <1>2, <1>4, Zenon DEF Handles
<1>9. StoreOf(v)' = StoreAfter(random, s, k)
  BY <1>5, <1>6, <1>7, <1>8, Zenon DEF StoreOf, StoreAfter
<1>10. QED
  BY <1>5, <1>9, Zenon

(* The handler of v keeps its part of the invariant, and meets nothing new *)
(* after an EndOfPublish.                                                  *)
LEMMA HandledKept ==
    ASSUME TypeOK, NEW v \in Authority, HandlerOK(v), NEW k \in CommitRecord,
           \A t \in Fresh(v, k) : t.author \notin endOfPublish[v],
           Handles(v, k)
    PROVE  /\ HandlerOK(v)'
           /\ processed[v] \subseteq processed'[v]
           /\ \A x \in warned'[v] : x \in warned[v] \/ x.deferred
<1>1. PICK s : s = StoreOf(v)
  BY Zenon
<1>2. /\ Fresh(v, k) \cap Ready(v, k) = {} /\ Warned(v, k) \subseteq Ready(v, k)
  BY <1>1, HandledSets, Zenon
<1>3. PICK C \in SUBSET Certificate : k.certs \in [C -> Authority]
  BY Zenon DEF CommitRecord
<1>4. DOMAIN k.certs \subseteq Certificate
  BY <1>3, Zenon
<1>5. Range(k.ends) \subseteq Authority
  <2>1. k.ends \in Seq(Authority)
    BY Zenon DEF CommitRecord
  <2>2. QED
    BY <2>1 DEF Range
<1>6. Certificate \cap Authority = {}
  BY EpochCloseAssumption, Zenon
<1>7. /\ processed[v] \subseteq processed'[v] /\ NewEnds(v, k) \subseteq processed'[v]
      /\ Scheduled(v, k) \subseteq processed'[v]
      /\ \A t \in NewDeferred(v, k) : t.cert \in processed'[v]
      /\ executed[v] \subseteq executed'[v] /\ Scheduled(v, k) \subseteq executed'[v]
  BY Zenon DEF Handles
<1>8. /\ Ignored(v, k) \subseteq Warned(v, k) \cup Fresh(v, k)
      /\ AcceptsConsensusCerts(v) => Ignored(v, k) = Warned(v, k)
      /\ ~AcceptsConsensusCerts(v) => Fresh(v, k) \subseteq Ignored(v, k)
      /\ NewDeferred(v, k) \subseteq Fresh(v, k) \ Ignored(v, k)
  BY Zenon DEF Ignored, NewDeferred
<1>9. /\ AcceptsConsensusCerts(v)' => AcceptsConsensusCerts(v)
      /\ reconfig[v] = "RejectAllTx" => reconfig'[v] = "RejectAllTx"
      /\ AcceptsConsensusCerts(v) => reconfig[v] # "RejectAllTx"
  <2>1. reconfig'[v] \in {"RejectAllTx", "RejectAllCerts"} \/ reconfig'[v] = reconfig[v]
    BY Zenon DEF Handles, ReconfigAfter
  <2>2. reconfig[v] = "RejectAllTx" => reconfig'[v] = reconfig[v]
    <3>1. ASSUME reconfig[v] = "RejectAllTx"
          PROVE  ~AcceptsConsensusCerts(v) /\ reconfig[v] # "RejectAllCerts"
      BY <3>1, Zenon DEF AcceptsConsensusCerts
    <3>2. QED
      BY <3>1, Zenon DEF Handles, ReconfigAfter
  <2>3. QED
    BY <2>1, <2>2, Zenon DEF AcceptsConsensusCerts
<1>10. \A c \in DOMAIN k.certs \ Seen(v) : \E t \in Fresh(v, k) : t.cert = c
  <2>1. \A c : [cert |-> c, author |-> k.certs[c]].cert = c
    BY Zenon
  <2>2. QED
    BY <2>1, Zenon DEF Fresh
<1>11. AcceptsConsensusCerts(v) => \A t \in Fresh(v, k) : t.cert \in processed'[v]
  <2>1. ASSUME AcceptsConsensusCerts(v), NEW t \in Fresh(v, k)
        PROVE  t.cert \in processed'[v]
    <3>1. t \notin Ignored(v, k)
      BY <1>2, <1>8, <2>1, Zenon
    <3>2. t \in NewDeferred(v, k) \/ t.cert \in Scheduled(v, k)
      BY <2>1, <3>1, Zenon DEF Scheduled
    <3>3. QED
      BY <1>7, <3>2, Zenon
  <2>2. QED
    BY <2>1, Zenon
<1>12. \A t \in Ready(v, k) : t.cert \in processed[v]
  BY Zenon DEF Ready, Due, HandlerOK
<1>13. cache'[v] \cap Authority \subseteq processed'[v]
  <2>1. Range(k.ends) \subseteq NewEnds(v, k) \cup Seen(v)
    BY Zenon DEF NewEnds
  <2>2. Seen(v) \cap Authority \subseteq processed[v]
    BY Zenon DEF Seen, HandlerOK
  <2>3. QED
    BY <1>4, <1>6, <1>7, <2>1, <2>2, Zenon DEF Handles, Seen
<1>14. ASSUME AcceptsConsensusCerts(v)', NEW n \in DOMAIN checkpoints'[v]
       PROVE  checkpoints'[v][n].roots \subseteq processed'[v]
  <2>1. AcceptsConsensusCerts(v) /\ reconfig[v] # "RejectAllTx"
    BY <1>9, <1>14, Zenon
  <2>2. checkpoints'[v] = Append(checkpoints[v], NewCheckpoint(v, k))
    BY <2>1, Zenon DEF Handles
  <2>3. NewCheckpoint(v, k).roots \subseteq processed'[v]
    BY <1>11, <2>1, Zenon DEF NewCheckpoint
  <2>4. checkpoints[v] \in Seq(PendingCheckpoint)
    BY Zenon DEF TypeOK
  <2>5. \/ n \in DOMAIN checkpoints[v] /\ checkpoints'[v][n] = checkpoints[v][n]
        \/ checkpoints'[v][n] = NewCheckpoint(v, k)
    BY <1>14, <2>2, <2>4
  <2>6. \A m \in DOMAIN checkpoints[v] : checkpoints[v][m].roots \subseteq processed[v]
    BY <2>1, Zenon DEF HandlerOK
  <2>7. QED
    BY <1>7, <2>3, <2>5, <2>6, Zenon
<1>15. ASSUME AcceptsConsensusCerts(v)'
       PROVE  cache'[v] \cap Certificate \subseteq processed'[v]
  <2>1. AcceptsConsensusCerts(v)
    BY <1>9, <1>15, Zenon
  <2>2. Seen(v) \cap Certificate \subseteq processed[v]
    BY <2>1, Zenon DEF Seen, HandlerOK
  <2>4. DOMAIN k.certs \ Seen(v) \subseteq processed'[v]
    BY <1>10, <1>11, <2>1, Zenon
  <2>5. QED
    BY <1>4, <1>5, <1>6, <1>7, <2>2, <2>4, Zenon DEF Handles, Seen
<1>16. ASSUME reconfig'[v] = "RejectAllTx"
       PROVE  deferred'[v] = {}
  <2>1. deferred[v] = {} /\ NewDeferred(v, k) = {}
    <3>1. CASE reconfig[v] = "RejectAllTx"
      <4>1. ~AcceptsConsensusCerts(v)
        BY <1>9, <3>1, Zenon
      <4>2. QED
        BY <1>8, <3>1, <4>1, Zenon DEF HandlerOK
    <3>2. CASE reconfig[v] # "RejectAllTx"
      <4>1. FinalRound(v, k)
        BY <1>16, <3>2, Zenon DEF Handles, ReconfigAfter
      <4>2. QED
        BY <4>1, Zenon DEF FinalRound
    <3>3. QED
      BY <3>1, <3>2, Zenon
  <2> DEFINE Waits(d) == [d EXCEPT !.wait = IF k.randomness THEN @ - 1 ELSE @]
  <2>2. deferred'[v] = {Waits(d) : d \in deferred[v] \ Due(v, k)}
           \cup {[tx |-> t, wait |-> 2] : t \in NewDeferred(v, k)}
    BY Zenon DEF Handles
  <2> HIDE DEF Waits
  <2>3. QED
    BY <2>1, <2>2, Zenon
<1>17. \A d \in deferred[v] \ Due(v, k) : \E e \in deferred'[v] : e.tx = d.tx
  <2>1. ASSUME NEW d \in deferred[v] \ Due(v, k)
        PROVE  [d EXCEPT !.wait = IF k.randomness THEN @ - 1 ELSE @].tx = d.tx
    <3>1. d \in Waiting
      BY <2>1, Zenon DEF TypeOK
    <3>2. QED
      BY <3>1, Zenon DEF Waiting
  <2>2. ASSUME NEW d \in deferred[v] \ Due(v, k)
        PROVE  [d EXCEPT !.wait = IF k.randomness THEN @ - 1 ELSE @] \in deferred'[v]
    BY <2>2, Zenon DEF Handles
  <2>3. QED
    BY <2>1, <2>2, Zenon
<1>18. \A t \in NewDeferred(v, k) : \E e \in deferred'[v] : e.tx = t
  <2>1. \A t : [tx |-> t, wait |-> 2].tx = t
    BY Zenon
  <2>2. QED
    BY <2>1, Zenon DEF Handles
<1>19. ASSUME NEW e \in deferred'[v]
       PROVE  e.tx.cert \in processed'[v]
  <2>1. CASE \E t \in NewDeferred(v, k) : e = [tx |-> t, wait |-> 2]
    <3>1. PICK t \in NewDeferred(v, k) : e = [tx |-> t, wait |-> 2]
      BY <2>1, Zenon
    <3>2. e.tx = t
      BY <3>1, Zenon
    <3>3. QED
      BY <1>7, <3>2, Zenon
  <2>2. CASE \E d \in deferred[v] \ Due(v, k) :
                e = [d EXCEPT !.wait = IF k.randomness THEN @ - 1 ELSE @]
    <3>1. PICK d \in deferred[v] \ Due(v, k) :
             e = [d EXCEPT !.wait = IF k.randomness THEN @ - 1 ELSE @]
      BY <2>2, Zenon
    <3>2. d \in Waiting
      BY <3>1, Zenon DEF TypeOK
    <3>3. e.tx = d.tx
      BY <3>1, <3>2, Zenon DEF Waiting
    <3>4. QED
      BY <1>7, <3>1, <3>3, Zenon DEF HandlerOK
  <2> DEFINE Waits(d) == [d EXCEPT !.wait = IF k.randomness THEN @ - 1 ELSE @]
  <2>3. deferred'[v] = {Waits(d) : d \in deferred[v] \ Due(v, k)}
           \cup {[tx |-> t, wait |-> 2] : t \in NewDeferred(v, k)}
    BY Zenon DEF Handles
  <2>4. (\E d \in deferred[v] \ Due(v, k) : e = Waits(d)) => e.tx.cert \in processed'[v]
    BY <2>2, Zenon
  <2> HIDE DEF Waits
  <2>5. QED
    BY <1>19, <2>1, <2>3, <2>4, Zenon
<1>20. /\ warned[v] \subseteq warned'[v]
       /\ \A t \in Warned(v, k) : \E x \in warned'[v] : x.cert = t.cert
       /\ \A x \in warned'[v] : x \in warned[v] \/ x.deferred
  <2>1. ASSUME NEW t \in Warned(v, k)
        PROVE  /\ [cert |-> t.cert, deferred |-> t \in Ready(v, k)].cert = t.cert
               /\ [cert |-> t.cert, deferred |-> t \in Ready(v, k)].deferred
    BY <1>2, <2>1, Zenon
  <2>2. warned[v] \subseteq warned'[v]
    BY Zenon DEF Handles
  <2>3. ASSUME NEW t \in Warned(v, k)
        PROVE  \E x \in warned'[v] : x.cert = t.cert
    <3>1. [cert |-> t.cert, deferred |-> t \in Ready(v, k)] \in warned'[v]
      BY <2>3, Zenon DEF Handles, NewWarned
    <3>2. QED
      BY <2>1, <3>1, Zenon
  <2>4. ASSUME NEW x \in warned'[v], x \notin warned[v]
        PROVE  x.deferred
    <3>1. PICK t \in Warned(v, k) :
             x = [cert |-> t.cert, deferred |-> t \in Ready(v, k)]
      BY <2>4, Zenon DEF Handles, NewWarned
    <3>2. QED
      BY <2>1, <3>1, Zenon
  <2>5. QED
    BY <2>2, <2>3, <2>4, Zenon
<1>21. ASSUME NEW c \in processed'[v] \cap Certificate
       PROVE  \/ c \in executed'[v] \/ \E e \in deferred'[v] : e.tx.cert = c
              \/ \E x \in warned'[v] : x.cert = c
  <2>1. CASE c \in Scheduled(v, k)
    BY <1>7, <2>1, Zenon
  <2>2. CASE \E t \in NewDeferred(v, k) : t.cert = c
    BY <1>18, <2>2, Zenon
  <2>3. CASE c \in processed[v]
    <3>1. \/ c \in executed[v] \/ \E d \in deferred[v] : d.tx.cert = c
          \/ \E x \in warned[v] : x.cert = c
      BY <1>21, <2>3, Zenon DEF HandlerOK
    <3>2. ASSUME NEW d \in Due(v, k), d.tx.cert = c
          PROVE  c \in executed'[v] \/ \E x \in warned'[v] : x.cert = c
      <4>1. d.tx \in Ready(v, k)
        BY <3>2, Zenon DEF Ready
      <4>2. CASE d.tx \in Warned(v, k)
        BY <1>20, <3>2, <4>2, Zenon
      <4>3. CASE d.tx \notin Warned(v, k)
        <5>1. d.tx \notin Ignored(v, k) \cup NewDeferred(v, k)
          BY <1>2, <1>8, <4>1, <4>3, Zenon
        <5>2. c \in Scheduled(v, k)
          BY <3>2, <4>1, <5>1, Zenon DEF Scheduled
        <5>3. QED
          BY <1>7, <5>2, Zenon
      <4>4. QED
        BY <4>2, <4>3, Zenon
    <3>3. ASSUME NEW d \in deferred[v] \ Due(v, k), d.tx.cert = c
          PROVE  \E e \in deferred'[v] : e.tx.cert = c
      BY <1>17, <3>3, Zenon
    <3>4. c \in executed[v] => c \in executed'[v]
      BY <1>7, Zenon
    <3>5. (\E x \in warned[v] : x.cert = c) => \E x \in warned'[v] : x.cert = c
      BY <1>20, Zenon
    <3>6. QED
      BY <3>1, <3>2, <3>3, <3>4, <3>5, Zenon
  <2>4. c \notin NewEnds(v, k)
    BY <1>5, <1>6, <1>21, Zenon DEF NewEnds
  <2>5. QED
    BY <1>21, <2>1, <2>2, <2>3, <2>4, Zenon DEF Handles
<1>22. HandlerOK(v)'
  BY <1>13, <1>14, <1>15, <1>16, <1>19, <1>21, Zenon DEF HandlerOK
<1>23. QED
  BY <1>7, <1>20, <1>22, Zenon

(* The log after v has handled a commit, which is forgotten when v was the *)
(* last.                                                                   *)
LEMMA LogForward ==
    ASSUME TypeOK, Log, Frozen, UNCHANGED random, NEW v \in Authority,
           handled[v] < Len(commits), Forward(v),
           StoreOf(v)' = StoreAfter(random, StoreOf(v), commits[handled[v] + 1]),
           \A w \in Authority \ {v} : StoreOf(w)' = StoreOf(w)
    PROVE  Log'
<1>1. PICK h : Replayed(h) /\ Backed(h)
  BY Zenon DEF Log
<1>2. PICK n : n = Len(commits)
  BY Zenon
<1>3. PICK m : m = [handled EXCEPT ![v] = @ + 1]
  BY Zenon
<1>4. n \in Nat /\ commits \in Seq(CommitRecord) /\ handled \in [Authority -> 0 .. n]
  BY <1>2 DEF TypeOK
<1>5. /\ m \in [Authority -> 0 .. n] /\ m[v] = handled[v] + 1
      /\ m[v] \in 1 .. n /\ m[v] - 1 = handled[v]
      /\ \A w \in Authority \ {v} : m[w] = handled[w]
  BY <1>2, <1>3, <1>4
<1>6. ASSUME NEW w \in Authority
      PROVE  StoreOf(w)' = h[m[w]]
  <2>1. CASE w = v
    <3>1. StoreOf(v) = h[handled[v]]
      BY <1>1, Zenon DEF Replayed
    <3>2. h[m[v]] = StoreAfter(random, h[m[v] - 1], commits[m[v]])
      BY <1>1, <1>2, <1>5, Zenon DEF Replayed
    <3>3. QED
      BY <1>5, <2>1, <3>1, <3>2, Zenon
  <2>2. CASE w # v
    BY <1>1, <1>5, <2>2, Zenon DEF Replayed
  <2>3. QED
    BY <2>1, <2>2, Zenon
<1>7. /\ h \in [0 .. n -> Store]
      /\ \A i \in 1 .. n : h[i] = StoreAfter(random, h[i - 1], commits[i])
      /\ \A i, j \in 0 .. n : i <= j => h[i].processed \subseteq h[j].processed
  BY <1>1, <1>2, Zenon DEF Replayed
<1>8. \A w \in Authority : \A S : Finished(w, S) => Finished(w, S)'
  BY Zenon DEF Frozen, Finished
<1>9. ASSUME NEW i \in 1 .. n
      PROVE  /\ \A c \in DOMAIN commits[i].certs :
                   c \in accepted'[commits[i].certs[c]]
             /\ \A w \in Range(commits[i].ends) : Finished(w, h[i - 1].processed)'
  <2>1. /\ Range(commits[i].ends) \subseteq Authority
        /\ \A c \in DOMAIN commits[i].certs : commits[i].certs[c] \in Authority
    BY <1>2, <1>9, CommitFacts, Zenon
  <2>2. QED
    BY <1>1, <1>2, <1>8, <1>9, <2>1, Zenon DEF Backed, Frozen
<1>10. ASSUME NEW i \in 0 .. n, NEW w \in h[i].endOfPublish
       PROVE  Finished(w, h[i].processed)'
  <2>1. w \in Authority
    BY <1>7, <1>10, Zenon DEF Store
  <2>2. QED
    BY <1>1, <1>2, <1>8, <1>10, <2>1, Zenon DEF Backed
<1>11. CASE \A w \in Authority : m[w] > 0
  <2>1. /\ commits' = Tail(commits)
        /\ handled' = [w \in Authority |-> m[w] - 1]
    BY <1>3, <1>11 DEF Forward
  <2> DEFINE g == [i \in 0 .. n - 1 |-> h[i + 1]]
  <2>2. /\ n > 0 /\ commits # <<>> /\ n - 1 \in Nat /\ Len(commits') = n - 1
        /\ \A i \in 1 .. n - 1 : i + 1 \in 1 .. n /\ commits'[i] = commits[i + 1]
    BY <1>2, <1>4, <1>5, <2>1
  <2>3. /\ g \in [0 .. n - 1 -> Store]
        /\ \A i \in 0 .. n - 1 : g[i] = h[i + 1] /\ i + 1 \in 0 .. n
        /\ \A i \in 1 .. n - 1 : /\ g[i] = h[i + 1] /\ g[i - 1] = h[(i + 1) - 1]
                                 /\ i + 1 \in 1 .. n
    BY <1>4, <1>7, <2>2
  <2>4. \A i, j \in 0 .. n - 1 : i <= j => i + 1 <= j + 1
    BY <2>2
  <2>5. \A w \in Authority : handled'[w] \in 0 .. n - 1 /\ g[handled'[w]] = h[m[w]]
    <3>1. ASSUME NEW w \in Authority
          PROVE  handled'[w] \in 0 .. n - 1 /\ handled'[w] + 1 = m[w]
      BY <1>4, <1>5, <1>11, <2>1
    <3> HIDE DEF g
    <3>2. QED
      BY <2>3, <3>1, Zenon
  <2> HIDE DEF g
  <2>6. Replayed(g)'
    <3>1. \A i \in 1 .. n - 1 : g[i] = StoreAfter(random', g[i - 1], commits'[i])
      BY <1>7, <2>2, <2>3, Zenon
    <3>2. ASSUME NEW i \in 0 .. n - 1, NEW j \in 0 .. n - 1, i <= j
          PROVE  g[i].processed \subseteq g[j].processed
      <4>1. /\ g[i] = h[i + 1] /\ i + 1 \in 0 .. n
            /\ g[j] = h[j + 1] /\ j + 1 \in 0 .. n /\ i + 1 <= j + 1
        BY <2>3, <2>4, <3>2, Zenon
      <4>2. QED
        BY <1>7, <4>1, Zenon
    <3>3. \A w \in Authority : StoreOf(w)' = g[handled'[w]]
      BY <1>6, <2>5, Zenon
    <3>4. QED
      BY <2>2, <2>3, <3>1, <3>2, <3>3, Zenon DEF Replayed
  <2>7. Backed(g)'
    <3>1. ASSUME NEW i \in 1 .. n - 1
          PROVE  /\ \A c \in DOMAIN commits'[i].certs :
                       c \in accepted'[commits'[i].certs[c]]
                 /\ \A w \in Range(commits'[i].ends) : Finished(w, g[i - 1].processed)'
      BY <1>9, <2>2, <2>3, <3>1, Zenon
    <3>2. ASSUME NEW i \in 0 .. n - 1, NEW w \in g[i].endOfPublish
          PROVE  Finished(w, g[i].processed)'
      BY <1>10, <2>3, <3>2, Zenon
    <3>3. QED
      BY <2>2, <3>1, <3>2, Zenon DEF Backed
  <2>8. QED
    BY <2>6, <2>7, Zenon DEF Log
<1>12. CASE ~\A w \in Authority : m[w] > 0
  <2>1. commits' = commits /\ \A w \in Authority : handled'[w] = m[w]
    BY <1>3, <1>12, Zenon DEF Forward
  <2>2. Replayed(h)'
    BY <1>2, <1>6, <1>7, <2>1, Zenon DEF Replayed
  <2>3. Backed(h)'
    BY <1>2, <1>9, <1>10, <2>1, Zenon DEF Backed
  <2>4. QED
    BY <2>2, <2>3, Zenon DEF Log
<1>13. QED
  BY <1>11, <1>12, Zenon

(* A function that is changed at one argument.                             *)
LEMMA ExceptFacts ==
    ASSUME NEW A, NEW S, NEW f \in [A -> S], NEW a \in A, NEW x
    PROVE  /\ [f EXCEPT ![a] = x][a] = x
           /\ \A w \in A \ {a} : [f EXCEPT ![a] = x][w] = f[w]
           /\ x \in S => [f EXCEPT ![a] = x] \in [A -> S]
BY Zenon

(* The tasks that are notified of what the commit made processed.          *)
Notified(T, S) ==
    {IF x[1] \in S /\ x[2] \in {"waiting", "submitted"}
     THEN <<x[1], "processed">> ELSE x : x \in T}

(* A notified task keeps its item, and is one whose item is processed.     *)
LEMMA NotifiedFacts ==
    ASSUME NEW I, NEW T \in SUBSET (I \X Stage), NEW S
    PROVE  /\ Notified(T, S) \subseteq I \X Stage
           /\ \A y \in Notified(T, S) : \E x \in T : x[1] = y[1]
           /\ \A y \in Notified(T, S) : y[2] = "processed" => y \in T \/ y[1] \in S
<1> SUFFICES ASSUME NEW y \in Notified(T, S)
             PROVE  /\ y \in I \X Stage /\ \E x \in T : x[1] = y[1]
                    /\ y \in T \/ y[1] \in S
  BY Zenon
<1>1. PICK x \in T : y = IF x[1] \in S /\ x[2] \in {"waiting", "submitted"}
                         THEN <<x[1], "processed">> ELSE x
  BY Zenon DEF Notified
<1>2. CASE y = x
  BY <1>1, <1>2, Zenon
<1>3. CASE y = <<x[1], "processed">> /\ x[1] \in S
  <2>1. x[1] \in I /\ "processed" \in Stage
    BY <1>1, Zenon DEF Stage
  <2>2. y[1] = x[1] /\ y \in I \X Stage
    BY <1>3, <2>1, Zenon
  <2>3. QED
    BY <1>1, <1>3, <2>2, Zenon
<1>4. QED
  BY <1>1, <1>2, <1>3, Zenon

(* What HandleConsensusOutput writes, and that it concerns v alone.        *)
LEMMA HandleWrites ==
    ASSUME TypeOK, NEW v \in Authority, HandleConsensusOutput(v), NEW k,
           k = commits[handled[v] + 1]
    PROVE  /\ Handles(v, k)
           /\ tasks'[v] = Notified(tasks[v], Scheduled(v, k) \cup NewEnds(v, k))
           /\ \A w \in Authority \ {v} :
                 /\ reconfig'[w] = reconfig[w] /\ endOfPublish'[w] = endOfPublish[w]
                 /\ executed'[w] = executed[w] /\ deferred'[w] = deferred[w]
                 /\ processed'[w] = processed[w] /\ cache'[w] = cache[w]
                 /\ checkpoints'[w] = checkpoints[w] /\ warned'[w] = warned[w]
                 /\ tasks'[w] = tasks[w]
           /\ reconfig'[v] \in Status => reconfig' \in [Authority -> Status]
           /\ StoreOf(v)' \in Store =>
                 /\ processed' \in [Authority -> SUBSET Item]
                 /\ endOfPublish' \in [Authority -> SUBSET Authority]
                 /\ deferred' \in [Authority -> SUBSET Waiting]
                 /\ executed' \in [Authority -> SUBSET Certificate]
           /\ checkpoints'[v] \in Seq(PendingCheckpoint) =>
                 checkpoints' \in [Authority -> Seq(PendingCheckpoint)]
           /\ warned'[v] \subseteq Warning =>
                 warned' \in [Authority -> SUBSET Warning]
           /\ cache'[v] \subseteq Item => cache' \in [Authority -> SUBSET Item]
           /\ tasks'[v] \subseteq Item \X Stage =>
                 tasks' \in [Authority -> SUBSET (Item \X Stage)]
<1> DEFINE
       rv == ReconfigAfter(v, k, EndOfPublishAfter(v, k))
       ev == EndOfPublishAfter(v, k)
       xv == executed[v] \cup Scheduled(v, k)
       dv == {[d EXCEPT !.wait = IF k.randomness THEN @ - 1 ELSE @] :
                  d \in deferred[v] \ Due(v, k)}
              \cup {[tx |-> t, wait |-> 2] : t \in NewDeferred(v, k)}
       pv == processed[v] \cup (Scheduled(v, k) \cup NewEnds(v, k))
                 \cup {t.cert : t \in NewDeferred(v, k)}
       cv == cache[v] \cup DOMAIN k.certs \cup Range(k.ends)
       ov == IF reconfig[v] = "RejectAllTx" THEN checkpoints[v]
              ELSE Append(checkpoints[v], NewCheckpoint(v, k))
       wv == warned[v] \cup NewWarned(v, k)
       tv == Notified(tasks[v], Scheduled(v, k) \cup NewEnds(v, k))
<1>1. /\ reconfig' = [reconfig EXCEPT ![v] = rv]
      /\ endOfPublish' = [endOfPublish EXCEPT ![v] = ev]
      /\ executed' = [executed EXCEPT ![v] = xv]
      /\ deferred' = [deferred EXCEPT ![v] = dv]
      /\ processed' = [processed EXCEPT ![v] = pv]
      /\ cache' = [cache EXCEPT ![v] = cv]
      /\ checkpoints' = [checkpoints EXCEPT ![v] = ov]
      /\ warned' = [warned EXCEPT ![v] = wv]
      /\ tasks' = [tasks EXCEPT ![v] = tv]
  <2>1. reconfig' = [reconfig EXCEPT ![v] = rv]
    BY Zenon DEF HandleConsensusOutput
  <2>2. endOfPublish' = [endOfPublish EXCEPT ![v] = ev]
    BY Zenon DEF HandleConsensusOutput
  <2>3. executed' = [executed EXCEPT ![v] = xv]
    BY Zenon DEF HandleConsensusOutput
  <2>4. deferred' = [deferred EXCEPT ![v] = dv]
    BY Zenon DEF HandleConsensusOutput
  <2>5. processed' = [processed EXCEPT ![v] = pv]
    BY Zenon DEF HandleConsensusOutput
  <2>6. cache' = [cache EXCEPT ![v] = cv]
    BY Zenon DEF HandleConsensusOutput
  <2>7. checkpoints' = [checkpoints EXCEPT ![v] = ov]
    BY Zenon DEF HandleConsensusOutput, NewCheckpoint
  <2>8. warned' = [warned EXCEPT ![v] = wv]
    BY Zenon DEF HandleConsensusOutput, NewWarned
  <2>9. tasks' = [tasks EXCEPT ![v] = tv]
    BY Zenon DEF HandleConsensusOutput, Notified
  <2>10. QED
    BY <2>1, <2>2, <2>3, <2>4, <2>5, <2>6, <2>7, <2>8, <2>9, Zenon
<1> HIDE DEF rv, ev, xv, dv, pv, cv, ov, wv, tv
<1>2. /\ reconfig \in [Authority -> Status]
      /\ tasks \in [Authority -> SUBSET (Item \X Stage)]
      /\ cache \in [Authority -> SUBSET Item]
      /\ processed \in [Authority -> SUBSET Item]
      /\ endOfPublish \in [Authority -> SUBSET Authority]
      /\ deferred \in [Authority -> SUBSET Waiting]
      /\ executed \in [Authority -> SUBSET Certificate]
      /\ checkpoints \in [Authority -> Seq(PendingCheckpoint)]
      /\ warned \in [Authority -> SUBSET Warning]
  BY Zenon DEF TypeOK, Warning
<1>3. /\ reconfig'[v] = rv /\ \A w \in Authority \ {v} : reconfig'[w] = reconfig[w]
      /\ rv \in Status => reconfig' \in [Authority -> Status]
  <2>1. reconfig \in [Authority -> Status] /\ reconfig' = [reconfig EXCEPT ![v] = rv]
    BY <1>1, <1>2, Zenon
  <2>2. QED
    BY <2>1, ExceptFacts, Zenon
<1>4. /\ tasks'[v] = tv /\ \A w \in Authority \ {v} : tasks'[w] = tasks[w]
      /\ tv \in SUBSET (Item \X Stage) => tasks' \in [Authority -> SUBSET (Item \X Stage)]
  <2>1. tasks \in [Authority -> SUBSET (Item \X Stage)] /\ tasks' = [tasks EXCEPT ![v] = tv]
    BY <1>1, <1>2, Zenon
  <2>2. QED
    BY <2>1, ExceptFacts, Zenon
<1>5. /\ cache'[v] = cv /\ \A w \in Authority \ {v} : cache'[w] = cache[w]
      /\ cv \in SUBSET Item => cache' \in [Authority -> SUBSET Item]
  <2>1. cache \in [Authority -> SUBSET Item] /\ cache' = [cache EXCEPT ![v] = cv]
    BY <1>1, <1>2, Zenon
  <2>2. QED
    BY <2>1, ExceptFacts, Zenon
<1>6. /\ processed'[v] = pv /\ \A w \in Authority \ {v} : processed'[w] = processed[w]
      /\ pv \in SUBSET Item => processed' \in [Authority -> SUBSET Item]
  <2>1. processed \in [Authority -> SUBSET Item] /\ processed' = [processed EXCEPT ![v] = pv]
    BY <1>1, <1>2, Zenon
  <2>2. QED
    BY <2>1, ExceptFacts, Zenon
<1>7. /\ endOfPublish'[v] = ev
      /\ \A w \in Authority \ {v} : endOfPublish'[w] = endOfPublish[w]
      /\ ev \in SUBSET Authority => endOfPublish' \in [Authority -> SUBSET Authority]
  <2>1. endOfPublish \in [Authority -> SUBSET Authority] /\ endOfPublish' = [endOfPublish EXCEPT ![v] = ev]
    BY <1>1, <1>2, Zenon
  <2>2. QED
    BY <2>1, ExceptFacts, Zenon
<1>8. /\ deferred'[v] = dv /\ \A w \in Authority \ {v} : deferred'[w] = deferred[w]
      /\ dv \in SUBSET Waiting => deferred' \in [Authority -> SUBSET Waiting]
  <2>1. deferred \in [Authority -> SUBSET Waiting] /\ deferred' = [deferred EXCEPT ![v] = dv]
    BY <1>1, <1>2, Zenon
  <2>2. QED
    BY <2>1, ExceptFacts, Zenon
<1>9. /\ executed'[v] = xv /\ \A w \in Authority \ {v} : executed'[w] = executed[w]
      /\ xv \in SUBSET Certificate => executed' \in [Authority -> SUBSET Certificate]
  <2>1. executed \in [Authority -> SUBSET Certificate] /\ executed' = [executed EXCEPT ![v] = xv]
    BY <1>1, <1>2, Zenon
  <2>2. QED
    BY <2>1, ExceptFacts, Zenon
<1>10. /\ checkpoints'[v] = ov
       /\ \A w \in Authority \ {v} : checkpoints'[w] = checkpoints[w]
       /\ ov \in Seq(PendingCheckpoint) =>
             checkpoints' \in [Authority -> Seq(PendingCheckpoint)]
  <2>1. /\ checkpoints \in [Authority -> Seq(PendingCheckpoint)]
        /\ checkpoints' = [checkpoints EXCEPT ![v] = ov]
    BY <1>1, <1>2, Zenon
  <2>2. QED
    BY <2>1, ExceptFacts, Zenon
<1>11. /\ warned'[v] = wv /\ \A w \in Authority \ {v} : warned'[w] = warned[w]
       /\ wv \in SUBSET Warning => warned' \in [Authority -> SUBSET Warning]
  <2>1. warned \in [Authority -> SUBSET Warning] /\ warned' = [warned EXCEPT ![v] = wv]
    BY <1>1, <1>2, Zenon
  <2>2. QED
    BY <2>1, ExceptFacts, Zenon
<1>12. Handles(v, k)
  BY <1>3, <1>5, <1>6, <1>7, <1>8, <1>9, <1>10, <1>11, Zenon
  DEF Handles, rv, ev, xv, dv, pv, cv, ov, wv
<1>13. StoreOf(v)' \in Store =>
          /\ processed'[v] \in SUBSET Item /\ endOfPublish'[v] \in SUBSET Authority
          /\ deferred'[v] \in SUBSET Waiting /\ executed'[v] \in SUBSET Certificate
  BY Zenon DEF StoreOf, Store
<1>14. /\ reconfig'[v] \in Status => reconfig' \in [Authority -> Status]
       /\ cache'[v] \subseteq Item => cache' \in [Authority -> SUBSET Item]
       /\ tasks'[v] \subseteq Item \X Stage =>
             tasks' \in [Authority -> SUBSET (Item \X Stage)]
       /\ checkpoints'[v] \in Seq(PendingCheckpoint) =>
             checkpoints' \in [Authority -> Seq(PendingCheckpoint)]
       /\ warned'[v] \subseteq Warning => warned' \in [Authority -> SUBSET Warning]
  BY <1>3, <1>4, <1>5, <1>10, <1>11, Zenon
<1>15. StoreOf(v)' \in Store =>
          /\ processed' \in [Authority -> SUBSET Item]
          /\ endOfPublish' \in [Authority -> SUBSET Authority]
          /\ deferred' \in [Authority -> SUBSET Waiting]
          /\ executed' \in [Authority -> SUBSET Certificate]
  BY <1>6, <1>7, <1>8, <1>9, <1>13, Zenon
<1>16. tasks'[v] = Notified(tasks[v], Scheduled(v, k) \cup NewEnds(v, k))
  BY <1>4, Zenon DEF tv
<1>17. \A w \in Authority \ {v} :
          /\ reconfig'[w] = reconfig[w] /\ endOfPublish'[w] = endOfPublish[w]
          /\ executed'[w] = executed[w] /\ deferred'[w] = deferred[w]
          /\ processed'[w] = processed[w] /\ cache'[w] = cache[w]
          /\ checkpoints'[w] = checkpoints[w] /\ warned'[w] = warned[w]
          /\ tasks'[w] = tasks[w]
  BY <1>3, <1>4, <1>5, <1>6, <1>7, <1>8, <1>9, <1>10, <1>11, Zenon
<1>18. QED
  BY <1>12, <1>14, <1>15, <1>16, <1>17, Zenon

(* No certificate is new to v after the EndOfPublish of its author.        *)
LEMMA NothingNew ==
    ASSUME Inv, NEW v \in Authority, handled[v] < Len(commits),
           NEW k, k = commits[handled[v] + 1]
    PROVE  /\ k \in CommitRecord
           /\ \A t \in Fresh(v, k) : t.author \notin endOfPublish[v]
<1>1. PICK h : Replayed(h) /\ Backed(h)
  BY Zenon DEF Inv, Log
<1>2. PICK i : i = handled[v] + 1
  BY Zenon
<1>3. TypeOK
  BY Zenon DEF Inv
<1>4. i \in 1 .. Len(commits) /\ handled[v] \in 0 .. Len(commits)
  BY <1>2, <1>3 DEF TypeOK
<1>5. k \in CommitRecord
  BY <1>2, <1>3, <1>4, CommitFacts, Zenon
<1>6. ASSUME NEW t \in Fresh(v, k), t.author \in endOfPublish[v]
      PROVE  FALSE
  <2>1. PICK c \in DOMAIN k.certs \ Seen(v) : t = [cert |-> c, author |-> k.certs[c]]
    BY <1>6, Zenon DEF Fresh
  <2>2. t.author = k.certs[c]
    BY <2>1, Zenon
  <2>3. c \in accepted[k.certs[c]]
    BY <1>1, <1>2, <1>4, <2>1, Zenon DEF Backed
  <2>4. StoreOf(v) = h[handled[v]]
    BY <1>1, Zenon DEF Replayed
  <2>5. h[handled[v]].endOfPublish = endOfPublish[v]
        /\ h[handled[v]].processed = processed[v]
    BY <2>4, StoreFields, Zenon
  <2>6. Finished(k.certs[c], processed[v])
    BY <1>1, <1>4, <1>6, <2>2, <2>5, Zenon DEF Backed
  <2>7. QED
    BY <2>1, <2>3, <2>6, Zenon DEF Finished, Seen
<1>7. QED
  BY <1>5, <1>6, Zenon

(* The handler of v takes its store one commit further along the log.      *)
LEMMA HandleConsensusOutputInv ==
    ASSUME Inv, NEW v \in Authority, HandleConsensusOutput(v)
    PROVE  Inv'
<1>1. PICK k : k = commits[handled[v] + 1]
  BY Zenon
<1>2. PICK s : s = StoreOf(v)
  BY Zenon
<1>3. /\ handled[v] < Len(commits) /\ Forward(v)
      /\ UNCHANGED <<random, pending, worker, accepted>>
  BY Zenon DEF HandleConsensusOutput
<1>4. /\ TypeOK /\ Log /\ NothingNewAfterEndOfPublish
      /\ \A w \in Authority : AdapterOK(w) /\ HandlerOK(w)
  BY Zenon DEF Inv
<1>5. /\ k \in CommitRecord
      /\ \A t \in Fresh(v, k) : t.author \notin endOfPublish[v]
  BY <1>1, <1>3, NothingNew, Zenon
<1>6. /\ Handles(v, k)
      /\ tasks'[v] = Notified(tasks[v], Scheduled(v, k) \cup NewEnds(v, k))
  <2>1. Handles(v, k)
    BY <1>1, <1>4, HandleWrites, Zenon
  <2>2. tasks'[v] = Notified(tasks[v], Scheduled(v, k) \cup NewEnds(v, k))
    BY <1>1, <1>4, HandleWrites, Zenon
  <2>3. QED
    BY <2>1, <2>2, Zenon
<1>7. ASSUME NEW w \in Authority \ {v}
      PROVE  /\ reconfig'[w] = reconfig[w] /\ endOfPublish'[w] = endOfPublish[w]
             /\ executed'[w] = executed[w] /\ deferred'[w] = deferred[w]
             /\ processed'[w] = processed[w] /\ cache'[w] = cache[w]
             /\ checkpoints'[w] = checkpoints[w] /\ warned'[w] = warned[w]
             /\ tasks'[w] = tasks[w]
  BY <1>1, <1>4, <1>7, HandleWrites, Zenon
<1>8. /\ StoreOf(v)' = StoreAfter(random, s, k)
      /\ reconfig[v] # "AcceptAllCerts" => reconfig'[v] # "AcceptAllCerts"
      /\ reconfig'[v] \in Status
  BY <1>2, <1>4, <1>5, <1>6, HandledStore, Zenon
<1>9. /\ HandlerOK(v)' /\ processed[v] \subseteq processed'[v]
      /\ \A x \in warned'[v] : x \in warned[v] \/ x.deferred
  BY <1>4, <1>5, <1>6, HandledKept, Zenon
<1>10. s \in Store
  <2>1. PhaseOf(v) \in Phase
    BY <1>4, PhaseFacts, Zenon
  <2>2. Settled(v) \in Seq(PendingCheckpoint)
    BY <1>4, SettledType, Zenon
  <2>3. QED
    BY <1>2, <1>4, <2>1, <2>2, Zenon DEF StoreOf, Store, TypeOK
<1>11. StoreOf(v)' \in Store
  BY <1>5, <1>8, <1>10, StoreAfterFacts, Zenon
<1>12. /\ tasks'[v] \subseteq (Certificate \cup {v}) \X Stage
       /\ \A y \in tasks'[v] : \E x \in tasks[v] : x[1] = y[1]
       /\ \A y \in tasks'[v] : y[2] = "processed" => y[1] \in processed'[v]
  <2>1. PICK I, T, S : /\ I = Certificate \cup {v} /\ T = tasks[v]
                       /\ S = Scheduled(v, k) \cup NewEnds(v, k)
    BY Zenon
  <2>2. T \in SUBSET (I \X Stage)
    BY <1>4, <2>1, Zenon DEF TypeOK
  <2>3. tasks'[v] = Notified(T, S)
    BY <1>6, <2>1, Zenon
  <2>4. /\ Notified(T, S) \subseteq I \X Stage
        /\ \A y \in Notified(T, S) : \E x \in T : x[1] = y[1]
        /\ \A y \in Notified(T, S) : y[2] = "processed" => y \in T \/ y[1] \in S
    BY <2>2, NotifiedFacts, Zenon
  <2>5. S \subseteq processed'[v]
    BY <1>6, <2>1, Zenon DEF Handles
  <2>6. \A y \in T : y[2] = "processed" => y[1] \in processed'[v]
    BY <1>4, <1>9, <2>1, Zenon DEF AdapterOK
  <2>7. QED
    BY <2>1, <2>3, <2>4, <2>5, <2>6, Zenon
<1>13. TypeOK'
  <2>1. /\ reconfig' \in [Authority -> Status]
        /\ processed' \in [Authority -> SUBSET Item]
        /\ endOfPublish' \in [Authority -> SUBSET Authority]
        /\ deferred' \in [Authority -> SUBSET Waiting]
        /\ executed' \in [Authority -> SUBSET Certificate]
    BY <1>1, <1>4, <1>8, <1>11, HandleWrites, Zenon
  <2>2. cache' \in [Authority -> SUBSET Item]
    <3>1. DOMAIN k.certs \subseteq Certificate /\ Range(k.ends) \subseteq Authority
      BY <1>5, <1>10, TxTypes, Zenon
    <3>2. cache[v] \subseteq Item
      BY <1>4, Zenon DEF TypeOK
    <3>3. cache'[v] \subseteq Item
      BY <1>6, <3>1, <3>2, Zenon DEF Handles, Item
    <3>4. QED
      BY <1>1, <1>4, <3>3, HandleWrites, Zenon
  <2>3. tasks' \in [Authority -> SUBSET (Item \X Stage)]
    <3>1. (Certificate \cup {v}) \X Stage \subseteq Item \X Stage
      BY Zenon DEF Item
    <3>2. QED
      BY <1>1, <1>4, <1>12, <3>1, HandleWrites, Zenon
  <2>4. \A w \in Authority :
           /\ pending'[w] \cup worker'[w] \subseteq Certificate \cup {w}
           /\ tasks'[w] \subseteq (Certificate \cup {w}) \X Stage
    BY <1>3, <1>4, <1>7, <1>12, Zenon DEF TypeOK
  <2>5. commits' \in Seq(CommitRecord) /\ handled' \in [Authority -> 0 .. Len(commits')]
    <3>1. PICK m : m = [handled EXCEPT ![v] = @ + 1]
      BY Zenon
    <3>2. commits \in Seq(CommitRecord) /\ handled \in [Authority -> 0 .. Len(commits)]
      BY <1>4, Zenon DEF TypeOK
    <3>3. m \in [Authority -> 0 .. Len(commits)]
      BY <1>3, <3>1, <3>2
    <3>4. CASE \A w \in Authority : m[w] > 0
      <4>1. commits' = Tail(commits) /\ handled' = [w \in Authority |-> m[w] - 1]
        BY <1>3, <3>1, <3>4 DEF Forward
      <4>2. commits # <<>>
        BY <3>2, <3>3, <3>4
      <4>3. commits' \in Seq(CommitRecord) /\ Len(commits') = Len(commits) - 1
        BY <3>2, <4>1, <4>2
      <4>4. QED
        BY <3>2, <3>3, <3>4, <4>1, <4>3
    <3>5. CASE ~\A w \in Authority : m[w] > 0
      <4>1. commits' = commits /\ handled' = [w \in Authority |-> m[w]]
        BY <1>3, <3>1, <3>5 DEF Forward
      <4>2. QED
        BY <3>2, <3>3, <4>1, Zenon
    <3>6. QED
      BY <3>4, <3>5, Zenon
  <2>6. warned' \in [Authority -> SUBSET Warning]
    <3>1. Fresh(v, k) \cap Ready(v, k) = {} /\ Warned(v, k) \subseteq Ready(v, k)
      BY <1>2, <1>4, <1>5, HandledSets, Zenon
    <3>2. Ready(v, k) \subseteq Transaction
      BY <1>4 DEF TypeOK, Waiting, Ready, Due
    <3>3. ASSUME NEW t \in Warned(v, k)
          PROVE  [cert |-> t.cert, deferred |-> t \in Ready(v, k)] \in Warning
      BY <3>1, <3>2, <3>3, Zenon DEF Transaction, Warning
    <3>4. warned[v] \subseteq Warning
      BY <1>4, Zenon DEF TypeOK, Warning
    <3>5. warned'[v] \subseteq Warning
      BY <1>6, <3>3, <3>4, Zenon DEF Handles, NewWarned
    <3>6. QED
      BY <1>1, <1>4, <3>5, HandleWrites, Zenon
  <2>8. checkpoints' \in [Authority -> Seq(PendingCheckpoint)]
    <3>1. checkpoints[v] \in Seq(PendingCheckpoint)
      BY <1>4, Zenon DEF TypeOK
    <3>2. NewCheckpoint(v, k) \in PendingCheckpoint
      BY <1>5, NewCheckpointType, Zenon
    <3>3. Append(checkpoints[v], NewCheckpoint(v, k)) \in Seq(PendingCheckpoint)
      BY <3>1, <3>2
    <3>4. checkpoints'[v] \in Seq(PendingCheckpoint)
      BY <1>6, <3>1, <3>3, Zenon DEF Handles
    <3>5. QED
      BY <1>1, <1>4, <3>4, HandleWrites, Zenon
  <2>7. /\ random' \subseteq Certificate /\ accepted' \in [Authority -> SUBSET Certificate]
        /\ pending' \in [Authority -> SUBSET Item]
        /\ worker' \in [Authority -> SUBSET Item]
    BY <1>3, <1>4, Zenon DEF TypeOK
  <2>9. QED
    BY <2>1, <2>2, <2>3, <2>4, <2>5, <2>6, <2>7, <2>8, Zenon DEF TypeOK, Warning
<1>14. Frozen
  BY <1>3, <1>7, <1>8, Zenon DEF Frozen
<1>15. Log'
  <2>1. \A w \in Authority \ {v} : StoreOf(w)' = StoreOf(w)
    BY <1>7, Zenon DEF StoreOf, PhaseOf, AcceptsConsensusCerts, Settled
  <2>2. QED
    BY <1>1, <1>2, <1>3, <1>4, <1>8, <1>14, <2>1, LogForward, Zenon
<1>16. AdapterOK(v)'
  <2>1. Sent(v)' => Sent(v)
    <3>1. ASSUME NEW y \in tasks'[v], y[1] = v
          PROVE  \E r \in Stage : <<v, r>> \in tasks[v]
      <4>1. PICK x \in tasks[v] : x[1] = v
        BY <1>12, <3>1, Zenon
      <4>2. x \in (Certificate \cup {v}) \X Stage
        BY <1>4, <4>1, Zenon DEF TypeOK
      <4>3. x[2] \in Stage /\ x = <<v, x[2]>>
        BY <4>1, <4>2
      <4>4. QED
        BY <4>1, <4>3, Zenon
    <3>2. \A r : <<v, r>>[1] = v
      BY Zenon
    <3>3. QED
      BY <1>3, <3>1, <3>2, Zenon DEF Sent
  <2>2. Finished(v, processed[v]) => Finished(v, processed[v])'
    BY <1>3, <1>8, <1>9, Zenon DEF Finished
  <2>3. QED
    BY <1>3, <1>4, <1>9, <1>12, <2>1, <2>2, Zenon DEF AdapterOK
<1>17. ASSUME NEW w \in Authority \ {v}
       PROVE  AdapterOK(w)' /\ HandlerOK(w)'
  <2>1. AdapterOK(w)'
    BY <1>3, <1>4, <1>7, <1>17, Zenon DEF AdapterOK, Sent, Finished
  <2>2. HandlerOK(w)
    BY <1>4, <1>17, Zenon
  <2>3. AcceptsConsensusCerts(w)' <=> AcceptsConsensusCerts(w)
    BY <1>7, <1>17, Zenon DEF AcceptsConsensusCerts
  <2>4. QED
    BY <1>7, <1>17, <2>1, <2>2, <2>3, Zenon DEF HandlerOK
<1>18. NothingNewAfterEndOfPublish'
  BY <1>4, <1>7, <1>9, Zenon DEF NothingNewAfterEndOfPublish
<1>19. QED
  BY <1>9, <1>13, <1>15, <1>16, <1>17, <1>18, Zenon DEF Inv

-----------------------------------------------------------------------------
(* Each step keeps the invariant.                                          *)
LEMMA InvStep == Inv /\ [Next]_vars => Inv'
<1> SUFFICES ASSUME Inv, [Next]_vars PROVE Inv'
  BY Zenon
<1>1. CASE \E v \in Authority, c \in Certificate : HandleCertificate(v, c)
  BY <1>1, HandleCertificateInv, Zenon
<1>2. ASSUME NEW v \in Authority, AdapterStep(v)
      PROVE  Inv'
  BY <1>2, TaskInv, SendEndOfPublishInv, CloseEpochInv, Zenon DEF AdapterStep
<1>3. ASSUME NEW v \in Authority, HandleConsensusOutput(v) \/ Restart(v)
      PROVE  Inv'
  BY <1>3, HandleConsensusOutputInv, RestartInv, Zenon
<1>4. CASE \E taken \in SUBSET Submitted, r \in BOOLEAN : Commit(taken, r)
  BY <1>4, CommitInv, Zenon
<1>5. CASE UNCHANGED vars
  <2>1. UNCHANGED <<reconfig, pending, tasks, worker, accepted, commits, handled,
                    random, cache, processed, endOfPublish, deferred, executed,
                    checkpoints, warned>>
    BY <1>5, Zenon DEF vars, handler
  <2>2. Log'
    <3>1. Frozen /\ \A v \in Authority : PhaseOf(v)' = PhaseOf(v)
      BY <2>1, Zenon DEF Frozen, PhaseOf, AcceptsConsensusCerts
    <3>2. QED
      BY <2>1, <3>1, LogKept, Zenon DEF Inv
  <2>3. TypeOK' /\ NothingNewAfterEndOfPublish'
    BY <2>1, Zenon DEF Inv, TypeOK, NothingNewAfterEndOfPublish
  <2>4. \A v \in Authority : AdapterOK(v)' /\ HandlerOK(v)'
    BY <2>1, Zenon DEF Inv, AdapterOK, Sent, Finished, HandlerOK, AcceptsConsensusCerts
  <2>5. QED
    BY <2>2, <2>3, <2>4, Zenon DEF Inv
<1>6. QED
  BY <1>1, <1>2, <1>3, <1>4, <1>5, Zenon DEF Next

(* The invariant holds for every reachable state.                          *)
LEMMA InvHolds == Spec => []Inv
<1>1. Init => Inv
  BY InvInit, Zenon
<1>2. Inv /\ [Next]_vars => Inv'
  BY InvStep, Zenon
<1>3. QED
  BY <1>1, <1>2, PTL DEF Spec

(* Determinism of the consensus handler: validators that have handled the  *)
(* same commits have the same tables, agree whether the epoch is over, and *)
(* have written the same pending checkpoint for each commit, up to roots   *)
(* that were ignored; whatever keys a restart made one of them forget and  *)
(* whenever each one closed its own epoch.                                 *)
THEOREM ValidatorsAgree == Spec => []SameCommitsSameState
<1>1. Inv => SameCommitsSameState
  BY InvAgreement, Zenon
<1>2. QED
  BY <1>1, InvHolds, PTL

(* The warning of process_consensus_transaction is only ever given for     *)
(* certificates that were deferred: what comes new is never from one whose *)
(* EndOfPublish was counted.                                               *)
THEOREM NothingNewIsMet == Spec => []NothingNewAfterEndOfPublish
<1>1. Inv => NothingNewAfterEndOfPublish
  BY Zenon DEF Inv
<1>2. QED
  BY <1>1, InvHolds, PTL

(* What EndOfPublish stands for: when a validator no longer accepts        *)
(* certificates from consensus, each one that a counted sender took from a *)
(* client is executed or waits for its randomness, and it is executed when *)
(* the epoch is over, unless it was deferred and then dropped.             *)
THEOREM AcceptedAreKept == Spec => []AcceptedSurvive
<1>1. Inv => AcceptedSurvive
  BY InvSurvival, Zenon
<1>2. QED
  BY <1>1, InvHolds, PTL
=============================================================================
