------------------------- MODULE CertificateFetcher -------------------------
(***************************************************************************)
(* How a primary catches up (certificate_fetcher.rs).  The synchronizer    *)
(* asks for the ancestors of a certificate it suspends or finds too new;   *)
(* the fetcher keeps the highest round asked for per origin as a target,   *)
(* runs one task at a time that asks the peers, and starts another one     *)
(* while a target is above what is stored.  Certificates arrive and        *)
(* consensus moves the gc round while a task works with the rounds it read *)
(* before.  The acceptance of certificates, module Synchronizer in detail, *)
(* is one step here, and so is the answer of a peer.                       *)
(***************************************************************************)
EXTENDS Integers, FiniteSets

CONSTANTS
    Origin,      \* the authorities
    Peer,        \* the primaries asked
    MaxRound,    \* bound: the highest round
    Parents,     \* the parents of each certificate, genesis left out
    PeerStore,   \* what each peer has stored
    MaxItems,    \* MAX_CERTIFICATES_TO_FETCH
    RoundLimit,  \* NEW_CERTIFICATE_ROUND_LIMIT
    GcDepth,     \* Parameters.gc_depth
    MaxGc,       \* bound: the gc round
    MaxCrash     \* bound: restarts

Certificate == [origin : Origin, round : 1 .. MaxRound]

ASSUME CertificateFetcherAssumption ==
    /\ Parents \in [Certificate -> SUBSET Certificate]
    /\ \A c \in Certificate : \A p \in Parents[c] : p.round = c.round - 1
    /\ PeerStore \in [Peer -> SUBSET Certificate]
    /\ {MaxRound, MaxItems, RoundLimit, GcDepth, MaxGc, MaxCrash} \subseteq Nat

VARIABLES
    store,      \* the certificate store
    suspended,  \* the certificates the synchronizer has suspended
    gcRound,    \* ConsensusRound.gc_round
    commands,   \* Ancestors commands in the channel, in any order
    targets,    \* CertificateFetcher.targets, 0 for none
    task,       \* fetch_certificates_task: "none", "running" or "ended"
    request,    \* the bounds the running task sends: gc and stored rounds
    crashes

vars == <<store, suspended, gcRound, commands, targets, task, request, crashes>>

NoRequest == [gc |-> 0, written |-> {}]

TypeOK ==
    /\ store \subseteq Certificate /\ suspended \subseteq Certificate \ store
    /\ gcRound \in 0 .. MaxGc
    /\ commands \subseteq Certificate
    /\ targets \in [Origin -> 0 .. MaxRound]
    /\ task \in {"none", "running", "ended"}
    /\ request \in [gc : 0 .. MaxGc, written : SUBSET Certificate]
    /\ crashes \in 0 .. MaxCrash

Init ==
    /\ store = {} /\ suspended = {} /\ gcRound = 0
    /\ commands = {} /\ targets = [o \in Origin |-> 0]
    /\ task = "none" /\ request = NoRequest /\ crashes = 0
-----------------------------------------------------------------------------
(* The synchronizer.                                                       *)

Highest(S) ==
    IF S = {} THEN 0
    ELSE CHOOSE r \in {c.round : c \in S} : \A c \in S : c.round <= r

TooNew(c) == c.round > Highest(store) + RoundLimit

(* What is stored once the certificates of S are processed: each of them   *)
(* whose parents are stored or not above the gc round gc.                  *)
Accepted(S, gc) ==
    LET upTo[r \in 0 .. MaxRound] ==
          IF r = 0 THEN store
          ELSE LET below == upTo[r - 1]
               IN below \cup {c \in S : /\ c.round = r
                                        /\ \/ r <= gc + 1
                                           \/ Parents[c] \subseteq below}
    IN upTo[MaxRound]

(* The certificates of S are accepted with the suspended ones that waited  *)
(* for them, or suspended, and then their ancestors are asked for.         *)
Process(S) ==
    /\ store' = Accepted(S \cup suspended, gcRound)
    /\ suspended' = (S \cup suspended) \ store'
    /\ commands' = commands \cup (S \ store')

(* A certificate is broadcast to this primary.                             *)
ReceiveBroadcast(c) ==
    /\ c \notin store \cup suspended /\ c.round > gcRound
    /\ IF TooNew(c)
       THEN /\ commands' = commands \cup {c}
            /\ UNCHANGED <<store, suspended>>
       ELSE Process({c})
    /\ UNCHANGED <<gcRound, targets, task, request, crashes>>

(* Consensus commits; the certificates that waited for parents at or below *)
(* the gc round are released.                                              *)
AdvanceGc ==
    /\ gcRound < MaxGc /\ Highest(store) > gcRound + GcDepth
    /\ gcRound' = gcRound + 1
    /\ store' = Accepted(suspended, gcRound')
    /\ suspended' = suspended \ store'
    /\ UNCHANGED <<commands, targets, task, request, crashes>>

-----------------------------------------------------------------------------
(* The fetcher.                                                            *)

(* origins_after_round(gc_round + 1).                                      *)
WrittenRounds == {c \in store : c.round > gcRound}

LastWritten(o) ==
    LET W == {c \in WrittenRounds : c.origin = o}
    IN IF W = {} THEN gcRound ELSE Highest(W)

(* Mutant of Retained: a target that is reached is kept.                   *)
Retained_Reached(t) ==
    [o \in Origin |-> IF LastWritten(o) <= t[o] THEN t[o] ELSE 0]

(* targets.retain: those above what is stored of their origin.             *)
Retained(t) ==
    [o \in Origin |-> IF LastWritten(o) < t[o] THEN t[o] ELSE 0]

(* kickstart, with the targets t: a task starts unless none is left.       *)
Kickstart(t) ==
    /\ targets' = Retained(t)
    /\ IF \A o \in Origin : targets'[o] = 0
       THEN task' = "none" /\ request' = NoRequest
       ELSE /\ task' = "running"
            /\ request' = [gc |-> gcRound, written |-> WrittenRounds]

(* Mutant of Superseded: an earlier command takes a target's place.        *)
Superseded_Stored(c) ==
    \E d \in store : d.origin = c.origin /\ d.round >= c.round

(* A command is ignored when its origin has a target as high, or a         *)
(* certificate as late stored.                                             *)
Superseded(c) ==
    \/ targets[c.origin] >= c.round
    \/ \E d \in store : d.origin = c.origin /\ d.round >= c.round

HandleAncestors(c) ==
    /\ c \in commands /\ commands' = commands \ {c}
    /\ IF Superseded(c)
       THEN UNCHANGED <<targets, task, request>>
       ELSE LET t == [targets EXCEPT ![c.origin] = c.round]
            IN IF task = "none"
               THEN Kickstart(t)
               ELSE targets' = t /\ UNCHANGED <<task, request>>
    /\ UNCHANGED <<store, suspended, gcRound, crashes>>

(* No commit for FETCH_TRIGGER_TIMEOUT: the synchronizer sends Kick, which *)
(* may be in the channel at any time.  It finds a task running or no       *)
(* target left, and so never starts a fetch.                               *)
HandleKick ==
    /\ IF task = "none" THEN Kickstart(targets)
                        ELSE UNCHANGED <<targets, task, request>>
    /\ UNCHANGED <<store, suspended, gcRound, commands, crashes>>

(* Mutant of JoinTask: the fetcher does not start over.                    *)
JoinTask_Once ==
    /\ task = "ended" /\ task' = "none" /\ request' = NoRequest
    /\ UNCHANGED <<store, suspended, gcRound, commands, targets, crashes>>

(* The task has ended: another one, while targets are left.                *)
JoinTask ==
    /\ task = "ended" /\ Kickstart(targets)
    /\ UNCHANGED <<store, suspended, gcRound, commands, crashes>>
-----------------------------------------------------------------------------
(* The task.                                                               *)

(* What the peer p has that the request does not name.                     *)
Wanted(p) ==
    {c \in PeerStore[p] : c.round > request.gc /\ c \notin request.written}

(* The answers of p: the lowest rounds first, at most MaxItems, fewer when *)
(* the handler runs out of time.                                           *)
Response(p) ==
    {R \in SUBSET Wanted(p) :
       /\ R # {} /\ Cardinality(R) <= MaxItems
       /\ \A c \in R, d \in Wanted(p) \ R : c.round <= d.round}

(* sanitize_fetched_certificates checks the age of those that no other one *)
(* of the batch has as a parent; one too old fails the batch.              *)
TooOld(R) ==
    \E c \in R : c.round <= gcRound /\ \A d \in R : c \notin Parents[d]

(* The first answer that is not empty is processed.  A batch with a        *)
(* certificate that is too new is dropped and the ancestors of that one    *)
(* are asked for.                                                          *)
ProcessResponse(R) ==
    /\ LET new == {c \in R : TooNew(c)} IN
       \/ /\ TooOld(R)
          /\ UNCHANGED <<store, suspended, commands>>
       \/ /\ ~TooOld(R) /\ new = {}
          /\ Process(R \ store)
       \/ /\ ~TooOld(R)
          /\ \E c \in new :
                /\ \A d \in new : c.round <= d.round
                /\ commands' = commands \cup {c}
          /\ UNCHANGED <<store, suspended>>
    /\ UNCHANGED <<gcRound, targets, request, crashes>>

Fetch(p) ==
    /\ task = "running" /\ task' = "ended"
    /\ \E R \in Response(p) : ProcessResponse(R)

(* Every peer failed or had nothing to send, or the time is over.          *)
TaskFails ==
    /\ task = "running" /\ task' = "ended"
    /\ UNCHANGED <<store, suspended, gcRound, commands, targets, request,
                   crashes>>

(* Only the store and the gc round survive.                                *)
Restart ==
    /\ crashes < MaxCrash /\ crashes' = crashes + 1
    /\ suspended' = {} /\ commands' = {}
    /\ targets' = [o \in Origin |-> 0]
    /\ task' = "none" /\ request' = NoRequest
    /\ UNCHANGED <<store, gcRound>>

Next ==
    \/ \E c \in Certificate : ReceiveBroadcast(c) \/ HandleAncestors(c)
    \/ AdvanceGc \/ HandleKick \/ JoinTask \/ TaskFails \/ Restart
    \/ \E p \in Peer : Fetch(p)

Spec == Init /\ [][Next]_vars

(* The loop of the fetcher runs, a task ends by its timeout, and as the    *)
(* peers are asked in random order, one that has all certificates is again *)
(* and again the first to answer.                                          *)
Fairness ==
    /\ \A c \in Certificate : WF_vars(HandleAncestors(c))
    /\ WF_vars(JoinTask \/ TaskFails)
    /\ \A p \in {x \in Peer : PeerStore[x] = Certificate} : SF_vars(Fetch(p))

FairSpec == Spec /\ Fairness
-----------------------------------------------------------------------------
HasLater(c) == \E d \in store : d.origin = c.origin /\ d.round >= c.round

(* Nothing suspended is forgotten: its command waits, or its origin has a  *)
(* target as high that a task is working on, or a later certificate of its *)
(* origin is stored (and then, as the comments of kickstart say, a fetch   *)
(* starts again when somebody refers to it).                               *)
SuspendedIsCovered ==
    \A c \in suspended :
       \/ c \in commands
       \/ targets[c.origin] >= c.round /\ task # "none"
       \/ HasLater(c)

(* A suspended certificate is accepted, or overtaken by a later one of its *)
(* origin, unless the primary restarts.                                    *)
SuspendedIsFetched ==
    \A c \in Certificate :
       c \in suspended ~> c \notin suspended \/ HasLater(c)

(* Fetching comes to an end: every target is reached or garbage-collected  *)
(* and the task loop stops ("iterations will continue until there are no   *)
(* more target rounds to catch up to").                                    *)
FetchingEnds == []<>(task = "none")
=============================================================================
