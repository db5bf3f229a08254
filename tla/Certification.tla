--------------------------- MODULE Certification ---------------------------
(***************************************************************************)
(* How a Narwhal header becomes a certificate: the Proposer makes at most  *)
(* one header per round and persists it, the Certifier of the author       *)
(* requests votes, the vote handler of every other primary votes at most   *)
(* once per author and round (its last vote is persisted), and a quorum of *)
(* votes makes a certificate.  Primaries crash and restart between any two *)
(* steps and keep only their stores.                                       *)
(*                                                                         *)
(* What other authors do enters as `frontier': the highest round for which *)
(* a primary has stored a quorum of certificates, which grows on its own.  *)
(***************************************************************************)
EXTENDS Committee, Sequences

CONSTANTS
    Author,          \* the authorities whose headers this instance follows
    Payload,         \* what distinguishes two headers of one author and round
    MaxRound,        \* bound: the highest round
    MaxCrash,        \* bound: crashes per primary
    MaxQueue,        \* bound: messages in the channel of parents
    InflightLimit    \* RequestVote RPCs a primary serves at a time per peer

ASSUME CertificationAssumption ==
    /\ Author \in SUBSET Authority
    /\ MaxRound \in Nat
    /\ MaxCrash \in Nat
    /\ MaxQueue \in Nat
    /\ InflightLimit = 1

Honest == Authority \ Byzantine

Round == 0 .. MaxRound

Header == [author : Authority, round : 1 .. MaxRound, payload : Payload]

NoHeader == [round |-> 0]

(* A message of the channel from the synchronizer to the proposer: a       *)
(* quorum of parents of a round, the same read back from the store after a *)
(* restart, or only the signal that the round can be reached.              *)
ParentsMessage == [round : Round, kind : {"quorum", "recovered", "signal"}]

VARIABLES
    round,          \* Proposer.round
    lastParents,    \* whether Proposer.last_parents is non-empty
    latestHeader,   \* opt_latest_header of the proposer's loop
    rxParents,      \* the channel of parents into the proposer
    recovery,       \* the recovery of parents from the store
    frontier,       \* persistent: highest round with a quorum in the store
    lastProposed,   \* persistent: ProposerStore.last_proposed
    tasks,          \* headers with a live propose_header task
    inflight,       \* per voter and author: RequestVote RPCs being served
    voteInfo,       \* persistent: VoteDigestStore, per voter and author
    votes,          \* votes that left a primary
    proposed,       \* history: headers handed to the certifier
    rewound,        \* history: highest round whose stored header gave way to
                    \* one of an earlier round before parents were recovered
    certificates,   \* headers that reached a quorum
    crashes         \* number of crashes of each primary

proposerVars == <<round, lastParents, latestHeader, rxParents, recovery,
                  lastProposed, proposed, rewound>>
voterVars    == <<inflight, voteInfo, votes>>
vars == <<proposerVars, frontier, tasks, voterVars, certificates, crashes>>

TypeOK ==
    /\ round \in [Honest -> Round]
    /\ lastParents \in [Honest -> BOOLEAN]
    /\ latestHeader \in [Honest -> Header \cup {NoHeader}]
    /\ rxParents \in [Honest -> Seq(ParentsMessage)]
    /\ recovery \in [Honest -> {"pending", "sent", "done"}]
    /\ frontier \in [Honest -> Round]
    /\ lastProposed \in [Honest -> Header \cup {NoHeader}]
    /\ tasks \in [Honest -> SUBSET Header]
    /\ inflight \in [Honest -> [Author ->
          SUBSET [header : Header, pc : {"waiting", "signing"}]]]
    /\ voteInfo \in [Honest -> [Author -> Header \cup {NoHeader}]]
    /\ votes \in SUBSET [voter : Honest, header : Header]
    /\ proposed \in SUBSET Header
    /\ rewound \in [Honest -> Round]
    /\ certificates \in SUBSET Header
    /\ crashes \in [Honest -> 0 .. MaxCrash]

Init ==
    /\ round = [a \in Honest |-> 0]
    /\ lastParents = [a \in Honest |-> TRUE]
    /\ latestHeader = [a \in Honest |-> NoHeader]
    /\ rxParents = [a \in Honest |-> <<>>]
    /\ recovery = [a \in Honest |-> "pending"]
    /\ frontier = [a \in Honest |-> 0]
    /\ lastProposed = [a \in Honest |-> NoHeader]
    /\ tasks = [a \in Honest |-> {}]
    /\ inflight = [v \in Honest |-> [a \in Author |-> {}]]
    /\ voteInfo = [v \in Honest |-> [a \in Author |-> NoHeader]]
    /\ votes = {}
    /\ proposed = {}
    /\ rewound = [a \in Honest |-> 0]
    /\ certificates = {}
    /\ crashes = [a \in Honest |-> 0]
-----------------------------------------------------------------------------
(* Parents: the synchronizer's side of the channel.                        *)

(* A quorum of certificates of round r is stored (the environment's        *)
(* certificates): the aggregator sends them to the proposer.               *)
StoreQuorum(a, r) ==
    /\ r > frontier[a]
    /\ Len(rxParents[a]) < MaxQueue
    /\ frontier' = [frontier EXCEPT ![a] = r]
    /\ rxParents' = [rxParents EXCEPT
                        ![a] = Append(@, [round |-> r, kind |-> "quorum"])]
    /\ UNCHANGED <<round, lastParents, latestHeader, recovery, lastProposed,
                   proposed, rewound, tasks, voterVars, certificates, crashes>>

(* A certificate of round r + 1 is received: the proposer is told that     *)
(* round r can be reached, with no parents yet.                            *)
SignalRound(a, r) ==
    /\ Len(rxParents[a]) < MaxQueue
    /\ rxParents' = [rxParents EXCEPT
                        ![a] = Append(@, [round |-> r, kind |-> "signal"])]
    /\ UNCHANGED <<round, lastParents, latestHeader, recovery, lastProposed,
                   proposed, rewound, frontier, tasks, voterVars, certificates,
                   crashes>>

(* The recovery task appends the certificates of the last two rounds of    *)
(* the store to the aggregators.  Of these the newest quorum comes first   *)
(* and is the one that counts: the proposer ignores older parents.         *)
RecoverParents(a) ==
    /\ recovery[a] = "pending"
    /\ Len(rxParents[a]) < MaxQueue
    /\ IF frontier[a] > 0
       THEN /\ recovery' = [recovery EXCEPT ![a] = "sent"]
            /\ rxParents' = [rxParents EXCEPT ![a] =
                   Append(@, [round |-> frontier[a], kind |-> "recovered"])]
       ELSE /\ recovery' = [recovery EXCEPT ![a] = "done"]
            /\ UNCHANGED rxParents
    /\ UNCHANGED <<round, lastParents, latestHeader, lastProposed, proposed,
                   rewound, frontier, tasks, voterVars, certificates, crashes>>
-----------------------------------------------------------------------------
(* The proposer.                                                           *)

(* The parents branch of the loop: a greater round is jumped to, its       *)
(* parents replacing the old ones; a smaller one is ignored; parents of    *)
(* the same round extend the list.                                         *)
ReceiveParents(a) ==
    /\ rxParents[a] # <<>>
    /\ LET m == Head(rxParents[a])  quorum == m.kind # "signal" IN
       /\ round' = [round EXCEPT ![a] = IF m.round > @ THEN m.round ELSE @]
       /\ lastParents' = [lastParents EXCEPT ![a] =
             IF m.round > round[a] THEN quorum
             ELSE @ \/ (m.round = round[a] /\ quorum)]
       /\ recovery' = [recovery EXCEPT ![a] =
             IF m.kind = "recovered" THEN "done" ELSE @]
    /\ rxParents' = [rxParents EXCEPT ![a] = Tail(@)]
    /\ UNCHANGED <<latestHeader, lastProposed, proposed, rewound, frontier, tasks,
                   voterVars, certificates, crashes>>

(* Mutant of CreateNewHeader: the store is not consulted.                  *)
CreateNewHeader_IgnoreStore(a, r, p) ==
    [author |-> a, round |-> r, payload |-> p]

(* create_new_header: the stored header when it is of this round, a new    *)
(* one otherwise.                                                          *)
CreateNewHeader(a, r, p) ==
    IF lastProposed[a].round = r
    THEN lastProposed[a]
    ELSE [author |-> a, round |-> r, payload |-> p]

(* The loop decides to create a header (timers and digests permitting):    *)
(* advance the round, make the header, persist it, send it on.  The header *)
(* reaches the certifier, which spawns a propose_header task for it.  The  *)
(* loop does not wait for the parents that the store holds: after a        *)
(* restart the genesis certificates are parents enough for round 1.        *)
MakeHeader(a, p) ==
    /\ lastParents[a]
    /\ round[a] < MaxRound
    /\ LET h == CreateNewHeader(a, round[a] + 1, p) IN
       /\ lastProposed' = [lastProposed EXCEPT ![a] = h]
       /\ latestHeader' = [latestHeader EXCEPT ![a] = h]
       /\ proposed' = proposed \cup {h}
       /\ tasks' = [tasks EXCEPT ![a] = @ \cup {h}]
       /\ rewound' = IF /\ recovery[a] # "done"
                        /\ lastProposed[a].round > h.round
                        /\ lastProposed[a].round > rewound[a]
                     THEN [rewound EXCEPT ![a] = lastProposed[a].round]
                     ELSE rewound
    /\ round' = [round EXCEPT ![a] = @ + 1]
    /\ lastParents' = [lastParents EXCEPT ![a] = FALSE]
    /\ UNCHANGED <<rxParents, recovery, frontier, voterVars, certificates,
                   crashes>>

(* header_repeat_timer: the latest header is sent to the certifier again.  *)
ResendHeader(a) ==
    /\ latestHeader[a] # NoHeader
    /\ tasks' = [tasks EXCEPT ![a] = @ \cup {latestHeader[a]}]
    /\ UNCHANGED <<proposerVars, frontier, voterVars, certificates, crashes>>
-----------------------------------------------------------------------------
(* The vote handler of voter v, process_request_vote.                      *)

(* The headers whose vote can be requested: those with a live task, and    *)
(* any header of a Byzantine author.  A handler validates that the header  *)
(* comes from its author.                                                  *)
Requested(a) == IF a \in Byzantine
                THEN {h \in Header : h.author = a}
                ELSE tasks[a]

(* Mutant of AdmitRequest: no limit on requests in flight.                 *)
AdmitRequest_NoLimit(v, a) == TRUE

(* The RPC layer admits a request while fewer than InflightLimit requests  *)
(* of the same peer are being served, and refuses it otherwise.            *)
AdmitRequest(v, a) == Cardinality(inflight[v][a]) < InflightLimit

ReceiveRequest(v, h) ==
    /\ h.author # v
    /\ AdmitRequest(v, h.author)
    /\ inflight' = [inflight EXCEPT ![v][h.author] =
                       @ \cup {[header |-> h, pc |-> "waiting"]}]
    /\ UNCHANGED <<proposerVars, frontier, tasks, voteInfo, votes,
                   certificates, crashes>>

(* Checks on parents, batches and clock fail, the answer lists missing     *)
(* parents, or the caller times out and the handler is dropped.            *)
DropRequest(v, a, q) ==
    /\ inflight' = [inflight EXCEPT ![v][a] = @ \ {q}]
    /\ UNCHANGED <<proposerVars, frontier, tasks, voteInfo, votes,
                   certificates, crashes>>

(* Mutants of CheckVoteStore: a vote for another header of the round of    *)
(* the last vote; a vote for an older round.                               *)
CheckVoteStore_AnyHeader(v, a, q) ==
    /\ q.pc = "waiting"
    /\ inflight' = [inflight EXCEPT ![v][a] = @ \ {q}]
    /\ votes' = votes \cup {[voter |-> v, header |-> q.header]}
    /\ UNCHANGED <<proposerVars, frontier, tasks, voteInfo, certificates,
                   crashes>>

CheckVoteStore_OlderRound(v, a, q) ==
    /\ q.pc = "waiting"
    /\ q.header.round # voteInfo[v][a].round
    /\ inflight' = [inflight EXCEPT ![v][a] =
                       (@ \ {q}) \cup {[q EXCEPT !.pc = "signing"]}]
    /\ UNCHANGED <<proposerVars, frontier, tasks, voteInfo, votes,
                   certificates, crashes>>

(* After the header's parents and batches are available, read the last     *)
(* vote for the author.  An older round or another header of the same      *)
(* round is refused, the same header is voted for again, and anything      *)
(* newer goes on to the signature service.                                 *)
CheckVoteStore(v, a, q) ==
    /\ q.pc = "waiting"
    /\ LET h == q.header  last == voteInfo[v][a] IN
       \/ /\ h.round > last.round
          /\ inflight' = [inflight EXCEPT ![v][a] =
                             (@ \ {q}) \cup {[header |-> h, pc |-> "signing"]}]
          /\ UNCHANGED votes
       \/ /\ h.round = last.round
          /\ inflight' = [inflight EXCEPT ![v][a] = @ \ {q}]
          /\ votes' = IF h = last
                      THEN votes \cup {[voter |-> v, header |-> h]}
                      ELSE votes
       \/ /\ h.round < last.round
          /\ inflight' = [inflight EXCEPT ![v][a] = @ \ {q}]
          /\ UNCHANGED votes
    /\ UNCHANGED <<proposerVars, frontier, tasks, voteInfo, certificates,
                   crashes>>

(* The vote is signed: persist it, then answer with it.                    *)
WriteVote(v, a, q) ==
    /\ q.pc = "signing"
    /\ voteInfo' = [voteInfo EXCEPT ![v][a] = q.header]
    /\ votes' = votes \cup {[voter |-> v, header |-> q.header]}
    /\ inflight' = [inflight EXCEPT ![v][a] = @ \ {q}]
    /\ UNCHANGED <<proposerVars, frontier, tasks, certificates, crashes>>
-----------------------------------------------------------------------------
(* The certifier.                                                          *)

(* Everyone whose vote for h the author can hold: itself, the primaries    *)
(* that answered with a vote, and the Byzantine ones.                      *)
Signers(h) == {h.author} \cup {x.voter : x \in {y \in votes : y.header = h}}
                         \cup Byzantine

(* propose_header aggregates a quorum of votes into a certificate.  A task *)
(* that was cancelled but has not noticed yet can still do so.             *)
FormCertificate(h) ==
    /\ h \in Requested(h.author)
    /\ ReachedQuorum(Signers(h))
    /\ certificates' = certificates \cup {h}
    /\ tasks' = IF h.author \in Honest
                THEN [tasks EXCEPT ![h.author] = @ \ {h}]
                ELSE tasks
    /\ UNCHANGED <<proposerVars, frontier, voterVars, crashes>>

(* A propose_header task ends without a certificate: a newer header        *)
(* cancelled it, or every vote request of it failed.                       *)
AbandonHeader(a, h) ==
    /\ h \in tasks[a]
    /\ tasks' = [tasks EXCEPT ![a] = @ \ {h}]
    /\ UNCHANGED <<proposerVars, frontier, voterVars, certificates, crashes>>

(* A primary crashes and restarts: only its stores survive.                *)
Crash(a) ==
    /\ crashes[a] < MaxCrash
    /\ crashes' = [crashes EXCEPT ![a] = @ + 1]
    /\ round' = [round EXCEPT ![a] = 0]
    /\ lastParents' = [lastParents EXCEPT ![a] = TRUE]
    /\ latestHeader' = [latestHeader EXCEPT ![a] = NoHeader]
    /\ rxParents' = [rxParents EXCEPT ![a] = <<>>]
    /\ recovery' = [recovery EXCEPT ![a] = "pending"]
    /\ tasks' = [tasks EXCEPT ![a] = {}]
    /\ inflight' = [inflight EXCEPT ![a] = [b \in Author |-> {}]]
    /\ UNCHANGED <<frontier, lastProposed, proposed, rewound, voteInfo, votes,
                   certificates>>
-----------------------------------------------------------------------------
ProposerStep(a) ==
    \/ \E r \in Round : StoreQuorum(a, r) \/ SignalRound(a, r)
    \/ RecoverParents(a)
    \/ ReceiveParents(a)
    \/ \E p \in Payload : MakeHeader(a, p)
    \/ ResendHeader(a)
    \/ \E h \in tasks[a] : AbandonHeader(a, h)

VoteFor(v, a) ==
    \/ \E h \in Requested(a) : ReceiveRequest(v, h)
    \/ \E q \in inflight[v][a] :
          DropRequest(v, a, q) \/ CheckVoteStore(v, a, q) \/ WriteVote(v, a, q)

VoterStep(v) == \E a \in Author : VoteFor(v, a)

Next ==
    \/ \E a \in Author \cap Honest : ProposerStep(a)
    \/ \E v \in Honest : VoterStep(v)
    \/ \E a \in Author : \E h \in Requested(a) : FormCertificate(h)
    \/ \E a \in Honest : Crash(a)

Spec == Init /\ [][Next]_vars
-----------------------------------------------------------------------------
(* An honest primary never sends votes for two different headers of the    *)
(* same author and round, whatever requests overlap and however often it   *)
(* restarts (process_request_vote with its vote digest store and the limit *)
(* of one RequestVote in flight per peer).                                 *)
VoteOnce ==
    \A x, y \in votes :
       /\ x.voter = y.voter
       /\ x.header.author = y.header.author
       /\ x.header.round = y.header.round
       => x.header = y.header

(* A vote never leaves an honest primary before the vote digest store      *)
(* covers it: the store holds that header or one of a later round, and a   *)
(* handler waiting for a signature is still ahead of the store.            *)
VotesCoveredByStore ==
    /\ \A x \in votes :
          LET last == voteInfo[x.voter][x.header.author] IN
          x.header.round < last.round \/ x.header = last
    /\ \A v \in Honest, a \in Author : \A q \in inflight[v][a] :
          q.pc = "signing" => q.header.round > voteInfo[v][a].round

(* The round of the last vote for an author never decreases, and the vote  *)
(* of a round is never replaced (action property of VoteDigestStore).      *)
VoteStoreMonotonic ==
    [][\A v \in Honest, a \in Author :
          voteInfo'[v][a] = voteInfo[v][a]
          \/ voteInfo'[v][a].round > voteInfo[v][a].round]_vars

(* The proposer of an honest primary never hands two different headers of  *)
(* one round to the certifier, restarts included, with one exception: the  *)
(* rounds up to a stored header that it overwrote with a header of an      *)
(* earlier round while the parents of its store were still to be read      *)
(* back.  create_new_header compares with the last header only, and the    *)
(* loop of the proposer does not wait for those parents; once they have    *)
(* reached it, the exception cannot arise.                                 *)
NoEquivocation ==
    \A g, h \in proposed :
       /\ g.author = h.author
       /\ g.round = h.round
       /\ g.round > rewound[g.author]
       => g = h

(* No two certificates exist for one author and round, for the authors in  *)
(* A: the rule the consensus DAG, keyed by round and author, relies on.    *)
CertificateUniqueOf(A) ==
    \A g, h \in certificates :
       g.author \in A /\ g.author = h.author /\ g.round = h.round => g = h

(* No two certificates exist for one author and round: without exception   *)
(* for a Byzantine author, whatever it sends (process_request_vote and     *)
(* quorum intersection), and for an honest one, whose own signature a vote *)
(* store does not guard, except in the rounds for which its proposer       *)
(* overwrote its stored header before parents were recovered.              *)
CertificateUnique ==
    /\ CertificateUniqueOf(Byzantine)
    /\ \A g, h \in certificates :
          /\ g.author = h.author
          /\ g.round = h.round
          /\ g.author \in Honest /\ g.round > rewound[g.author]
          => g = h
=============================================================================
