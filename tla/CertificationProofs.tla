------------------------ MODULE CertificationProofs ------------------------
(***************************************************************************)
(* Proofs about Certification, for any committee, any payloads, any number *)
(* of rounds and crashes.                                                  *)
(***************************************************************************)
EXTENDS Certification, CommitteeProofs, FiniteSetTheorems

(* Every header is tracked under its author: the live tasks and the stored *)
(* header of an author are its own and were proposed, and a vote handler   *)
(* serves the header of the peer it is counted for.                        *)
Ownership ==
    /\ \A a \in Honest : \A h \in tasks[a] : h.author = a /\ h \in proposed
    /\ \A a \in Honest : /\ latestHeader[a] \in proposed \cup {NoHeader}
                         /\ latestHeader[a] # NoHeader => latestHeader[a].author = a
    /\ \A h \in proposed : h.author \in Honest
    /\ \A a \in Honest : lastProposed[a] # NoHeader => lastProposed[a].author = a
    /\ \A v \in Honest, a \in Author : \A q \in inflight[v][a] :
          q.header.author = a
    /\ \A x \in votes : x.header.author \in Author
    /\ \A h \in certificates : h.author \in Honest => h \in proposed

(* At most one request of a peer is being served.                          *)
OneInflight ==
    \A v \in Honest, a \in Author :
       \A q, r \in inflight[v][a] : q = r

(* The inductive invariant of voting.                                      *)
VoteInv == TypeOK /\ Ownership /\ OneInflight /\ VotesCoveredByStore /\ VoteOnce

USE DEF Honest

(* Headers have an author of the committee and a positive round, which     *)
(* tells them from the absent header of round 0.                           *)
LEMMA HeaderFacts ==
    /\ \A h \in Header \cup {NoHeader} : h.round \in Nat
    /\ \A h \in Header : /\ h.round >= 1 /\ h.round <= MaxRound
                         /\ h.author \in Authority
                         /\ h # NoHeader
    /\ NoHeader.round = 0
BY CertificationAssumption DEF Header, NoHeader

(* The initial state satisfies the invariant of voting.                    *)
LEMMA VoteInvInit == Init => VoteInv
<1> SUFFICES ASSUME Init PROVE VoteInv
  BY Zenon
<1>1. TypeOK
  BY CertificationAssumption DEF Init, TypeOK, Round
<1>2. Ownership /\ OneInflight /\ VotesCoveredByStore /\ VoteOnce
  BY Zenon DEF Init, Ownership, OneInflight, VotesCoveredByStore, VoteOnce
<1>3. QED
  BY <1>1, <1>2, Zenon DEF VoteInv

(* Steps of the proposer and of the certifier leave the voters alone.      *)
LEMMA VoterUnchanged ==
    ASSUME VoteInv, UNCHANGED voterVars
    PROVE  OneInflight' /\ VotesCoveredByStore' /\ VoteOnce'
BY Zenon DEF VoteInv, voterVars, OneInflight, VotesCoveredByStore, VoteOnce

(* The type invariant, action by action.                                   *)
LEMMA ProposerType ==
    ASSUME TypeOK, Ownership, NEW a \in Author \cap (Authority \ Byzantine),
           ProposerStep(a)
    PROVE  TypeOK'
<1> USE CertificationAssumption DEF TypeOK, proposerVars, voterVars
<1>0. ASSUME NEW r \in Round, NEW k \in {"quorum", "recovered", "signal"}
      PROVE  [rxParents EXCEPT ![a] = Append(@, [round |-> r, kind |-> k])]
                \in [Honest -> Seq(ParentsMessage)]
  <2>1. [round |-> r, kind |-> k] \in ParentsMessage
    BY Zenon DEF ParentsMessage
  <2>2. Append(rxParents[a], [round |-> r, kind |-> k]) \in Seq(ParentsMessage)
    BY <2>1
  <2>3. QED
    BY <2>2, Zenon
<1>1. ASSUME NEW r \in Round, StoreQuorum(a, r)
      PROVE  TypeOK'
  BY <1>0, <1>1, Zenon DEF StoreQuorum
<1>2. ASSUME NEW r \in Round, SignalRound(a, r)
      PROVE  TypeOK'
  BY <1>0, <1>2, Zenon DEF SignalRound
<1>3. ASSUME RecoverParents(a)
      PROVE  TypeOK'
  <2>1. CASE frontier[a] > 0
    <3>1. rxParents' \in [Honest -> Seq(ParentsMessage)]
      BY <1>0, <1>3, <2>1, frontier[a] \in Round, Zenon DEF RecoverParents
    <3>2. QED
      BY <1>3, <2>1, <3>1, Zenon DEF RecoverParents
  <2>2. CASE ~(frontier[a] > 0)
    BY <1>3, <2>2, Zenon DEF RecoverParents
  <2>3. QED
    BY <2>1, <2>2, Zenon
<1>4. ASSUME ReceiveParents(a)
      PROVE  TypeOK'
  <2>1. /\ Head(rxParents[a]) \in ParentsMessage
        /\ Tail(rxParents[a]) \in Seq(ParentsMessage)
    BY <1>4 DEF ReceiveParents
  <2>2. round' \in [Honest -> Round] /\ lastParents' \in [Honest -> BOOLEAN]
    BY <1>4, <2>1, Zenon DEF ReceiveParents, ParentsMessage
  <2>3. /\ recovery' \in [Honest -> {"pending", "sent", "done"}]
        /\ rxParents' \in [Honest -> Seq(ParentsMessage)]
    BY <1>4, <2>1, Zenon DEF ReceiveParents
  <2>4. QED
    BY <1>4, <2>2, <2>3, Zenon DEF ReceiveParents
<1>5. ASSUME NEW p \in Payload, MakeHeader(a, p)
      PROVE  TypeOK'
  <2> DEFINE h == CreateNewHeader(a, round[a] + 1, p)
  <2>1. h \in Header
    BY <1>5, HeaderFacts DEF MakeHeader, CreateNewHeader, Header, Round, NoHeader
  <2> HIDE DEF h
  <2>2. round' \in [Honest -> Round]
    BY <1>5 DEF MakeHeader, Round
  <2>3. /\ lastProposed' = [lastProposed EXCEPT ![a] = h]
        /\ latestHeader' = [latestHeader EXCEPT ![a] = h]
        /\ proposed' = proposed \cup {h}
        /\ tasks' = [tasks EXCEPT ![a] = @ \cup {h}]
        /\ \/ rewound' = rewound
           \/ rewound' = [rewound EXCEPT ![a] = lastProposed[a].round]
    BY <1>5, Zenon DEF MakeHeader, h
  <2>4. rewound' \in [Honest -> Round]
    <3>1. lastProposed[a].round \in Round
      BY HeaderFacts DEF Round
    <3>2. QED
      BY <2>3, <3>1, Zenon
  <2>5. QED
    BY <1>5, <2>1, <2>2, <2>3, <2>4 DEF MakeHeader
<1>6. ASSUME ResendHeader(a)
      PROVE  TypeOK'
  BY <1>6, Zenon DEF ResendHeader
<1>7. ASSUME NEW h \in tasks[a], AbandonHeader(a, h)
      PROVE  TypeOK'
  BY <1>7, Zenon DEF AbandonHeader
<1>8. QED
  BY <1>1, <1>2, <1>3, <1>4, <1>5, <1>6, <1>7, Zenon DEF ProposerStep

(* Ownership is kept by the proposer.                                      *)
LEMMA ProposerOwnership ==
    ASSUME TypeOK, Ownership, NEW a \in Author \cap (Authority \ Byzantine),
           ProposerStep(a)
    PROVE  Ownership'
<1> USE DEF TypeOK, Ownership, proposerVars, voterVars
<1>1. ASSUME NEW r \in Round, StoreQuorum(a, r) \/ SignalRound(a, r)
      PROVE  Ownership'
  BY <1>1, Zenon DEF StoreQuorum, SignalRound
<1>2. ASSUME RecoverParents(a) \/ ReceiveParents(a)
      PROVE  Ownership'
  BY <1>2, Zenon DEF RecoverParents, ReceiveParents
<1>3. ASSUME NEW p \in Payload, MakeHeader(a, p)
      PROVE  Ownership'
  <2> DEFINE h == CreateNewHeader(a, round[a] + 1, p)
  <2>1. h.author = a
    BY <1>3 DEF CreateNewHeader, NoHeader, Round
  <2> HIDE DEF h
  <2>2. /\ lastProposed' = [lastProposed EXCEPT ![a] = h]
        /\ latestHeader' = [latestHeader EXCEPT ![a] = h]
        /\ proposed' = proposed \cup {h}
        /\ tasks' = [tasks EXCEPT ![a] = @ \cup {h}]
        /\ UNCHANGED <<voterVars, certificates>>
    BY <1>3, Zenon DEF MakeHeader, h
  <2>3. QED
    BY <2>1, <2>2, Zenon
<1>4. ASSUME ResendHeader(a)
      PROVE  Ownership'
  BY <1>4 DEF ResendHeader
<1>5. ASSUME NEW h \in tasks[a], AbandonHeader(a, h)
      PROVE  Ownership'
  BY <1>5, Zenon DEF AbandonHeader
<1>6. QED
  BY <1>1, <1>2, <1>3, <1>4, <1>5, Zenon DEF ProposerStep

(* What a handler works on.                                                *)
Request == [header : Header, pc : {"waiting", "signing"}]

(* A step of a vote handler touches the requests it serves, its store and  *)
(* the votes, so their types and their authors are all there is to show.   *)
LEMMA VoterFrame ==
    ASSUME VoteInv, UNCHANGED <<proposerVars, frontier, tasks, certificates, crashes>>,
           inflight' \in [Honest -> [Author -> SUBSET Request]],
           voteInfo' \in [Honest -> [Author -> Header \cup {NoHeader}]],
           votes' \in SUBSET [voter : Honest, header : Header],
           \A w \in Honest, b \in Author : \A r \in inflight'[w][b] : r.header.author = b,
           \A x \in votes' : x.header.author \in Author
    PROVE  TypeOK' /\ Ownership'
<1>1. TypeOK'
  BY Zenon DEF VoteInv, TypeOK, proposerVars, Request
<1>2. Ownership'
  BY Zenon DEF VoteInv, Ownership, proposerVars
<1>3. QED
  BY <1>1, <1>2, Zenon

(* The same for a step that ends the service of a request.                 *)
LEMMA RequestEnds ==
    ASSUME VoteInv, NEW v \in Honest, NEW a \in Author,
           inflight' = [inflight EXCEPT ![v][a] = {}]
    PROVE  /\ inflight' \in [Honest -> [Author -> SUBSET Request]]
           /\ \A w \in Honest, b \in Author : inflight'[w][b] \subseteq inflight[w][b]
           /\ inflight'[v][a] = {}
           /\ \A w \in Honest, b \in Author : \A r \in inflight'[w][b] : r.header.author = b
           /\ OneInflight'
<1>1. inflight \in [Honest -> [Author -> SUBSET Request]]
  BY Zenon DEF VoteInv, TypeOK, Request
<1>2. inflight' \in [Honest -> [Author -> SUBSET Request]] /\ inflight'[v][a] = {}
      /\ \A w \in Honest, b \in Author : inflight'[w][b] \subseteq inflight[w][b]
  BY <1>1, Zenon
<1>3. \A w \in Honest, b \in Author : \A r \in inflight'[w][b] : r.header.author = b
  BY <1>2 DEF VoteInv, Ownership
<1>4. OneInflight'
  BY <1>2 DEF VoteInv, OneInflight
<1>5. QED
  BY <1>2, <1>3, <1>4, Zenon

(* The same for a step that starts the service of a request or brings it   *)
(* to the signature.                                                       *)
LEMMA RequestMoves ==
    ASSUME VoteInv, NEW v \in Honest, NEW a \in Author, NEW r \in Request,
           r.header.author = a,
           inflight'[v][a] = {r},
           \A w \in Honest, b \in Author :
              w # v \/ b # a => inflight'[w][b] = inflight[w][b]
    PROVE  /\ \A w \in Honest, b \in Author : \A q \in inflight'[w][b] : q.header.author = b
           /\ OneInflight'
<1>1. \A w \in Honest, b \in Author : \A q \in inflight'[w][b] : q.header.author = b
  BY DEF VoteInv, Ownership
<1>2. OneInflight'
  BY DEF VoteInv, OneInflight
<1>3. QED
  BY <1>1, <1>2, Zenon

(* What is known of a request that is served.                              *)
LEMMA Served ==
    ASSUME VoteInv, NEW v \in Honest, NEW a \in Author, NEW q \in inflight[v][a]
    PROVE  /\ q \in Request /\ q.header \in Header /\ q.header.author = a
           /\ q.header.author \in Author /\ inflight[v][a] = {q}
           /\ voteInfo[v][a] \in Header \cup {NoHeader}
<1>1. inflight \in [Honest -> [Author -> SUBSET Request]]
      /\ voteInfo \in [Honest -> [Author -> Header \cup {NoHeader}]]
  BY Zenon DEF VoteInv, TypeOK, Request
<1>2. q \in Request /\ q.header \in Header /\ voteInfo[v][a] \in Header \cup {NoHeader}
  BY <1>1 DEF Request
<1>3. q.header.author = a /\ q.header.author \in Author
  BY Zenon DEF VoteInv, Ownership
<1>4. inflight[v][a] = {q}
  BY DEF VoteInv, OneInflight
<1>5. QED
  BY <1>2, <1>3, <1>4, Zenon

(* The types of what the handlers change, and what covers a vote.          *)
LEMMA VoteTypes ==
    ASSUME VoteInv
    PROVE  /\ inflight \in [Honest -> [Author -> SUBSET Request]]
           /\ voteInfo \in [Honest -> [Author -> Header \cup {NoHeader}]]
           /\ votes \in SUBSET [voter : Honest, header : Header]
           /\ \A x \in votes : /\ x.header.author \in Author /\ x.voter \in Honest
                               /\ x.header \in Header
           /\ \A x \in votes :
                 \/ x.header.round < voteInfo[x.voter][x.header.author].round
                 \/ x.header = voteInfo[x.voter][x.header.author]
           /\ \A v \in Honest, a \in Author : \A q \in inflight[v][a] :
                 q.pc = "signing" => q.header.round > voteInfo[v][a].round
BY Zenon DEF VoteInv, TypeOK, Ownership, VotesCoveredByStore, Request

(* The steps of a vote handler keep the invariant of voting.               *)
LEMMA VoterInv ==
    ASSUME VoteInv, NEW v \in Authority \ Byzantine, VoterStep(v)
    PROVE  VoteInv'
<1>1. PICK a \in Author :
         \/ \E h \in Requested(a) : ReceiveRequest(v, h)
         \/ \E q \in inflight[v][a] :
               \/ DropRequest(v, a, q)
               \/ CheckVoteStore(v, a, q)
               \/ WriteVote(v, a, q)
  BY Zenon DEF VoterStep, VoteFor
<1>2. ASSUME NEW h \in Requested(a), ReceiveRequest(v, h)
      PROVE  VoteInv'
  <2>1. h \in Header /\ h.author = a
    <3>1. CASE a \in Byzantine
      BY <3>1, Zenon DEF Requested
    <3>2. CASE a \notin Byzantine
      BY <3>2, CertificationAssumption, Zenon DEF Requested, VoteInv, TypeOK,
         Ownership
    <3>3. QED
      BY <3>1, <3>2, Zenon
  <2>2. inflight[v][a] = {}
    <3>1. ASSUME NEW q \in inflight[v][a]
          PROVE  FALSE
      <4>1. inflight[v][a] = {q}
        BY Served
      <4>2. Cardinality(inflight[v][a]) = 1
        BY <4>1, FS_Singleton, Zenon
      <4>3. QED
        BY <1>2, <2>1, <4>2, CertificationAssumption DEF ReceiveRequest, AdmitRequest
    <3>2. QED
      BY <3>1, Zenon
  <2> DEFINE r == [header |-> h, pc |-> "waiting"]
  <2>3. /\ inflight' = [inflight EXCEPT ![v][a] = {r}]
        /\ UNCHANGED <<votes, voteInfo>>
        /\ UNCHANGED <<proposerVars, frontier, tasks, certificates, crashes>>
    BY <1>2, <2>1, <2>2, Zenon DEF ReceiveRequest
  <2>4. r \in Request /\ r.header.author = a /\ r.pc = "waiting"
    BY <2>1, Zenon DEF Request
  <2> HIDE DEF r
  <2>5. /\ inflight' \in [Honest -> [Author -> SUBSET Request]]
        /\ inflight'[v][a] = {r}
        /\ \A w \in Honest, b \in Author :
              w # v \/ b # a => inflight'[w][b] = inflight[w][b]
    <3>1. {r} \in SUBSET Request /\ inflight \in [Honest -> [Author -> SUBSET Request]]
      BY <2>4, VoteTypes, Zenon
    <3>2. QED
      BY <2>3, <3>1, Zenon
  <2>5a. /\ \A w \in Honest, b \in Author : \A q \in inflight'[w][b] : q.header.author = b
         /\ OneInflight'
    BY <2>4, <2>5, RequestMoves
  <2>6. TypeOK' /\ Ownership'
    BY <2>3, <2>5, <2>5a, VoteTypes, VoterFrame, Zenon
  <2>7. VotesCoveredByStore'
    BY <2>3, <2>4, <2>5, VoteTypes DEF VotesCoveredByStore
  <2>8. VoteOnce'
    BY <2>3, Zenon DEF VoteInv, VoteOnce
  <2>9. QED
    BY <2>5a, <2>6, <2>7, <2>8, Zenon DEF VoteInv
<1>3. ASSUME NEW q \in inflight[v][a], DropRequest(v, a, q)
      PROVE  VoteInv'
  <2>1. inflight[v][a] = {q}
    BY Served
  <2>2. /\ inflight' = [inflight EXCEPT ![v][a] = {}]
        /\ UNCHANGED <<votes, voteInfo>>
        /\ UNCHANGED <<proposerVars, frontier, tasks, certificates, crashes>>
    BY <1>3, <2>1, Zenon DEF DropRequest
  <2>3. /\ inflight' \in [Honest -> [Author -> SUBSET Request]]
        /\ \A w \in Honest, b \in Author : inflight'[w][b] \subseteq inflight[w][b]
        /\ \A w \in Honest, b \in Author : \A r \in inflight'[w][b] : r.header.author = b
        /\ OneInflight'
    BY <2>2, RequestEnds, Zenon
  <2>4. TypeOK' /\ Ownership'
    BY <2>2, <2>3, VoteTypes, VoterFrame, Zenon
  <2>5. VotesCoveredByStore'
    BY <2>2, <2>3, VoteTypes, Zenon DEF VotesCoveredByStore
  <2>6. VoteOnce'
    BY <2>2, Zenon DEF VoteInv, VoteOnce
  <2>7. QED
    BY <2>3, <2>4, <2>5, <2>6, Zenon DEF VoteInv
<1>4. ASSUME NEW q \in inflight[v][a], CheckVoteStore(v, a, q)
      PROVE  VoteInv'
  <2> DEFINE h == q.header  r == [header |-> h, pc |-> "signing"]
  <2>1. /\ h \in Header /\ h.author = a /\ a \in Author /\ inflight[v][a] = {q}
        /\ voteInfo[v][a] \in Header \cup {NoHeader}
    BY Served
  <2>2. /\ UNCHANGED voteInfo
        /\ UNCHANGED <<proposerVars, frontier, tasks, certificates, crashes>>
    BY <1>4, Zenon DEF CheckVoteStore
  <2>3. \/ /\ h.round > voteInfo[v][a].round
           /\ inflight' = [inflight EXCEPT ![v][a] = {r}]
           /\ UNCHANGED votes
        \/ /\ inflight' = [inflight EXCEPT ![v][a] = {}]
           /\ \/ UNCHANGED votes
              \/ /\ h = voteInfo[v][a]
                 /\ votes' = votes \cup {[voter |-> v, header |-> h]}
    BY <1>4, <2>1, Zenon DEF CheckVoteStore
  <2>4. r \in Request /\ r.header = h /\ r.header.author = a
    BY <2>1, Zenon DEF Request
  <2> HIDE DEF h, r
  <2>5. CASE /\ h.round > voteInfo[v][a].round
             /\ inflight' = [inflight EXCEPT ![v][a] = {r}]
             /\ UNCHANGED votes
    <3>1. /\ inflight' \in [Honest -> [Author -> SUBSET Request]]
          /\ inflight'[v][a] = {r}
          /\ \A w \in Honest, b \in Author :
                w # v \/ b # a => inflight'[w][b] = inflight[w][b]
      <4>1. {r} \in SUBSET Request /\ inflight \in [Honest -> [Author -> SUBSET Request]]
        BY <2>4, VoteTypes, Zenon
      <4>2. QED
        BY <2>5, <4>1, Zenon
    <3>1a. /\ \A w \in Honest, b \in Author : \A x \in inflight'[w][b] : x.header.author = b
           /\ OneInflight'
      BY <2>4, <3>1, RequestMoves
    <3>2. TypeOK' /\ Ownership'
      BY <2>2, <2>5, <3>1, <3>1a, VoteTypes, VoterFrame, Zenon
    <3>3. VotesCoveredByStore'
      BY <2>2, <2>4, <2>5, <3>1, VoteTypes DEF VotesCoveredByStore
    <3>4. VoteOnce'
      BY <2>5, Zenon DEF VoteInv, VoteOnce
    <3>5. QED
      BY <3>1a, <3>2, <3>3, <3>4, Zenon DEF VoteInv
  <2>6. CASE /\ inflight' = [inflight EXCEPT ![v][a] = {}]
             /\ \/ UNCHANGED votes
                \/ /\ h = voteInfo[v][a]
                   /\ votes' = votes \cup {[voter |-> v, header |-> h]}
    <3>1. /\ inflight' \in [Honest -> [Author -> SUBSET Request]]
          /\ \A w \in Honest, b \in Author : inflight'[w][b] \subseteq inflight[w][b]
          /\ \A w \in Honest, b \in Author : \A x \in inflight'[w][b] : x.header.author = b
          /\ OneInflight'
      BY <2>6, RequestEnds, Zenon
    <3>2. \A x \in votes' : \/ x \in votes
                            \/ x.voter = v /\ x.header = h /\ h = voteInfo[v][a]
      BY <2>6
    <3>3. votes' \in SUBSET [voter : Honest, header : Header]
          /\ \A x \in votes' : x.header.author \in Author
      <4>1. [voter |-> v, header |-> h] \in [voter : Honest, header : Header]
        BY <2>1, Zenon
      <4>2. votes' \in SUBSET [voter : Honest, header : Header]
        BY <2>6, <4>1, VoteTypes, Zenon
      <4>3. QED
        BY <2>1, <3>2, <4>2, VoteTypes, Zenon
    <3>4. TypeOK' /\ Ownership'
      BY <2>2, <3>1, <3>3, VoteTypes, VoterFrame, Zenon
    <3>5. VotesCoveredByStore'
      BY <2>1, <2>2, <3>1, <3>2, VoteTypes, Zenon DEF VotesCoveredByStore
    <3>6. ASSUME NEW x \in votes, x.voter = v, x.header.author = a,
                 x.header.round = h.round, h = voteInfo[v][a]
          PROVE  x.header = h
      <4>1. x.header.round < h.round \/ x.header = h
        BY <3>6, VoteTypes, Zenon
      <4>2. x.header.round \in Nat /\ h.round \in Nat
        BY <2>1, VoteTypes, HeaderFacts, Zenon
      <4>3. QED
        BY <3>6, <4>1, <4>2
    <3>7. VoteOnce'
      <4>1. VoteOnce
        BY Zenon DEF VoteInv
      <4>2. QED
        BY <2>1, <3>2, <3>6, <4>1, Zenon DEF VoteOnce
    <3>8. QED
      BY <3>1, <3>4, <3>5, <3>7, Zenon DEF VoteInv
  <2>7. QED
    BY <2>3, <2>5, <2>6, Zenon
<1>5. ASSUME NEW q \in inflight[v][a], WriteVote(v, a, q)
      PROVE  VoteInv'
  <2> DEFINE h == q.header
  <2>1. /\ h \in Header /\ h.author = a /\ a \in Author /\ inflight[v][a] = {q}
        /\ voteInfo[v][a] \in Header \cup {NoHeader}
    BY Served
  <2>2. /\ voteInfo' = [voteInfo EXCEPT ![v][a] = h]
        /\ votes' = votes \cup {[voter |-> v, header |-> h]}
        /\ inflight' = [inflight EXCEPT ![v][a] = {}]
        /\ UNCHANGED <<proposerVars, frontier, tasks, certificates, crashes>>
    BY <1>5, <2>1, Zenon DEF WriteVote
  <2>2a. h.round > voteInfo[v][a].round
    BY <1>5, VoteTypes, Zenon DEF WriteVote
  <2> HIDE DEF h
  <2>3. /\ inflight' \in [Honest -> [Author -> SUBSET Request]]
        /\ \A w \in Honest, b \in Author : inflight'[w][b] \subseteq inflight[w][b]
        /\ inflight'[v][a] = {}
        /\ \A w \in Honest, b \in Author : \A r \in inflight'[w][b] : r.header.author = b
        /\ OneInflight'
    BY <2>2, RequestEnds, Zenon
  <2>4. /\ voteInfo' \in [Honest -> [Author -> Header \cup {NoHeader}]]
        /\ \A w \in Honest, b \in Author :
              voteInfo'[w][b] = IF w = v /\ b = a THEN h ELSE voteInfo[w][b]
    BY <2>1, <2>2, VoteTypes, Zenon
  <2>5. \A x \in votes' : x \in votes \/ (x.voter = v /\ x.header = h)
    BY <2>2
  <2>6. votes' \in SUBSET [voter : Honest, header : Header]
        /\ \A x \in votes' : x.header.author \in Author /\ x.voter \in Honest
    <3>1. [voter |-> v, header |-> h] \in [voter : Honest, header : Header]
      BY <2>1, Zenon
    <3>2. votes' \in SUBSET [voter : Honest, header : Header]
      BY <2>2, <3>1, VoteTypes, Zenon
    <3>3. QED
      BY <2>1, <2>5, <3>2, VoteTypes, Zenon
  <2>7. TypeOK' /\ Ownership'
    BY <2>2, <2>3, <2>4, <2>6, VoterFrame, Zenon
  <2>8. ASSUME NEW x \in votes, x.voter = v, x.header.author = a
        PROVE  x.header.round < h.round
    <3>1. x.header.round < voteInfo[v][a].round \/ x.header = voteInfo[v][a]
      BY <2>8, VoteTypes, Zenon
    <3>2. x.header.round \in Nat /\ h.round \in Nat /\ voteInfo[v][a].round \in Nat
      BY <2>1, VoteTypes, HeaderFacts, Zenon
    <3>3. QED
      BY <2>2a, <3>1, <3>2
  <2>9. ASSUME NEW x \in votes'
        PROVE  \/ x.header.round < voteInfo'[x.voter][x.header.author].round
               \/ x.header = voteInfo'[x.voter][x.header.author]
    <3>1. CASE x.voter = v /\ x.header.author = a
      BY <2>4, <2>5, <2>8, <3>1, Zenon
    <3>2. CASE ~(x.voter = v /\ x.header.author = a)
      <4>1. x \in votes
        BY <2>1, <2>5, <3>2, Zenon
      <4>2. voteInfo'[x.voter][x.header.author] = voteInfo[x.voter][x.header.author]
        BY <2>4, <2>6, <3>2, Zenon
      <4>3. QED
        BY <4>1, <4>2, VoteTypes, Zenon
    <3>3. QED
      BY <3>1, <3>2, Zenon
  <2>10. ASSUME NEW w \in Honest, NEW b \in Author, NEW r \in inflight'[w][b],
                r.pc = "signing"
         PROVE  r.header.round > voteInfo'[w][b].round
    <3>1. r \in inflight[w][b] /\ ~(w = v /\ b = a)
      BY <2>3, Zenon
    <3>2. voteInfo'[w][b] = voteInfo[w][b]
      BY <2>4, <3>1, Zenon
    <3>3. QED
      BY <2>10, <3>1, <3>2, VoteTypes, Zenon
  <2>11. VotesCoveredByStore'
    BY <2>9, <2>10, Zenon DEF VotesCoveredByStore
  <2>12. VoteOnce'
    <3>1. ASSUME NEW x \in votes, x.voter = v, x.header.author = a,
                 x.header.round = h.round
          PROVE  FALSE
      <4>1. x.header.round < h.round /\ h.round \in Nat
        BY <2>1, <2>8, <3>1, HeaderFacts, Zenon
      <4>2. QED
        BY <3>1, <4>1
    <3>2. VoteOnce
      BY Zenon DEF VoteInv
    <3>3. QED
      BY <2>1, <2>5, <3>1, <3>2, Zenon DEF VoteOnce
  <2>13. QED
    BY <2>3, <2>7, <2>11, <2>12, Zenon DEF VoteInv
<1>6. QED
  BY <1>1, <1>2, <1>3, <1>4, <1>5, Zenon

(* Every step keeps the invariant of voting.                               *)
LEMMA VoteInvStep == VoteInv /\ [Next]_vars => VoteInv'
<1> SUFFICES ASSUME VoteInv, [Next]_vars
             PROVE  VoteInv'
  BY Zenon
<1>1. ASSUME NEW a \in Author \cap (Authority \ Byzantine), ProposerStep(a)
      PROVE  VoteInv'
  <2>1. UNCHANGED voterVars
    BY <1>1, Zenon DEF ProposerStep, StoreQuorum, SignalRound, RecoverParents,
       ReceiveParents, MakeHeader, ResendHeader, AbandonHeader
  <2>2. QED
    BY <1>1, <2>1, ProposerType, ProposerOwnership, VoterUnchanged, Zenon DEF
       VoteInv
<1>2. ASSUME NEW v \in Authority \ Byzantine, VoterStep(v)
      PROVE  VoteInv'
  BY <1>2, VoterInv, Zenon
<1>3. ASSUME NEW a \in Author, NEW h \in Requested(a), FormCertificate(h)
      PROVE  VoteInv'
  <2>1. h \in Header
    BY <1>3, CertificationAssumption, Zenon DEF Requested, VoteInv, TypeOK
  <2>2. UNCHANGED voterVars
    BY <1>3, Zenon DEF FormCertificate
  <2>3. TypeOK'
    BY <1>3, <2>1, Zenon DEF FormCertificate, VoteInv, TypeOK, proposerVars,
       voterVars
  <2>4. Ownership'
    BY <1>3, <2>1 DEF FormCertificate, Requested, VoteInv, TypeOK, Ownership,
       proposerVars, voterVars
  <2>5. QED
    BY <2>2, <2>3, <2>4, VoterUnchanged, Zenon DEF VoteInv
<1>4. ASSUME NEW a \in Authority \ Byzantine, Crash(a)
      PROVE  VoteInv'
  <2>1. TypeOK'
    BY <1>4, CertificationAssumption DEF Crash, VoteInv, TypeOK, Round
  <2>2. Ownership' /\ OneInflight'
    BY <1>4 DEF Crash, VoteInv, TypeOK, Ownership, OneInflight
  <2>3. VotesCoveredByStore' /\ VoteOnce'
    <3>1. /\ UNCHANGED <<votes, voteInfo>>
          /\ \A v \in Honest, b \in Author : inflight'[v][b] \subseteq inflight[v][b]
      BY <1>4, Zenon DEF Crash, VoteInv, TypeOK
    <3>2. QED
      BY <3>1, Zenon DEF VoteInv, VotesCoveredByStore, VoteOnce
  <2>4. QED
    BY <2>1, <2>2, <2>3, Zenon DEF VoteInv
<1>5. CASE UNCHANGED vars
  <2>1. TypeOK' /\ Ownership'
    BY <1>5, Zenon DEF vars, VoteInv, TypeOK, Ownership, proposerVars, voterVars
  <2>2. QED
    BY <1>5, <2>1, VoterUnchanged, Zenon DEF vars, VoteInv
<1>6. QED
  BY <1>1, <1>2, <1>3, <1>4, <1>5, Zenon DEF Next

(* Votes are safe in every behaviour: the type invariant, at most one vote *)
(* per author and round by every honest primary, and no vote that its      *)
(* store does not cover, for any committee and any number of crashes.      *)
THEOREM VoteSafety == Spec => [](TypeOK /\ VoteOnce /\ VotesCoveredByStore)
<1>1. Spec => []VoteInv
  BY VoteInvInit, VoteInvStep, PTL DEF Spec
<1>2. VoteInv => TypeOK /\ VoteOnce /\ VotesCoveredByStore
  BY Zenon DEF VoteInv
<1>3. QED
  BY <1>1, <1>2, PTL

(* The vote digest store of an honest primary only moves to later rounds:  *)
(* WriteVote, its only writer, runs behind the check of the round, and     *)
(* nothing can move the store between the two.                             *)
THEOREM VoteStoreMovesOn == Spec => VoteStoreMonotonic
<1> DEFINE Monotonic == \A v \in Honest, a \in Author :
               voteInfo'[v][a] = voteInfo[v][a]
               \/ voteInfo'[v][a].round > voteInfo[v][a].round
<1>1. ASSUME VoteInv, Next PROVE Monotonic
  <2>1. ASSUME NEW v \in Honest, VoterStep(v) PROVE Monotonic
    <3>1. PICK a \in Author :
             \/ UNCHANGED voteInfo
             \/ \E q \in inflight[v][a] : WriteVote(v, a, q)
      BY <2>1, Zenon DEF VoterStep, VoteFor, ReceiveRequest, DropRequest,
         CheckVoteStore
    <3>2. ASSUME NEW q \in inflight[v][a], WriteVote(v, a, q) PROVE Monotonic
      <4>1. q.header.round > voteInfo[v][a].round
        BY <1>1, <3>2, VoteTypes, Zenon DEF WriteVote
      <4>2. /\ voteInfo'[v][a] = q.header
            /\ \A w \in Honest, b \in Author :
                  w # v \/ b # a => voteInfo'[w][b] = voteInfo[w][b]
        BY <1>1, <3>2, VoteTypes, Zenon DEF WriteVote
      <4>3. QED
        BY <4>1, <4>2, Zenon
    <3>3. QED
      BY <3>1, <3>2, Zenon
  <2>2. ASSUME NEW a \in Author \cap Honest, ProposerStep(a) PROVE UNCHANGED voteInfo
    BY <2>2, Zenon DEF ProposerStep, StoreQuorum, SignalRound, RecoverParents,
       ReceiveParents, MakeHeader, ResendHeader, AbandonHeader, voterVars
  <2>3. ASSUME NEW h, FormCertificate(h) PROVE UNCHANGED voteInfo
    BY <2>3, Zenon DEF FormCertificate, voterVars
  <2>4. ASSUME NEW a \in Honest, Crash(a) PROVE UNCHANGED voteInfo
    BY <2>4, Zenon DEF Crash
  <2>5. QED
    BY <1>1, <2>1, <2>2, <2>3, <2>4, Zenon DEF Next
<1>2. Spec => []VoteInv
  BY VoteInvInit, VoteInvStep, PTL DEF Spec
<1>3. VoteInv /\ [Next]_vars => [Monotonic]_vars
  BY <1>1, Zenon
<1>4. QED
  BY <1>2, <1>3, PTL DEF Spec, VoteStoreMonotonic
-----------------------------------------------------------------------------
(* A certificate is backed by a quorum of votes that were really sent.     *)
QuorumInv == \A h \in certificates : ReachedQuorum(Signers(h))

(* Only members of the committee sign.                                     *)
LEMMA SignersAuthority ==
    ASSUME TypeOK, NEW h \in Header
    PROVE  Signers(h) \in SUBSET Authority
<1>1. h.author \in Authority
  BY HeaderFacts, Zenon
<1>2. \A x \in votes : x.voter \in Authority
  BY Zenon DEF TypeOK
<1>3. Byzantine \subseteq Authority
  BY CommitteeAssumption, Zenon
<1>4. QED
  BY <1>1, <1>2, <1>3, Zenon DEF Signers

(* Votes are never withdrawn, so quorums stay quorums.                     *)
LEMMA QuorumInvStep == VoteInv /\ VoteInv' /\ QuorumInv /\ [Next]_vars => QuorumInv'
<1> SUFFICES ASSUME VoteInv, VoteInv', QuorumInv, [Next]_vars
             PROVE  QuorumInv'
  BY Zenon
<1>1. /\ votes \subseteq votes'
      /\ \A h \in certificates' \ certificates : ReachedQuorum(Signers(h))
  <2>1. ASSUME NEW a \in Author \cap (Authority \ Byzantine), ProposerStep(a)
        PROVE  UNCHANGED <<votes, certificates>>
    BY <2>1, Zenon DEF ProposerStep, StoreQuorum, SignalRound, RecoverParents,
       ReceiveParents, MakeHeader, ResendHeader, AbandonHeader, voterVars
  <2>2. ASSUME NEW v \in Authority \ Byzantine, VoterStep(v)
        PROVE  votes \subseteq votes' /\ UNCHANGED certificates
    BY <2>2, Zenon DEF VoterStep, VoteFor, ReceiveRequest, DropRequest,
       CheckVoteStore, WriteVote
  <2>3. ASSUME NEW h, FormCertificate(h)
        PROVE  /\ UNCHANGED votes
               /\ \A g \in certificates' \ certificates :
                     ReachedQuorum(Signers(g))
    BY <2>3, Zenon DEF FormCertificate, voterVars
  <2>4. ASSUME NEW a \in Authority \ Byzantine, Crash(a)
        PROVE  UNCHANGED <<votes, certificates>>
    BY <2>4, Zenon DEF Crash
  <2>5. CASE UNCHANGED vars
    BY <2>5, Zenon DEF vars, voterVars
  <2>6. QED
    BY <2>1, <2>2, <2>3, <2>4, <2>5, Zenon DEF Next
<1>3. ASSUME NEW h \in certificates'
      PROVE  ReachedQuorum(Signers(h)')
  <2>1. ReachedQuorum(Signers(h))
    BY <1>1, Zenon DEF QuorumInv
  <2>2. h \in Header
    BY Zenon DEF VoteInv, TypeOK
  <2>3. Signers(h) \subseteq Signers(h)'
    BY <1>1, Zenon DEF Signers
  <2>4. Signers(h) \in SUBSET Authority /\ Signers(h)' \in SUBSET Authority
    <3>1. h.author \in Authority
      BY <2>2, HeaderFacts, Zenon
    <3>2. \A x \in votes' : x.voter \in Authority
      BY Zenon DEF VoteInv, TypeOK
    <3>3. Byzantine \subseteq Authority
      BY CommitteeAssumption, Zenon
    <3>4. Signers(h)' \in SUBSET Authority
      BY <3>1, <3>2, <3>3, Zenon DEF Signers
    <3>5. QED
      BY <2>2, <3>4, SignersAuthority, Zenon DEF VoteInv
  <2>5. StakeOf(Signers(h)) <= StakeOf(Signers(h)')
    BY <2>3, <2>4, StakeMonotone, Zenon
  <2>6. /\ StakeOf(Signers(h)) \in Nat /\ StakeOf(Signers(h)') \in Nat
        /\ QuorumThreshold \in Int
    BY <2>4, StakeSum DEF QuorumThreshold, TotalStake
  <2>7. QED
    BY <2>1, <2>5, <2>6 DEF ReachedQuorum
<1>4. QED
  BY <1>3, Zenon DEF QuorumInv

(* Two quorums for headers of one Byzantine author share an honest voter,  *)
(* which voted only once.                                                  *)
LEMMA QuorumUnique == VoteInv /\ QuorumInv => CertificateUniqueOf(Byzantine)
<1> SUFFICES ASSUME VoteInv, QuorumInv,
                    NEW g \in certificates, NEW h \in certificates,
                    g.author \in Byzantine, g.author = h.author,
                    g.round = h.round
             PROVE  g = h
  BY Zenon DEF CertificateUniqueOf
<1>1. g \in Header /\ h \in Header
  BY Zenon DEF VoteInv, TypeOK
<1>2. PICK v \in Signers(g) \cap Signers(h) : v \notin Byzantine
  BY <1>1, QuorumIntersection, SignersAuthority, Zenon DEF QuorumInv, VoteInv
<1>3. /\ \E x \in votes : x.voter = v /\ x.header = g
      /\ \E y \in votes : y.voter = v /\ y.header = h
  BY <1>2, Zenon DEF Signers
<1>4. QED
  BY <1>3, Zenon DEF VoteInv, VoteOnce

(* Whatever a Byzantine author sends and however primaries crash, at most  *)
(* one of its headers of a round is ever certified.                        *)
THEOREM ByzantineCertificateUnique == Spec => []CertificateUniqueOf(Byzantine)
<1>1. Init => QuorumInv
  BY Zenon DEF Init, QuorumInv
<1>2. Spec => [](VoteInv /\ QuorumInv)
  BY <1>1, VoteInvInit, VoteInvStep, QuorumInvStep, PTL DEF Spec
<1>3. QED
  BY <1>2, QuorumUnique, PTL
-----------------------------------------------------------------------------
(* The proposer: an honest primary does not equivocate above the rounds    *)
(* for which it overwrote its stored header before it had its parents.     *)

(* The stored header is the newest one proposed, but for those rounds.  It *)
(* is at most one round above the stored quorums, so the parents that are  *)
(* read back bring the proposer within one round of it: from then on a     *)
(* header never replaces the stored one of a later round.                  *)
StoredIsNewest ==
    \A a \in Honest : \A h \in proposed :
       h.author = a => \/ h.round < lastProposed[a].round
                       \/ h = lastProposed[a]
                       \/ h.round <= rewound[a]

CaughtUp(a) ==
    /\ lastProposed[a].round <= frontier[a] + 1
    /\ lastParents[a] => round[a] <= frontier[a]
    /\ \A i \in 1 .. Len(rxParents[a]) :
          rxParents[a][i].kind # "signal" => rxParents[a][i].round <= frontier[a]
    /\ recovery[a] # "done" =>
          \A i \in 1 .. Len(rxParents[a]) :
             rxParents[a][i].kind = "recovered"
                => \/ lastProposed[a].round <= rxParents[a][i].round + 1
                   \/ lastProposed[a].round <= round[a] + 1
    /\ recovery[a] = "done" => lastProposed[a].round <= round[a] + 1

ProposerCaughtUp == \A a \in Honest : CaughtUp(a)

ProposalInv == StoredIsNewest /\ ProposerCaughtUp /\ NoEquivocation

(* It holds when every proposer starts for the first time.                 *)
LEMMA ProposalInvInit == Init => ProposalInv
BY DEF Init, ProposalInv, StoredIsNewest, ProposerCaughtUp, CaughtUp,
   NoEquivocation, NoHeader

(* A step that concerns the proposer of a disturbs only a's part.          *)
LEMMA CaughtUpLocal ==
    ASSUME ProposerCaughtUp, NEW a \in Honest, CaughtUp(a)',
           \A b \in Honest \ {a} :
              /\ lastProposed'[b] = lastProposed[b] /\ frontier'[b] = frontier[b]
              /\ lastParents'[b] = lastParents[b] /\ round'[b] = round[b]
              /\ rxParents'[b] = rxParents[b] /\ recovery'[b] = recovery[b]
    PROVE  ProposerCaughtUp'
<1>1. ASSUME NEW b \in Honest, b # a
      PROVE  CaughtUp(b)'
  BY <1>1 DEF ProposerCaughtUp, CaughtUp
<1>2. QED
  BY <1>1, Zenon DEF ProposerCaughtUp

(* The proposer's queue and round are naturals and messages.               *)
LEMMA ProposerTypes ==
    ASSUME TypeOK, NEW a \in Honest
    PROVE  /\ frontier[a] \in Nat /\ lastProposed[a].round \in Nat
           /\ round[a] \in Nat /\ rxParents[a] \in Seq(ParentsMessage)
           /\ \A i \in 1 .. Len(rxParents[a]) : rxParents[a][i].round \in Nat
           /\ lastParents[a] \in BOOLEAN
<1>1. rxParents[a] \in Seq(ParentsMessage)
  BY Zenon DEF TypeOK
<1>2. \A i \in 1 .. Len(rxParents[a]) : rxParents[a][i] \in ParentsMessage
  BY <1>1
<1>3. \A m \in ParentsMessage : m.round \in Nat
  BY CertificationAssumption DEF Round, ParentsMessage
<1>4. /\ frontier[a] \in Nat /\ lastProposed[a].round \in Nat
      /\ round[a] \in Nat /\ lastParents[a] \in BOOLEAN
  BY CertificationAssumption, HeaderFacts DEF TypeOK, Round
<1>5. QED
  BY <1>1, <1>2, <1>3, <1>4, Zenon

(* The elements of a queue after a message joins it, and after its head    *)
(* is taken.                                                               *)
LEMMA AppendedAt ==
    ASSUME NEW S, NEW q \in Seq(S), NEW x, NEW i \in 1 .. Len(Append(q, x))
    PROVE  \/ i \in 1 .. Len(q) /\ Append(q, x)[i] = q[i]
           \/ Append(q, x)[i] = x
OBVIOUS

LEMMA TailAt ==
    ASSUME NEW S, NEW q \in Seq(S), q # <<>>, NEW i \in 1 .. Len(Tail(q))
    PROVE  i + 1 \in 1 .. Len(q) /\ Tail(q)[i] = q[i + 1]
OBVIOUS

(* A message of the synchronizer joins the queue.                          *)
LEMMA StoreQuorumCaughtUp ==
    ASSUME TypeOK, ProposerCaughtUp, NEW a \in Honest, NEW r \in Round,
           StoreQuorum(a, r) \/ SignalRound(a, r)
    PROVE  ProposerCaughtUp'
<1>1. PICK k \in {"quorum", "signal"} :
         /\ rxParents' = [rxParents EXCEPT ![a] =
                             Append(@, [round |-> r, kind |-> k])]
         /\ k = "quorum" => /\ r > frontier[a]
                            /\ frontier' = [frontier EXCEPT ![a] = r]
         /\ k = "signal" => frontier' = frontier
         /\ UNCHANGED <<round, lastParents, recovery, lastProposed>>
  BY Zenon DEF StoreQuorum, SignalRound
<1>2. r \in Nat
  BY CertificationAssumption DEF Round
<1>3. /\ frontier'[a] \in Nat /\ frontier'[a] >= frontier[a]
      /\ k = "quorum" => frontier'[a] = r
      /\ rxParents'[a] = Append(rxParents[a], [round |-> r, kind |-> k])
      /\ \A b \in Honest \ {a} :
            rxParents'[b] = rxParents[b] /\ frontier'[b] = frontier[b]
  <2>1. /\ DOMAIN frontier = Honest /\ DOMAIN rxParents = Honest
        /\ frontier[a] \in Nat
    BY ProposerTypes, Zenon DEF TypeOK
  <2>2. /\ rxParents'[a] = Append(rxParents[a], [round |-> r, kind |-> k])
        /\ \A b \in Honest \ {a} : rxParents'[b] = rxParents[b]
    BY <1>1, <2>1, Zenon
  <2>3. CASE k = "quorum"
    BY <1>1, <1>2, <2>1, <2>2, <2>3
  <2>4. CASE k = "signal"
    BY <1>1, <2>1, <2>2, <2>4
  <2>5. QED
    BY <2>3, <2>4, Zenon
<1>4. ASSUME NEW i \in 1 .. Len(rxParents'[a])
      PROVE  \/ /\ i \in 1 .. Len(rxParents[a])
                /\ rxParents'[a][i] = rxParents[a][i]
             \/ rxParents'[a][i] = [round |-> r, kind |-> k]
  BY <1>3, AppendedAt, ProposerTypes
<1>5. CaughtUp(a)
  BY Zenon DEF ProposerCaughtUp
<1>6. CaughtUp(a)'
  <2>1. /\ lastProposed'[a].round <= frontier'[a] + 1
        /\ lastParents'[a] => round'[a] <= frontier'[a]
        /\ recovery'[a] = "done" => lastProposed'[a].round <= round'[a] + 1
    BY <1>1, <1>3, <1>5, ProposerTypes DEF CaughtUp
  <2>2. ASSUME NEW i \in 1 .. Len(rxParents'[a]), rxParents'[a][i].kind # "signal"
        PROVE  rxParents'[a][i].round <= frontier'[a]
    <3>1. CASE rxParents'[a][i] = [round |-> r, kind |-> k]
      BY <1>2, <1>3, <2>2, <3>1
    <3>2. CASE i \in 1 .. Len(rxParents[a]) /\ rxParents'[a][i] = rxParents[a][i]
      BY <1>3, <1>5, <2>2, <3>2, ProposerTypes DEF CaughtUp
    <3>3. QED
      BY <1>4, <3>1, <3>2, Zenon
  <2>3. ASSUME NEW i \in 1 .. Len(rxParents'[a]), recovery'[a] # "done",
               rxParents'[a][i].kind = "recovered"
        PROVE  \/ lastProposed'[a].round <= rxParents'[a][i].round + 1
               \/ lastProposed'[a].round <= round'[a] + 1
    BY <1>1, <1>4, <1>5, <2>3 DEF CaughtUp
  <2>4. QED
    BY <2>1, <2>2, <2>3, Zenon DEF CaughtUp
<1>7. QED
  BY <1>1, <1>3, <1>6, CaughtUpLocal, Zenon

(* The recovered parents join the queue: the newest stored quorum.         *)
LEMMA RecoverParentsCaughtUp ==
    ASSUME TypeOK, ProposerCaughtUp, NEW a \in Honest, RecoverParents(a)
    PROVE  ProposerCaughtUp'
<1>1. CaughtUp(a) /\ recovery[a] = "pending"
      /\ UNCHANGED <<round, lastParents, lastProposed, frontier>>
  BY Zenon DEF ProposerCaughtUp, RecoverParents
<1>2. CASE frontier[a] > 0
  <2>1. /\ rxParents'[a] = Append(rxParents[a],
                              [round |-> frontier[a], kind |-> "recovered"])
        /\ recovery'[a] = "sent"
        /\ \A b \in Honest \ {a} :
              rxParents'[b] = rxParents[b] /\ recovery'[b] = recovery[b]
    BY <1>2, Zenon DEF RecoverParents, TypeOK
  <2>2. ASSUME NEW i \in 1 .. Len(rxParents'[a])
        PROVE  \/ /\ i \in 1 .. Len(rxParents[a])
                  /\ rxParents'[a][i] = rxParents[a][i]
               \/ rxParents'[a][i] = [round |-> frontier[a], kind |-> "recovered"]
    BY <2>1, AppendedAt, ProposerTypes
  <2>3. CaughtUp(a)'
    <3>1. frontier[a] \in Nat
      BY ProposerTypes, Zenon
    <3>2. ASSUME NEW i \in 1 .. Len(rxParents'[a])
          PROVE  /\ rxParents'[a][i].kind # "signal"
                       => rxParents'[a][i].round <= frontier[a]
                 /\ rxParents'[a][i].kind = "recovered"
                       => \/ lastProposed[a].round <= rxParents'[a][i].round + 1
                          \/ lastProposed[a].round <= round[a] + 1
      <4>1. CASE i \in 1 .. Len(rxParents[a]) /\ rxParents'[a][i] = rxParents[a][i]
        BY <1>1, <4>1 DEF CaughtUp
      <4>2. CASE rxParents'[a][i] = [round |-> frontier[a], kind |-> "recovered"]
        <5>1. lastProposed[a].round <= frontier[a] + 1
          BY <1>1, Zenon DEF CaughtUp
        <5>2. QED
          BY <3>1, <4>2, <5>1
      <4>3. QED
        BY <2>2, <4>1, <4>2, Zenon
    <3>3. QED
      BY <1>1, <2>1, <3>2, Zenon DEF CaughtUp
  <2>4. QED
    BY <1>1, <2>1, <2>3, CaughtUpLocal, Zenon
<1>3. CASE ~(frontier[a] > 0)
  <2>1. /\ frontier[a] = 0
        /\ rxParents' = rxParents /\ recovery'[a] = "done"
        /\ \A b \in Honest \ {a} : recovery'[b] = recovery[b]
    BY <1>3, ProposerTypes DEF RecoverParents, TypeOK
  <2>2. CaughtUp(a)'
    <3>1. lastProposed[a].round \in Nat /\ round[a] \in Nat
      BY ProposerTypes, Zenon
    <3>2. lastProposed[a].round <= round[a] + 1
      BY <1>1, <2>1, <3>1 DEF CaughtUp
    <3>3. QED
      BY <1>1, <2>1, <3>2, Zenon DEF CaughtUp
  <2>3. QED
    BY <1>1, <2>1, <2>2, CaughtUpLocal, Zenon
<1>4. QED
  BY <1>2, <1>3, Zenon

(* The proposer takes a message: its round never goes back, and once the   *)
(* recovered parents are taken it has reached their round.                 *)
LEMMA ReceiveParentsCaughtUp ==
    ASSUME TypeOK, ProposerCaughtUp, NEW a \in Honest, ReceiveParents(a)
    PROVE  ProposerCaughtUp'
<1> DEFINE m == rxParents[a][1]
<1>1. CaughtUp(a) /\ UNCHANGED <<lastProposed, frontier>>
  BY Zenon DEF ProposerCaughtUp, ReceiveParents
<1>2. rxParents[a] # <<>> /\ Head(rxParents[a]) = m /\ 1 \in 1 .. Len(rxParents[a])
  BY ProposerTypes DEF ReceiveParents
<1>3. /\ round'[a] = IF m.round > round[a] THEN m.round ELSE round[a]
      /\ recovery'[a] = IF m.kind = "recovered" THEN "done" ELSE recovery[a]
      /\ rxParents'[a] = Tail(rxParents[a])
      /\ \A b \in Honest \ {a} :
            /\ rxParents'[b] = rxParents[b] /\ recovery'[b] = recovery[b]
            /\ round'[b] = round[b] /\ lastParents'[b] = lastParents[b]
  BY <1>2, Zenon DEF ReceiveParents, TypeOK
<1>4. lastParents'[a] => \/ m.kind # "signal" /\ m.round >= round[a]
                         \/ lastParents[a] /\ m.round <= round[a]
  <2>1. m.round \in Nat /\ round[a] \in Nat
    BY <1>2, ProposerTypes, Zenon
  <2>2. CASE m.round > round[a]
    <3>1. lastParents'[a] = (m.kind # "signal")
      BY <1>2, <2>2, Zenon DEF ReceiveParents, TypeOK
    <3>2. m.round >= round[a]
      BY <2>1, <2>2
    <3>3. QED
      BY <3>1, <3>2, Zenon
  <2>3. CASE ~(m.round > round[a])
    <3>1. lastParents'[a] = (\/ lastParents[a]
                             \/ m.round = round[a] /\ m.kind # "signal")
      BY <1>2, <2>3, Zenon DEF ReceiveParents, TypeOK
    <3>2. m.round <= round[a] /\ (m.round = round[a] => m.round >= round[a])
      BY <2>1, <2>3
    <3>3. QED
      BY <3>1, <3>2, Zenon
  <2>4. QED
    BY <2>2, <2>3, Zenon
<1>5. ASSUME NEW i \in 1 .. Len(rxParents'[a])
      PROVE  /\ i + 1 \in 1 .. Len(rxParents[a])
             /\ rxParents'[a][i] = rxParents[a][i + 1]
  BY <1>2, <1>3, TailAt, ProposerTypes
<1>6. m.round \in Nat /\ round[a] \in Nat /\ frontier[a] \in Nat
      /\ lastProposed[a].round \in Nat
  BY <1>2, ProposerTypes, Zenon
<1>7. CaughtUp(a)'
  <2>1. lastProposed'[a].round <= frontier'[a] + 1
    BY <1>1, Zenon DEF CaughtUp
  <2>2. lastParents'[a] => round'[a] <= frontier'[a]
    <3>1. CASE m.kind # "signal" /\ m.round >= round[a]
      <4>1. m.round <= frontier[a]
        BY <1>1, <1>2, <3>1, Zenon DEF CaughtUp
      <4>2. QED
        BY <1>1, <1>3, <1>6, <3>1, <4>1
    <3>2. CASE lastParents[a] /\ m.round <= round[a]
      <4>1. round[a] <= frontier[a]
        BY <1>1, <3>2, Zenon DEF CaughtUp
      <4>2. QED
        BY <1>1, <1>3, <1>6, <3>2, <4>1
    <3>3. QED
      BY <1>4, <3>1, <3>2, Zenon
  <2>3. ASSUME NEW i \in 1 .. Len(rxParents'[a]), rxParents'[a][i].kind # "signal"
        PROVE  rxParents'[a][i].round <= frontier'[a]
    BY <1>1, <1>5, <2>3, Zenon DEF CaughtUp
  <2>4. ASSUME NEW i \in 1 .. Len(rxParents'[a]), recovery'[a] # "done",
               rxParents'[a][i].kind = "recovered"
        PROVE  \/ lastProposed'[a].round <= rxParents'[a][i].round + 1
               \/ lastProposed'[a].round <= round'[a] + 1
    <3>1. \/ lastProposed[a].round <= rxParents'[a][i].round + 1
          \/ lastProposed[a].round <= round[a] + 1
      BY <1>1, <1>3, <1>5, <2>4 DEF CaughtUp
    <3>2. round'[a] \in Nat /\ round'[a] >= round[a]
      BY <1>3, <1>6
    <3>3. QED
      BY <1>1, <1>6, <3>1, <3>2
  <2>5. recovery'[a] = "done" => lastProposed'[a].round <= round'[a] + 1
    <3>1. round'[a] \in Nat /\ round'[a] >= round[a] /\ round'[a] >= m.round
      BY <1>3, <1>6
    <3>2. CASE recovery[a] = "done"
      <4>1. lastProposed[a].round <= round[a] + 1
        BY <1>1, <3>2, Zenon DEF CaughtUp
      <4>2. QED
        BY <1>1, <1>6, <3>1, <4>1
    <3>3. CASE recovery[a] # "done" /\ m.kind = "recovered"
      <4>1. \/ lastProposed[a].round <= m.round + 1
            \/ lastProposed[a].round <= round[a] + 1
        BY <1>1, <1>2, <3>3, Zenon DEF CaughtUp
      <4>2. QED
        BY <1>1, <1>6, <3>1, <4>1
    <3>4. QED
      BY <1>3, <3>2, <3>3, Zenon
  <2>6. QED
    BY <2>1, <2>2, <2>3, <2>4, <2>5, Zenon DEF CaughtUp
<1>8. QED
  BY <1>1, <1>3, <1>7, CaughtUpLocal, Zenon

(* A header of the stored round is the stored header used again.  One of   *)
(* an earlier round is made only before the recovery is over: the rounds   *)
(* up to the stored one are then given up.                                 *)
LEMMA MakeHeaderProposal ==
    ASSUME VoteInv, ProposalInv, NEW a \in Honest,
           NEW p \in Payload, MakeHeader(a, p)
    PROVE  ProposalInv'
<1> DEFINE h == CreateNewHeader(a, round[a] + 1, p)
<1>1. TypeOK /\ StoredIsNewest /\ CaughtUp(a) /\ NoEquivocation /\ ProposerCaughtUp
  BY Zenon DEF VoteInv, ProposalInv, ProposerCaughtUp
<1>2. /\ lastParents[a]
      /\ UNCHANGED <<rxParents, recovery, frontier>>
      /\ proposed' = proposed \cup {h}
      /\ lastProposed'[a] = h /\ round'[a] = round[a] + 1 /\ lastParents'[a] = FALSE
      /\ \A b \in Honest \ {a} :
            /\ lastProposed'[b] = lastProposed[b] /\ round'[b] = round[b]
            /\ lastParents'[b] = lastParents[b]
  BY <1>1, Zenon DEF MakeHeader, TypeOK
<1>3. /\ h.author = a /\ h.round = round[a] + 1
      /\ lastProposed[a].round = h.round => h = lastProposed[a]
  <2>1. round[a] \in Nat /\ lastProposed[a].round \in Nat
    BY <1>1, ProposerTypes, Zenon
  <2>2. lastProposed[a].round > 0 => lastProposed[a].author = a
    BY DEF VoteInv, Ownership, NoHeader
  <2>3. QED
    BY <2>1, <2>2 DEF CreateNewHeader
<1>4. \A g \in proposed : g.round \in Nat
  BY <1>1, HeaderFacts, Zenon DEF TypeOK
<1>5. /\ round[a] \in Nat /\ lastProposed[a].round \in Nat /\ frontier[a] \in Nat
      /\ rewound[a] \in Nat
  BY <1>1, ProposerTypes, CertificationAssumption DEF TypeOK, Round
<1>6. /\ rewound'[a] \in Nat /\ rewound'[a] >= rewound[a]
      /\ lastProposed[a].round > h.round => rewound'[a] >= lastProposed[a].round
      /\ \A b \in Honest \ {a} : rewound'[b] = rewound[b]
  <2>1. recovery[a] = "done" => ~(lastProposed[a].round > h.round)
    BY <1>1, <1>3, <1>5 DEF CaughtUp
  <2>2. rewound' = IF /\ recovery[a] # "done"
                      /\ lastProposed[a].round > h.round
                      /\ lastProposed[a].round > rewound[a]
                   THEN [rewound EXCEPT ![a] = lastProposed[a].round]
                   ELSE rewound
    BY Zenon DEF MakeHeader
  <2>3. DOMAIN rewound = Honest
    BY <1>1, Zenon DEF TypeOK
  <2> HIDE DEF h
  <2>4. QED
    BY <1>3, <1>5, <2>1, <2>2, <2>3
<1> HIDE DEF h
<1>7. ASSUME NEW g \in proposed, g.author = a
      PROVE  g.round < h.round \/ g = h \/ g.round <= rewound'[a]
  <2>1. \/ g.round < lastProposed[a].round \/ g = lastProposed[a]
        \/ g.round <= rewound[a]
    BY <1>1, <1>7, Zenon DEF StoredIsNewest
  <2>2. QED
    BY <1>3, <1>4, <1>5, <1>6, <2>1
<1>8. StoredIsNewest'
  BY <1>1, <1>2, <1>3, <1>6, <1>7 DEF StoredIsNewest
<1>9. NoEquivocation'
  <2> SUFFICES ASSUME NEW f \in proposed', NEW g \in proposed',
                      f.author = g.author, f.round = g.round,
                      f.round > rewound'[f.author]
               PROVE  f = g
    BY Zenon DEF NoEquivocation
  <2>1. CASE f \in proposed /\ g \in proposed
    <3>1. CASE f.author = a
      <4>1. f.round > rewound[f.author]
        BY <1>4, <1>5, <1>6, <2>1, <3>1
      <4>2. QED
        BY <1>1, <2>1, <4>1, Zenon DEF NoEquivocation
    <3>2. CASE f.author # a
      <4>1. rewound'[f.author] = rewound[f.author]
        BY <1>6, <2>1, <3>2, Zenon DEF VoteInv, Ownership
      <4>2. QED
        BY <1>1, <2>1, <4>1, Zenon DEF NoEquivocation
    <3>3. QED
      BY <3>1, <3>2
  <2>2. CASE f = h
    BY <1>2, <1>3, <1>4, <1>5, <1>6, <1>7, <2>2
  <2>3. CASE g = h
    BY <1>2, <1>3, <1>4, <1>5, <1>6, <1>7, <2>3
  <2>4. QED
    BY <1>2, <2>1, <2>2, <2>3
<1>10. CaughtUp(a)'
  <2>1. /\ round[a] <= frontier[a]
        /\ \A i \in 1 .. Len(rxParents[a]) :
              rxParents[a][i].kind # "signal" => rxParents[a][i].round <= frontier[a]
    BY <1>1, <1>2, Zenon DEF CaughtUp
  <2>2. h.round <= frontier[a] + 1 /\ h.round <= (round[a] + 1) + 1
    BY <1>3, <1>5, <2>1
  <2>3. QED
    BY <1>2, <2>1, <2>2, Zenon DEF CaughtUp
<1>11. ProposerCaughtUp'
  BY <1>1, <1>2, <1>10, CaughtUpLocal, Zenon
<1>12. QED
  BY <1>8, <1>9, <1>11, Zenon DEF ProposalInv

(* Every step keeps the proposal invariant.                                *)
LEMMA ProposalInvStep == VoteInv /\ ProposalInv /\ [Next]_vars => ProposalInv'
<1> SUFFICES ASSUME VoteInv, ProposalInv, [Next]_vars
             PROVE  ProposalInv'
  BY Zenon
<1>1. TypeOK /\ StoredIsNewest /\ ProposerCaughtUp /\ NoEquivocation
  BY Zenon DEF VoteInv, ProposalInv
<1>2. ASSUME UNCHANGED <<lastProposed, proposed, rewound>>, ProposerCaughtUp'
      PROVE  ProposalInv'
  BY <1>1, <1>2, Zenon DEF ProposalInv, StoredIsNewest, NoEquivocation
<1>3. ASSUME UNCHANGED <<proposerVars, frontier>>
      PROVE  ProposalInv'
  BY <1>1, <1>3, Zenon DEF proposerVars, ProposalInv, StoredIsNewest,
     NoEquivocation,
     ProposerCaughtUp, CaughtUp
<1>4. ASSUME NEW a \in Author \cap Honest, ProposerStep(a)
      PROVE  ProposalInv'
  <2>1. ASSUME NEW r \in Round, StoreQuorum(a, r) \/ SignalRound(a, r)
        PROVE  ProposalInv'
    BY <1>1, <1>2, <2>1, StoreQuorumCaughtUp, Zenon DEF StoreQuorum, SignalRound
  <2>2. CASE RecoverParents(a)
    BY <1>1, <1>2, <2>2, RecoverParentsCaughtUp, Zenon DEF RecoverParents
  <2>3. CASE ReceiveParents(a)
    BY <1>1, <1>2, <2>3, ReceiveParentsCaughtUp, Zenon DEF ReceiveParents
  <2>4. ASSUME NEW p \in Payload, MakeHeader(a, p)
        PROVE  ProposalInv'
    BY <2>4, MakeHeaderProposal, Zenon
  <2>5. CASE ResendHeader(a)
    BY <1>3, <2>5, Zenon DEF ResendHeader
  <2>6. ASSUME NEW h \in tasks[a], AbandonHeader(a, h)
        PROVE  ProposalInv'
    BY <1>3, <2>6, Zenon DEF AbandonHeader
  <2>7. QED
    BY <1>4, <2>1, <2>2, <2>3, <2>4, <2>5, <2>6, Zenon DEF ProposerStep
<1>5. ASSUME NEW v \in Honest, VoterStep(v)
      PROVE  ProposalInv'
  BY <1>3, <1>5, Zenon DEF VoterStep, VoteFor, ReceiveRequest, DropRequest,
     CheckVoteStore,
     WriteVote
<1>6. ASSUME NEW h, FormCertificate(h)
      PROVE  ProposalInv'
  BY <1>3, <1>6, Zenon DEF FormCertificate
<1>7. ASSUME NEW a \in Honest, Crash(a)
      PROVE  ProposalInv'
  <2>1. /\ UNCHANGED <<lastProposed, proposed, rewound, frontier>>
        /\ round'[a] = 0 /\ lastParents'[a] = TRUE /\ rxParents'[a] = <<>>
        /\ recovery'[a] = "pending"
        /\ \A b \in Honest \ {a} :
              /\ lastParents'[b] = lastParents[b] /\ round'[b] = round[b]
              /\ rxParents'[b] = rxParents[b] /\ recovery'[b] = recovery[b]
    BY <1>1, <1>7, Zenon DEF Crash, TypeOK
  <2>2. CaughtUp(a)'
    BY <1>1, <2>1, ProposerTypes DEF CaughtUp, ProposerCaughtUp
  <2>3. ProposerCaughtUp'
    BY <1>1, <2>1, <2>2, CaughtUpLocal, Zenon
  <2>4. QED
    BY <1>2, <2>1, <2>3, Zenon
<1>8. CASE UNCHANGED vars
  BY <1>3, <1>8, Zenon DEF vars
<1>9. QED
  BY <1>4, <1>5, <1>6, <1>7, <1>8, Zenon DEF Next

(* An honest proposer never makes two headers of one round, across any     *)
(* number of restarts, but in the rounds up to a stored header it          *)
(* overwrote before its parents were recovered (create_new_header).        *)
THEOREM NoEquivocationAboveRewind == Spec => []NoEquivocation
<1>1. Spec => [](VoteInv /\ ProposalInv)
  BY VoteInvInit, VoteInvStep, ProposalInvInit, ProposalInvStep, PTL DEF Spec
<1>2. ProposalInv => NoEquivocation
  BY Zenon DEF ProposalInv
<1>3. QED
  BY <1>1, <1>2, PTL

(* No two certificates exist for one author and round: never for a         *)
(* Byzantine author, and for an honest one only in such a round.  This is  *)
(* what the consensus DAG needs (ConsensusState::try_insert_in_dag).       *)
THEOREM CertificatesAreUnique == Spec => []CertificateUnique
<1>1. VoteInv /\ NoEquivocation /\ CertificateUniqueOf(Byzantine)
         => CertificateUnique
  <2> SUFFICES ASSUME VoteInv, NoEquivocation,
                      NEW g \in certificates, NEW h \in certificates,
                      g.author = h.author, g.round = h.round,
                      g.author \in Honest, g.round > rewound[g.author]
               PROVE  g = h
    BY Zenon DEF CertificateUnique
  <2>1. g \in proposed /\ h \in proposed
    BY Zenon DEF VoteInv, Ownership
  <2>2. QED
    BY <2>1, Zenon DEF NoEquivocation
<1>2. Spec => []VoteInv
  BY VoteInvInit, VoteInvStep, PTL DEF Spec
<1>3. QED
  BY <1>1, <1>2, ByzantineCertificateUnique, NoEquivocationAboveRewind, PTL
=============================================================================
