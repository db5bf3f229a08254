---------------------------- MODULE MCEpochClose ----------------------------
(* Two validators: EndOfPublish of v makes a quorum and that of w does     *)
(* not, so that certificates of w can come too late.  Clients send d to    *)
(* both and c to w, once each.                                             *)
(*                                                                         *)
(* Two kinds of interleavings that lead to the same states are left out.   *)
(* The steps of an EndOfPublish task touch nothing that other steps read   *)
(* before its commit is handled, and are taken at once.  Handlers run      *)
(* right after the commit: the other steps of a validator commute with the *)
(* commit, of which any subset of what is submitted can be left out, and   *)
(* with the steps of the other validator, so that each can be taken before *)
(* the commit or after the handlers.                                       *)
EXTENDS EpochClose, TLC

CONSTANTS v, w, c, d

MCStake == (v :> 3) @@ (w :> 1)
MCClients == {<<v, d>>, <<w, c>>, <<w, d>>}

Urgent(a) ==
    \E s \in Stage \ {"send", "submitted"} : <<a, s>> \in tasks[a]

MCNext ==
    /\ ~Ended
    /\ IF \E a \in Authority : Urgent(a)
       THEN \E a \in Authority : Urgent(a) /\ TaskStep(a, a)
       ELSE IF commits # <<>>
       THEN \E a \in Authority : HandleConsensusOutput(a)
       ELSE \/ \E a \in Authority, x \in Certificate :
                  x \notin accepted[a] /\ HandleCertificate(a, x)
            \/ \E a \in Authority : AdapterStep(a) \/ Restart(a)
            \/ \E taken \in SUBSET Submitted, r \in BOOLEAN : Commit(taken, r)

(* The pending checkpoints that matter for later states: no step reads     *)
(* them, and those on which v and w agree will not differ.                 *)
Differing ==
    {<<checkpoints[v][n], checkpoints[w][n]>> :
       n \in {m \in DOMAIN checkpoints[v] \cap DOMAIN checkpoints[w] :
                checkpoints[v][m] # checkpoints[w][m]}}

Unmatched ==
    [a \in Authority |->
       {checkpoints[a][n] :
          n \in {m \in DOMAIN checkpoints[a] :
                   \E b \in Authority : m \notin DOMAIN checkpoints[b]}}]

(* What tells states apart.  Of the cache, the keys that are recorded as   *)
(* processed make no difference.                                           *)
MCView ==
    <<reconfig, pending, tasks, worker, accepted, commits, handled, random,
      [a \in Authority |-> cache[a] \ processed[a]], processed, endOfPublish,
      deferred, executed, warned, crashes, Differing, Unmatched>>

(* Weaker than Fairness: some step of an adapter, a handler or consensus.  *)
Progress ==
    \/ \E a \in Authority : AdapterStep(a) \/ HandleConsensusOutput(a)
    \/ Commit(Submitted, Awaited)

MCSpec == Init /\ [][MCNext]_vars /\ WF_vars(Progress)
=============================================================================
