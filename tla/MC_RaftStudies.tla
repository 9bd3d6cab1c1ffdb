--------------------------- MODULE MC_RaftStudies ---------------------------
(***************************************************************************)
(* Three questions to one run: what comes of two campaigns that race from  *)
(* a cold start, what a cluster serves through writes and failures, and    *)
(* what becomes of diverged logs.  Each has bounds of its own.             *)
(***************************************************************************)
EXTENDS MC_Raft

VARIABLE study

Bounds(campaign, round, log, incident) ==
    [campaigns |-> campaign, rounds |-> round, log |-> log, incidents |-> incident]
Limits == [elections |-> Bounds(2, 2, 0, 1),
           service   |-> Bounds(1, 4, 2, 1),
           logs      |-> Bounds(1, 2, 3, 0)]

Within ==
    LET limit == Limits[study]
    IN  /\ campaigns' <= limit.campaigns
        /\ rounds' <= limit.rounds
        /\ restarts' <= limit.incidents /\ failures' <= limit.incidents
        /\ \A n \in Node : \A i \in DOMAIN mem'[n].log :
              mem'[n].log[i].cmd \in Intent => i <= limit.log

StudiesInit ==
    /\ study \in DOMAIN Limits
    /\ IF study = "logs" THEN Diverged ELSE Init

Studied == Within /\ UNCHANGED study

\* Raft's next-state relation within the bounds of the study.
StudiesNext ==
    \/ \E n \in Node : Campaign(n) /\ Studied
    \/ \E p \in Node, m \in voteReqs : HandleRequestVote(p, m) /\ Studied
    \/ \E p \in Node, m \in voteReqs : RefuseStaleVote(p, m) /\ Studied
    \/ \E n \in Node : CampaignStepsDown(n) /\ Studied
    \/ \E n \in Node : CampaignWins(n) /\ Studied
    \/ \E n \in Node : CampaignEnds(n) /\ Studied
    \/ \E n \in Node : StartRound(n) /\ Studied
    \/ \E m \in appends : RefuseStaleAppend(m) /\ Studied
    \/ \E m \in appends : AppendTermNotSaved(m) /\ Studied
    \/ \E m \in appends : RefuseAppend(m) /\ Studied
    \/ \E m \in appends : AcceptAppend(m) /\ Studied
    \/ \E n \in Node : RoundIsStale(n) /\ Studied
    \/ \E n \in Node : RoundStepsDown(n) /\ Studied
    \/ \E n \in Node : \E heard \in SUBSET Peers(n) :
          RoundAdvances(n, heard) /\ Studied
    \/ \E n \in Node, v \in Intent : ClientWrite(n, v) /\ Studied
    \/ \E n \in Node : WriteSucceeds(n) /\ Studied
    \/ \E n \in Node : WriteGivesUp(n) /\ Studied
    \/ \E n \in Node : Restart(n) /\ Studied

StudiesSpec == StudiesInit /\ [][StudiesNext]_<<vars, study>>
=============================================================================
