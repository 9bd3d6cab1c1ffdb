------------------------------- MODULE MC_Raft -------------------------------
(***************************************************************************)
(* Three control nodes, as NodeConfig::validate demands.  They start cold, *)
(* or in states reachable from there, so that the bounds are spent on what *)
(* comes after.                                                            *)
(***************************************************************************)
EXTENDS Raft, TLC

CONSTANTS n1, n2, n3, v1, v2

ThreeNodes == {n1, n2, n3}
Unfenced == [v \in Intent |-> AnyRevision]
FencedOnNothing == [v \in Intent |-> 0]

Symmetry == Permutations(Node)
SteadySymmetry == Permutations(Node \ {n1})

AppendTo(leader, to, term, prev, prevTerm, entries) ==
    [term |-> term, leader |-> leader, to |-> to, prevIndex |-> prev,
     prevTerm |-> prevTerm, entries |-> entries, commit |-> 0]

\* What both starts share: nothing is in flight and nothing is applied.
Quiet ==
    /\ storageError = [n \in Node |-> FALSE]
    /\ applied = [n \in Node |-> NoConfiguration]
    /\ camp = [n \in Node |-> 0]
    /\ repl = [n \in Node |-> NoRound(n)]
    /\ prop = [n \in Node |-> NoProposal]
    /\ voteReplies = {}
    /\ chosen = <<[term |-> 1, cmd |-> Noop]>>
    /\ acks = {}
    /\ campaigns = 0 /\ rounds = 0 /\ restarts = 0 /\ failures = 0

FirstLog == <<[term |-> 1, cmd |-> Noop]>>

\* n1 has won term 1 with every vote and two rounds have committed its no-op.
Steady ==
    /\ Quiet
    /\ mem = [n \in Node |->
          [term |-> 1, votedFor |-> n1, log |-> FirstLog,
           commit |-> IF n = n1 THEN 1 ELSE 0]]
    /\ disk = mem
    /\ role = [n \in Node |-> IF n = n1 THEN "Leader" ELSE "Follower"]
    /\ nextIndex = [n \in Node |->
          [p \in Node |-> IF n = n1 /\ p # n1 THEN 2 ELSE 0]]
    /\ matchIndex = [n \in Node |->
          [p \in Node |-> IF n = n1 /\ p # n1 THEN 1 ELSE 0]]
    /\ voteReqs = {[term |-> 1, cand |-> n1, lastIndex |-> 0, lastTerm |-> 0]}
    /\ appends = {AppendTo(n1, p, 1, 1, 1, << >>) : p \in Peers(n1)}
                 \cup {AppendTo(n1, p, 1, 0, 0, FirstLog) : p \in Peers(n1)}
    /\ elected = {[term |-> 1, node |-> n1, voters |-> Node]}

\* n1 has committed its no-op of term 1 through n2 and then appended v1 alone;
\* n2 has won term 2 with the vote of n3, whose log is still empty.
Diverged ==
    /\ Quiet
    /\ mem = (n1 :> [term |-> 1, votedFor |-> n1, commit |-> 1,
                     log |-> FirstLog \o <<[term |-> 1, cmd |-> v1]>>])
          @@ (n2 :> [term |-> 2, votedFor |-> n2, commit |-> 0,
                     log |-> FirstLog \o <<[term |-> 2, cmd |-> Noop]>>])
          @@ (n3 :> [term |-> 2, votedFor |-> n2, commit |-> 0,
                     log |-> << >>])
    /\ disk = mem
    /\ role = [n \in Node |-> IF n = n3 THEN "Follower" ELSE "Leader"]
    /\ nextIndex = (n1 :> [p \in Node |-> IF p = n1 THEN 0 ELSE 2])
                @@ (n2 :> [p \in Node |-> IF p = n2 THEN 0 ELSE 3])
                @@ (n3 :> NoIndexes)
    /\ matchIndex = [n \in Node |->
          [p \in Node |-> IF n = n1 /\ p = n2 THEN 1 ELSE 0]]
    /\ voteReqs = {[term |-> 1, cand |-> n1, lastIndex |-> 0, lastTerm |-> 0],
                   [term |-> 2, cand |-> n2, lastIndex |-> 1, lastTerm |-> 1]}
    /\ appends = {AppendTo(n1, n2, 1, 1, 1, << >>),
                  AppendTo(n1, n3, 1, 1, 1, << >>),
                  AppendTo(n1, n2, 1, 0, 0, FirstLog)}
    /\ elected = {[term |-> 1, node |-> n1, voters |-> Node],
                  [term |-> 2, node |-> n2, voters |-> {n2, n3}]}

SteadySpec == Steady /\ [][Next]_vars

\* The two leaders replicate what they have, undisturbed by campaigns and writes.
FairDivergedSpec ==
    Diverged /\ [][Next /\ UNCHANGED <<campaigns, prop>>]_vars /\ Fairness
=============================================================================
