-------------------------------- MODULE Raft --------------------------------
(***************************************************************************)
(* The replicated control plane: control-plane/src/raft.rs with the stable *)
(* storage of control-plane/src/storage.rs.  Each node answers the two     *)
(* peer RPCs, campaigns, runs serialized replication rounds, and serves    *)
(* fenced routing-configuration writes.                                    *)
(*                                                                         *)
(* Time is abstracted: an election or heartbeat deadline may pass at any   *)
(* moment, and so may an RPC or commit timeout.  Requests stay in the      *)
(* network for ever, so each may be lost, delayed, reordered or delivered  *)
(* again; an answer is heard only by the HTTP call that is waiting for it. *)
(* Every save may fail, leaving the old or the new state on disk, and a    *)
(* node may restart from its disk at any time.                             *)
(***************************************************************************)
EXTENDS Integers, Sequences, FiniteSets

CONSTANTS
    Node,               \* the control nodes of one cluster
    Nil,                \* "no vote"
    Intent,             \* client writes; copies of one intent may be sent twice
    Noop,               \* the command a new leader appends
    Expected,           \* Expected[v]: the committed revision v is fenced on
    MaxCampaigns,       \* bound: campaigns of all nodes together
    MaxRounds,          \* bound: replication rounds of all nodes together,
                        \* 0 for any number of (uncounted) rounds
    MaxLog,             \* bound: no client append beyond this length
    MaxRestarts,        \* bound: restarts of all nodes together
    MaxStorageFailures  \* bound: failed saves of all nodes together

AnyRevision == -1       \* expected_revision = None: the write is not fenced

ASSUME NodeFinite == IsFiniteSet(Node)
ASSUME SeveralNodes == Cardinality(Node) > 1    \* a node has two peers
ASSUME NilNotNode == Nil \notin Node
ASSUME NoopNotIntent == Noop \notin Intent
ASSUME ExpectedType == Expected \in [Intent -> Nat \cup {AnyRevision}]
ASSUME BoundsNat == /\ MaxCampaigns \in Nat /\ MaxRounds \in Nat /\ MaxLog \in Nat
                    /\ MaxRestarts \in Nat /\ MaxStorageFailures \in Nat

VARIABLES
    mem,          \* mem[n]: PersistentState held under the state mutex
    disk,         \* disk[n]: PersistentState in the state file
    storageError, \* storageError[n]: a save failed since the node opened
    role,
    nextIndex,    \* nextIndex[n][p], 0 when the map has no entry for p
    matchIndex,   \* matchIndex[n][p], 0 when the map has no entry for p
    applied,      \* applied[n]: the cached committed_configuration
    camp,         \* camp[n]: term of the campaign in flight, 0 for none
    repl,         \* repl[n]: the replication round in flight, term 0 for none
    prop,         \* prop[n]: the write holding the proposal lock, index 0 for none
    voteReqs, appends,   \* requests ever sent
    voteReplies,  \* answers that reached a waiting campaign
    elected,      \* history: [term, node, voters] of every election won
    chosen,       \* history: the longest committed log prefix so far
    acks,         \* history: writes answered with success
    campaigns, rounds, restarts, failures

net     == <<voteReqs, voteReplies, appends>>
counts  == <<campaigns, rounds, restarts, failures>>
history == <<elected, chosen, acks>>
vars == <<mem, disk, storageError, role, nextIndex, matchIndex, applied,
          camp, repl, prop, net, history, counts>>

-----------------------------------------------------------------------------
Command == Intent \cup {Noop}
LogEntry == [term : Nat \ {0}, cmd : Command]
PersistentState == [term : Nat, votedFor : Node \cup {Nil},
                    log : Seq(LogEntry), commit : Nat]
CommittedConfiguration == [revision : Nat, term : Nat, cmd : Command]
RequestVoteRequest ==
    [term : Nat, cand : Node, lastIndex : Nat, lastTerm : Nat]
RequestVoteResponse ==
    [cand : Node, reqTerm : Nat, from : Node, term : Nat, granted : BOOLEAN]
AppendEntriesRequest ==
    [term : Nat, leader : Node, to : Node, prevIndex : Nat, prevTerm : Nat,
     entries : Seq(LogEntry), commit : Nat]
AppendEntriesResponse == [term : Nat, success : BOOLEAN, match : Nat]

NoConfiguration == [revision |-> 0, term |-> 0, cmd |-> Noop]
NoAnswer == [term |-> 0, success |-> FALSE, match |-> 0]
NoProposal == [index |-> 0, term |-> 0, cmd |-> Noop]
NoIndexes == [p \in Node |-> 0]
NoRequest(n, p) ==
    [term |-> 0, leader |-> n, to |-> p, prevIndex |-> 0, prevTerm |-> 0,
     entries |-> << >>, commit |-> 0]
NoRound(n) == [term |-> 0,
               req |-> [p \in Node |-> NoRequest(n, p)],
               res |-> [p \in Node |-> NoAnswer]]

Peers(n) == Node \ {n}
half_of_nodes == Cardinality(Node) \div 2          \* mutant of majority
majority == Cardinality(Node) \div 2 + 1
Lower(a, b) == IF a < b THEN a ELSE b
Higher(a, b) == IF a < b THEN b ELSE a

\* The term of the entry at index, 0 at index 0; -1 stands for None.
log_term(log, index) ==
    IF index = 0 THEN 0 ELSE IF index <= Len(log) THEN log[index].term ELSE -1

last_log_term(log) == log_term(log, Len(log))

\* Mutant of previous_matches: the previous entry is there, of whatever term.
previous_exists(log, index, term) == index <= Len(log)

previous_matches(log, index, term) == log_term(log, index) = term

\* Mutant of the check below: only the lengths are compared.
candidate_log_is_at_least_as_long(candIndex, candTerm, log) ==
    candIndex >= Len(log)

candidate_log_is_at_least_as_up_to_date(candIndex, candTerm, log) ==
    \/ candTerm > last_log_term(log)
    \/ candTerm = last_log_term(log) /\ candIndex >= Len(log)

\* The last committed routing configuration; its revision is its log index.
apply_committed(s) ==
    LET configs == {i \in 1..s.commit : s.log[i].cmd # Noop}
    IN IF configs = {} THEN NoConfiguration
       ELSE LET last == CHOOSE i \in configs : \A j \in configs : j <= i
            IN [revision |-> last, term |-> s.log[last].term,
                cmd |-> s.log[last].cmd]

\* The indexes a leader whose peers match as given may commit.
committable(s, match, n) ==
    {i \in (s.commit + 1)..Len(s.log) :
        /\ log_term(s.log, i) = s.term
        /\ Cardinality({n} \cup {p \in Peers(n) : match[p] >= i}) >= majority}

highest_committable_index(s, match, n) ==
    LET ok == committable(s, match, n)
    IN IF ok = {} THEN s.commit ELSE CHOOSE i \in ok : \A j \in ok : j <= i

\* Mutant of ObserveTerm: hearing of the present term forgets the vote too.
ObserveAnyTerm(s, term) ==
    IF term >= s.term THEN [s EXCEPT !.term = term, !.votedFor = Nil] ELSE s

\* The persistent half of become_follower: a higher term forgets the vote.
ObserveTerm(s, term) ==
    IF term > s.term THEN [s EXCEPT !.term = term, !.votedFor = Nil] ELSE s

\* Mutant of MergeEntries: entries are only ever added at the end.
AppendMissing(log, prev, entries) ==
    IF prev + Len(entries) > Len(log)
    THEN log \o SubSeq(entries, Len(log) - prev + 1, Len(entries))
    ELSE log

\* The incoming suffix replaces the log from the first missing or differing
\* position on; entries already present are left alone.
MergeEntries(log, prev, entries) ==
    IF \E k \in 1..Len(entries) :
          prev + k > Len(log) \/ log[prev + k] # entries[k]
    THEN SubSeq(log, 1, prev) \o entries
    ELSE log

\* The request would replace an entry at or below the commit index.
OverwritesCommitted(s, m) ==
    \E k \in 1..Len(m.entries) :
        m.prevIndex + k <= s.commit /\ s.log[m.prevIndex + k] # m.entries[k]

-----------------------------------------------------------------------------
(* Stable storage: write a temporary file, sync, rename, sync the directory. *)
(* A failure at any of these leaves one of the states `leaves` on disk.      *)
\* Mutant of SaveOk: the commit index is not part of the state file.
SaveWithoutCommit(n, s) ==
    /\ disk' = [disk EXCEPT ![n] = [s EXCEPT !.commit = 0]]
    /\ UNCHANGED <<storageError, failures>>

SaveOk(n, s) ==
    /\ disk' = [disk EXCEPT ![n] = s]
    /\ UNCHANGED <<storageError, failures>>

SaveFails(n, leaves) ==
    /\ failures < MaxStorageFailures
    /\ failures' = failures + 1
    /\ storageError' = [storageError EXCEPT ![n] = TRUE]
    /\ \E d \in leaves : disk' = [disk EXCEPT ![n] = d]

NotSaved == UNCHANGED <<disk, storageError, failures>>

\* The volatile half of become_follower.
VolatileFollower(n) ==
    /\ role' = [role EXCEPT ![n] = "Follower"]
    /\ nextIndex' = [nextIndex EXCEPT ![n] = NoIndexes]
    /\ matchIndex' = [matchIndex EXCEPT ![n] = NoIndexes]

\* Mutant of SetMem: the cached configuration is not refreshed.
SetMemOnly(n, s) ==
    /\ mem' = [mem EXCEPT ![n] = s]
    /\ chosen' = IF s.commit > Len(chosen) THEN SubSeq(s.log, 1, s.commit)
                 ELSE chosen
    /\ UNCHANGED applied

\* Memory, the cached configuration and the history follow a new state s.
SetMem(n, s) ==
    /\ mem' = [mem EXCEPT ![n] = s]
    /\ applied' = [applied EXCEPT ![n] =
                      IF s.commit = mem[n].commit THEN @ ELSE apply_committed(s)]
    /\ chosen' = IF s.commit > Len(chosen) THEN SubSeq(s.log, 1, s.commit)
                 ELSE chosen

Fresh == [term |-> 0, votedFor |-> Nil, log |-> << >>, commit |-> 0]

Init ==
    /\ mem = [n \in Node |-> Fresh]
    /\ disk = [n \in Node |-> Fresh]
    /\ storageError = [n \in Node |-> FALSE]
    /\ role = [n \in Node |-> "Follower"]
    /\ nextIndex = [n \in Node |-> NoIndexes]
    /\ matchIndex = [n \in Node |-> NoIndexes]
    /\ applied = [n \in Node |-> NoConfiguration]
    /\ camp = [n \in Node |-> 0]
    /\ repl = [n \in Node |-> NoRound(n)]
    /\ prop = [n \in Node |-> NoProposal]
    /\ voteReqs = {} /\ voteReplies = {} /\ appends = {}
    /\ elected = {} /\ chosen = << >> /\ acks = {}
    /\ campaigns = 0 /\ rounds = 0 /\ restarts = 0 /\ failures = 0

-----------------------------------------------------------------------------
(* Elections.                                                                *)

\* campaign(), up to sending the vote requests.
Campaign(n) ==
    LET s == [mem[n] EXCEPT !.term = @ + 1, !.votedFor = n]
    IN /\ camp[n] = 0
       /\ role[n] # "Leader"
       /\ ~storageError[n]
       /\ campaigns < MaxCampaigns
       /\ campaigns' = campaigns + 1
       /\ SetMem(n, s)
       /\ role' = [role EXCEPT ![n] = "Candidate"]
       /\ \/ /\ SaveOk(n, s)
             /\ camp' = [camp EXCEPT ![n] = s.term]
             /\ voteReqs' = voteReqs \cup
                   {[term |-> s.term, cand |-> n, lastIndex |-> Len(s.log),
                     lastTerm |-> last_log_term(s.log)]}
          \/ /\ SaveFails(n, {disk[n], s})
             /\ UNCHANGED <<camp, voteReqs>>
       /\ UNCHANGED <<nextIndex, matchIndex, repl, prop, voteReplies, appends,
                      elected, acks, rounds, restarts>>

\* The answer reaches the campaign that is waiting for it, or nobody.
AnswerVote(m, reply) ==
    voteReplies' = IF camp[m.cand] = m.term THEN voteReplies \cup {reply}
                   ELSE voteReplies

\* The answers to a campaign go away with it.
ForgetReplies(n) == voteReplies' = {r \in voteReplies : r.cand # n}

\* Mutant of MayGrant: the candidate's log is not checked.
MayGrantAnyLog(s, m) == s.votedFor \in {Nil, m.cand}

\* The state s, already in the term of the request, may vote for its sender.
MayGrant(s, m) ==
    /\ s.votedFor \in {Nil, m.cand}
    /\ candidate_log_is_at_least_as_up_to_date(m.lastIndex, m.lastTerm, s.log)

\* handle_request_vote: the request's term is not stale.
HandleRequestVote(p, m) ==
    LET seen  == ObserveTerm(mem[p], m.term)
        grant == MayGrant(seen, m)
        s     == IF grant THEN [seen EXCEPT !.votedFor = m.cand] ELSE seen
        changed == m.term > mem[p].term \/ grant
        reply == [cand |-> m.cand, reqTerm |-> m.term, from |-> p,
                  term |-> s.term, granted |-> grant]
    IN /\ p # m.cand
       /\ ~storageError[p]
       /\ m.term >= mem[p].term
       /\ SetMem(p, s)
       /\ IF m.term > mem[p].term THEN VolatileFollower(p)
          ELSE UNCHANGED <<role, nextIndex, matchIndex>>
       /\ \/ /\ IF changed THEN SaveOk(p, s) ELSE NotSaved
             /\ AnswerVote(m, reply)
          \/ /\ changed
             /\ SaveFails(p, {disk[p], s})
             /\ UNCHANGED voteReplies
       /\ UNCHANGED <<camp, repl, prop, voteReqs, appends, elected, acks,
                      campaigns, rounds, restarts>>

\* handle_request_vote: a stale term is refused with the current one, which
\* changes nothing when nobody waits for the answer.
RefuseStaleVote(p, m) ==
    /\ p # m.cand
    /\ ~storageError[p]
    /\ m.term < mem[p].term
    /\ camp[m.cand] = m.term
    /\ AnswerVote(m, [cand |-> m.cand, reqTerm |-> m.term, from |-> p,
                      term |-> mem[p].term, granted |-> FALSE])
    /\ UNCHANGED <<mem, disk, storageError, role, nextIndex, matchIndex,
                   applied, camp, repl, prop, voteReqs, appends, history,
                   counts>>

VoteRepliesTo(n) == {r \in voteReplies : r.cand = n}

GrantedBy(n) ==
    {n} \cup {r.from : r \in {x \in VoteRepliesTo(n) :
                                 x.granted /\ x.term = camp[n]}}

\* campaign(), after join_all: a heard answer carries a higher term.
CampaignStepsDown(n) ==
    /\ camp[n] # 0
    /\ \E r \in VoteRepliesTo(n) :
          LET s == ObserveTerm(mem[n], r.term)
          IN /\ r.term > mem[n].term
             /\ SetMem(n, s)
             /\ \/ SaveOk(n, s)
                \/ SaveFails(n, {disk[n], s})
    /\ VolatileFollower(n)
    /\ camp' = [camp EXCEPT ![n] = 0]
    /\ ForgetReplies(n)
    /\ UNCHANGED <<repl, prop, voteReqs, appends, elected, acks,
                   campaigns, rounds, restarts>>

\* Mutant of LeaderNoop: the no-op carries the term before the election.
StaleNoop(n) == [term |-> mem[n].term - 1, cmd |-> Noop]

\* The entry of its own term with which a new leader can commit older ones.
LeaderNoop(n) == [term |-> mem[n].term, cmd |-> Noop]

\* campaign(), after join_all: a majority voted for this term.
CampaignWins(n) ==
    LET s == [mem[n] EXCEPT !.log = Append(@, LeaderNoop(n))]
    IN /\ camp[n] # 0
       /\ role[n] = "Candidate"
       /\ mem[n].term = camp[n]
       /\ Cardinality(GrantedBy(n)) >= majority
       /\ SetMem(n, s)
       /\ role' = [role EXCEPT ![n] = "Leader"]
       /\ elected' = elected \cup {[term |-> camp[n], node |-> n,
                                  voters |-> GrantedBy(n)]}
       /\ nextIndex' = [nextIndex EXCEPT ![n] =
                           [p \in Node |-> IF p = n THEN 0 ELSE Len(s.log) + 1]]
       /\ matchIndex' = [matchIndex EXCEPT ![n] = NoIndexes]
       /\ \/ SaveOk(n, s)
          \/ SaveFails(n, {disk[n], s})
       /\ camp' = [camp EXCEPT ![n] = 0]
       /\ ForgetReplies(n)
       /\ UNCHANGED <<repl, prop, voteReqs, appends, acks, campaigns, rounds,
                      restarts>>

\* campaign(), after join_all: too few votes were heard in time, or the node
\* has moved on.
CampaignEnds(n) ==
    /\ camp[n] # 0
    /\ camp' = [camp EXCEPT ![n] = 0]
    /\ ForgetReplies(n)
    /\ UNCHANGED <<mem, disk, storageError, role, nextIndex, matchIndex,
                   applied, repl, prop, voteReqs, appends, history, counts>>

-----------------------------------------------------------------------------
(* Replication.                                                              *)

\* The request a leader builds for peer p from its next index.
AppendRequest(n, p) ==
    LET log  == mem[n].log
        next == IF nextIndex[n][p] = 0 THEN Len(log) + 1 ELSE nextIndex[n][p]
    IN [term |-> mem[n].term, leader |-> n, to |-> p, prevIndex |-> next - 1,
        prevTerm |-> Higher(log_term(log, next - 1), 0),
        entries |-> SubSeq(log, next, Len(log)), commit |-> mem[n].commit]

\* replicate_round(), under the replication lock, up to sending.
StartRound(n) ==
    LET req == [p \in Node |-> IF p = n THEN NoRequest(n, n)
                               ELSE AppendRequest(n, p)]
    IN /\ repl[n].term = 0
       /\ role[n] = "Leader"
       /\ ~storageError[n]
       /\ \/ MaxRounds = 0 /\ UNCHANGED rounds
          \/ rounds < MaxRounds /\ rounds' = rounds + 1
       /\ repl' = [repl EXCEPT ![n] = [term |-> mem[n].term, req |-> req,
                                       res |-> [p \in Node |-> NoAnswer]]]
       /\ appends' = appends \cup {req[p] : p \in Peers(n)}
       /\ UNCHANGED <<mem, disk, storageError, role, nextIndex, matchIndex,
                      applied, camp, prop, voteReqs, voteReplies, history,
                      campaigns, restarts, failures>>

\* A round is waiting for the answer to this very request.
Awaited(m) ==
    /\ repl[m.leader].term # 0
    /\ repl[m.leader].req[m.to] = m
    /\ repl[m.leader].res[m.to] = NoAnswer

\* The answer reaches the round that is waiting for it, or nobody.
Answer(m, response) ==
    repl' = IF Awaited(m)
            THEN [repl EXCEPT ![m.leader].res[m.to] = response]
            ELSE repl

\* handle_append_entries: a stale term is refused with the current one, which
\* changes nothing when nobody waits for the answer.
RefuseStaleAppend(m) ==
    /\ ~storageError[m.to]
    /\ m.term < mem[m.to].term
    /\ Awaited(m)
    /\ Answer(m, [term |-> mem[m.to].term, success |-> FALSE, match |-> 0])
    /\ UNCHANGED <<mem, disk, storageError, role, nextIndex, matchIndex,
                   applied, camp, prop, net, history, counts>>

\* The effect of recognising the sender as leader of m.term.
FollowLeader(m) ==
    IF m.term > mem[m.to].term THEN VolatileFollower(m.to)
    ELSE /\ role' = [role EXCEPT ![m.to] = "Follower"]
         /\ UNCHANGED <<nextIndex, matchIndex>>

\* handle_append_entries: the higher term cannot be saved.
AppendTermNotSaved(m) ==
    LET seen == ObserveTerm(mem[m.to], m.term)
    IN /\ ~storageError[m.to]
       /\ m.term > mem[m.to].term
       /\ SetMem(m.to, seen)
       /\ FollowLeader(m)
       /\ SaveFails(m.to, {disk[m.to], seen})
       /\ UNCHANGED <<camp, repl, prop, net, elected, acks,
                   campaigns, rounds, restarts>>

\* handle_append_entries: the term is saved, the previous entry is not there.
\* The match index of this answer is never read.
RefuseAppend(m) ==
    LET seen == ObserveTerm(mem[m.to], m.term)
    IN /\ ~storageError[m.to]
       /\ m.term >= mem[m.to].term
       /\ ~previous_matches(seen.log, m.prevIndex, m.prevTerm)
       /\ SetMem(m.to, seen)
       /\ FollowLeader(m)
       /\ IF m.term > mem[m.to].term THEN SaveOk(m.to, seen) ELSE NotSaved
       /\ Answer(m, [term |-> seen.term, success |-> FALSE, match |-> 0])
       /\ UNCHANGED <<camp, prop, net, elected, acks,
                   campaigns, rounds, restarts>>

\* Mutant of Accepted: the commit index follows the request, even backwards.
AcceptedAsSent(m) ==
    LET seen == ObserveTerm(mem[m.to], m.term)
        log  == MergeEntries(seen.log, m.prevIndex, m.entries)
    IN [seen EXCEPT !.log = log, !.commit = Lower(m.commit, Len(log))]

\* The follower's state after accepting the entries and the commit index.
Accepted(m) ==
    LET seen == ObserveTerm(mem[m.to], m.term)
        log  == MergeEntries(seen.log, m.prevIndex, m.entries)
    IN [seen EXCEPT !.log = log,
                    !.commit = Higher(@, Lower(m.commit, Len(log)))]

\* handle_append_entries: the entries are merged and the commit index follows
\* the leader's.  The term was saved before, the rest is saved after.
AcceptAppend(m) ==
    LET seen == ObserveTerm(mem[m.to], m.term)
        s    == Accepted(m)
    IN /\ ~storageError[m.to]
       /\ m.term >= mem[m.to].term
       /\ previous_matches(seen.log, m.prevIndex, m.prevTerm)
       /\ ~OverwritesCommitted(seen, m)
       /\ SetMem(m.to, s)
       /\ FollowLeader(m)
       /\ \/ /\ IF s # mem[m.to] THEN SaveOk(m.to, s) ELSE NotSaved
             /\ Answer(m, [term |-> s.term, success |-> TRUE,
                           match |-> m.prevIndex + Len(m.entries)])
          \/ /\ s # seen
             /\ SaveFails(m.to, {seen, s})
             /\ UNCHANGED repl
       /\ UNCHANGED <<camp, prop, net, elected, acks,
                   campaigns, rounds, restarts>>

\* replicate_round(), after join_all: no longer leader of the round's term.
RoundIsStale(n) ==
    /\ repl[n].term # 0
    /\ role[n] # "Leader" \/ mem[n].term # repl[n].term
    /\ repl' = [repl EXCEPT ![n] = NoRound(n)]
    /\ UNCHANGED <<mem, disk, storageError, role, nextIndex, matchIndex,
                   applied, camp, prop, net, history, counts>>

LeadsRound(n) ==
    /\ repl[n].term # 0
    /\ role[n] = "Leader"
    /\ mem[n].term = repl[n].term

\* replicate_round(), after join_all: a heard answer carries a higher term.
RoundStepsDown(n) ==
    /\ LeadsRound(n)
    /\ \E p \in Peers(n) :
          LET s == ObserveTerm(mem[n], repl[n].res[p].term)
          IN /\ repl[n].res[p].term > mem[n].term
             /\ SetMem(n, s)
             /\ \/ SaveOk(n, s)
                \/ SaveFails(n, {disk[n], s})
    /\ VolatileFollower(n)
    /\ repl' = [repl EXCEPT ![n] = NoRound(n)]
    /\ UNCHANGED <<camp, prop, net, elected, acks,
                   campaigns, rounds, restarts>>

\* Mutant of BackOff: the same request is sent for ever.
KeepNext(next) == next

\* A refusal moves the peer's next index back by one, never below one.
BackOff(next) == Higher(next - 1, 1)

\* replicate_round(), after join_all: the answers heard in time move the
\* peers' indexes, then the commit index.
RoundAdvances(n, heard) ==
    LET res(p) == repl[n].res[p]
        match  == [p \in Node |-> IF p \in heard /\ res(p).success
                                  THEN res(p).match ELSE matchIndex[n][p]]
        s == [mem[n] EXCEPT !.commit =
                 highest_committable_index(mem[n], match, n)]
    IN /\ LeadsRound(n)
       /\ \A p \in heard : /\ res(p) # NoAnswer
                           /\ res(p).term <= mem[n].term
       /\ matchIndex' = [matchIndex EXCEPT ![n] = match]
       /\ nextIndex' = [nextIndex EXCEPT ![n] =
             [p \in Node |-> IF p \notin heard THEN nextIndex[n][p]
                             ELSE IF res(p).success THEN res(p).match + 1
                             ELSE BackOff(nextIndex[n][p])]]
       /\ SetMem(n, s)
       /\ \/ IF s # mem[n] THEN SaveOk(n, s) ELSE NotSaved
          \/ s # mem[n] /\ SaveFails(n, {disk[n], s})
       /\ repl' = [repl EXCEPT ![n] = NoRound(n)]
       /\ UNCHANGED <<role, camp, prop, net, elected, acks,
                   campaigns, rounds, restarts>>

-----------------------------------------------------------------------------
(* Client writes, and restarts.                                              *)

\* write_configuration_with_fence, up to the append.  A follower, a failed
\* node and a revision conflict answer with an error and change nothing.
ClientWrite(n, v) ==
    LET entry == [term |-> mem[n].term, cmd |-> v]
        s == [mem[n] EXCEPT !.log = Append(@, entry)]
    IN /\ prop[n] = NoProposal
       /\ ~storageError[n]
       /\ role[n] = "Leader"
       /\ Expected[v] \in {AnyRevision, applied[n].revision}
       /\ Len(mem[n].log) < MaxLog
       /\ SetMem(n, s)
       /\ \/ /\ SaveOk(n, s)
             /\ prop' = [prop EXCEPT ![n] = [index |-> Len(s.log),
                                             term |-> entry.term, cmd |-> v]]
          \/ /\ SaveFails(n, {disk[n], s})
             /\ UNCHANGED prop
       /\ UNCHANGED <<role, nextIndex, matchIndex, camp, repl, net, elected,
                      acks, campaigns, rounds, restarts>>

\* The write's wait loop sees its index committed and answers with the
\* node's committed configuration.
WriteSucceeds(n) ==
    /\ prop[n] # NoProposal
    /\ ~storageError[n]
    /\ mem[n].commit >= prop[n].index
    /\ applied[n] # NoConfiguration
    /\ acks' = acks \cup {[write |-> prop[n], config |-> applied[n]]}
    /\ prop' = [prop EXCEPT ![n] = NoProposal]
    /\ UNCHANGED <<mem, disk, storageError, role, nextIndex, matchIndex,
                   applied, camp, repl, net, elected, chosen, counts>>

\* The write answers with an error (lost leadership, storage failure, commit
\* timeout) or its client goes away; the entry stays in the log.
WriteGivesUp(n) ==
    /\ prop[n] # NoProposal
    /\ prop' = [prop EXCEPT ![n] = NoProposal]
    /\ UNCHANGED <<mem, disk, storageError, role, nextIndex, matchIndex,
                   applied, camp, repl, net, history, counts>>

\* The process dies and RaftNode::open reads its state file.
Restart(n) ==
    /\ restarts < MaxRestarts
    /\ restarts' = restarts + 1
    /\ mem' = [mem EXCEPT ![n] = disk[n]]
    /\ applied' = [applied EXCEPT ![n] = apply_committed(disk[n])]
    /\ storageError' = [storageError EXCEPT ![n] = FALSE]
    /\ VolatileFollower(n)
    /\ camp' = [camp EXCEPT ![n] = 0]
    /\ repl' = [repl EXCEPT ![n] = NoRound(n)]
    /\ prop' = [prop EXCEPT ![n] = NoProposal]
    /\ ForgetReplies(n)
    /\ UNCHANGED <<disk, voteReqs, appends, history, campaigns, rounds,
                   failures>>

Next ==
    \/ \E n \in Node : Campaign(n)
    \/ \E p \in Node, m \in voteReqs : HandleRequestVote(p, m)
    \/ \E p \in Node, m \in voteReqs : RefuseStaleVote(p, m)
    \/ \E n \in Node : CampaignStepsDown(n)
    \/ \E n \in Node : CampaignWins(n)
    \/ \E n \in Node : CampaignEnds(n)
    \/ \E n \in Node : StartRound(n)
    \/ \E m \in appends : RefuseStaleAppend(m)
    \/ \E m \in appends : AppendTermNotSaved(m)
    \/ \E m \in appends : RefuseAppend(m)
    \/ \E m \in appends : AcceptAppend(m)
    \/ \E n \in Node : RoundIsStale(n)
    \/ \E n \in Node : RoundStepsDown(n)
    \/ \E n \in Node : \E heard \in SUBSET Peers(n) : RoundAdvances(n, heard)
    \/ \E n \in Node, v \in Intent : ClientWrite(n, v)
    \/ \E n \in Node : WriteSucceeds(n)
    \/ \E n \in Node : WriteGivesUp(n)
    \/ \E n \in Node : Restart(n)

Spec == Init /\ [][Next]_vars

-----------------------------------------------------------------------------
(* Fairness: the background loop keeps starting rounds on a leader, and a    *)
(* peer that is asked again and again answers in time again and again.       *)
DeliverAwaited(n, p) ==
    \E m \in appends :
        /\ m.leader = n /\ m.to = p /\ Awaited(m)
        /\ RefuseStaleAppend(m) \/ RefuseAppend(m) \/ AcceptAppend(m)

RoundHears(n, p) ==
    \/ RoundStepsDown(n)
    \/ \E heard \in SUBSET Peers(n) : p \in heard /\ RoundAdvances(n, heard)

Fairness ==
    \A n \in Node :
        /\ WF_vars(StartRound(n))
        /\ WF_vars(RoundIsStale(n))
        /\ \A p \in Peers(n) : /\ SF_vars(DeliverAwaited(n, p))
                               /\ SF_vars(RoundHears(n, p))

FairSpec == Spec /\ Fairness

-----------------------------------------------------------------------------
(* Properties.                                                               *)

\* Type correctness of the node state, the messages and the history.
TypeOK ==
    /\ mem \in [Node -> PersistentState]
    /\ disk \in [Node -> PersistentState]
    /\ storageError \in [Node -> BOOLEAN]
    /\ role \in [Node -> {"Follower", "Candidate", "Leader"}]
    /\ nextIndex \in [Node -> [Node -> Nat]]
    /\ matchIndex \in [Node -> [Node -> Nat]]
    /\ applied \in [Node -> CommittedConfiguration]
    /\ camp \in [Node -> Nat]
    /\ repl \in [Node -> [term : Nat, req : [Node -> AppendEntriesRequest],
                          res : [Node -> AppendEntriesResponse]]]
    /\ prop \in [Node -> [index : Nat, term : Nat, cmd : Command]]
    /\ voteReqs \subseteq RequestVoteRequest
    /\ voteReplies \subseteq RequestVoteResponse
    /\ appends \subseteq AppendEntriesRequest
    /\ elected \subseteq [term : Nat, node : Node, voters : SUBSET Node]
    /\ chosen \in Seq(LogEntry)
    /\ acks \subseteq [write : [index : Nat, term : Nat, cmd : Command],
                       config : CommittedConfiguration]
    /\ campaigns \in Nat /\ rounds \in Nat
    /\ restarts \in Nat /\ failures \in Nat

\* At most one node ever wins an election in a term (campaign and
\* handle_request_vote), across restarts and failed saves.
ElectionSafety ==
    \A e, f \in elected : e.term = f.term => e.node = f.node

IsPrefixOf(s, t) == Len(s) <= Len(t) /\ \A i \in 1..Len(s) : s[i] = t[i]

\* Two logs, in memory or on disk, that hold an entry of the same term at
\* the same index agree up to that index: the prev_log check and the merge of
\* handle_append_entries never graft a suffix onto a foreign prefix.
LogMatching ==
    LET logs == {mem[n].log : n \in Node} \cup {disk[n].log : n \in Node}
    IN \A a, b \in logs : \A i \in 1..Lower(Len(a), Len(b)) :
          a[i].term = b[i].term => \A j \in 1..i : a[j] = b[j]

\* What any node believes committed, in memory or on disk, is a prefix of one
\* history: the follower rule leader_commit.min(log.len()) never commits an
\* entry that the leader did not.
CommittedPrefixesAgree ==
    \A n \in Node : \A s \in {mem[n], disk[n]} :
        /\ s.commit <= Len(s.log)
        /\ IsPrefixOf(SubSeq(s.log, 1, s.commit), chosen)

\* A leader whose term is at least that of the last chosen entry has the
\* whole chosen history in its log.
LeaderHoldsChosen ==
    \A n \in Node :
        /\ role[n] = "Leader"
        /\ mem[n].term >= last_log_term(chosen)
        => IsPrefixOf(chosen, mem[n].log)

\* Every chosen entry is in the state files of a majority: a commit counts
\* only saved entries, the leader's own included.
ChosenIsDurable ==
    Cardinality({n \in Node : IsPrefixOf(chosen, disk[n].log)}) >= majority

\* The error "leader attempted to overwrite committed log index" of
\* handle_append_entries is never produced for a request the network holds.
CommittedNeverOverwritten ==
    \A m \in appends :
        /\ m.term >= mem[m.to].term
        /\ previous_matches(mem[m.to].log, m.prevIndex, m.prevTerm)
        => ~OverwritesCommitted(mem[m.to], m)

\* The replicas' logs agree as Raft needs them to, and what was chosen stays:
\* LogMatching, CommittedPrefixesAgree, LeaderHoldsChosen, ChosenIsDurable and
\* CommittedNeverOverwritten.
LogsAgree ==
    /\ TypeOK /\ LogMatching /\ CommittedPrefixesAgree
    /\ LeaderHoldsChosen /\ ChosenIsDurable /\ CommittedNeverOverwritten

\* The cached committed_configuration is what apply_committed would compute
\* from the present log and commit index.
AppliedIsCurrent ==
    \A n \in Node : applied[n] = apply_committed(mem[n])

\* The revision a node serves never goes back, not even across a restart,
\* unless a save had failed before.
RevisionNeverRegresses ==
    [][\A n \in Node : applied'[n].revision < applied[n].revision
                          => storageError[n]]_vars

\* The state file never goes back to an earlier term, nor to another vote of
\* the same term, and a healthy node's memory equals its file.
DurableVoteIsStable ==
    [][\A n \in Node :
          /\ disk'[n].term >= disk[n].term
          /\ disk'[n].term = disk[n].term /\ disk[n].votedFor # Nil
                => disk'[n].votedFor = disk[n].votedFor
          /\ ~storageError'[n] => mem'[n] = disk'[n]]_vars

Service == INSTANCE ConfigService WITH
    None <- NoConfiguration, history <- chosen,
    view <- [n \in Node |-> mem[n].commit], served <- applied,
    broken <- storageError

\* The cluster implements ConfigService: one append-only committed history,
\* of which each node serves a prefix that only grows.
ImplementsConfigService == Service!Spec

Replicated(n) ==
    \A p \in Node : /\ disk[p].log = mem[n].log
                    /\ mem[p].commit = Len(mem[n].log)

\* A leader that stays leader brings every peer to its own log, fully
\* committed: the next_index back-off of replicate_round ends, from whatever
\* conflicting suffixes earlier leaders left.
StableLeaderConverges ==
    \A n \in Node : <>[](role[n] = "Leader" /\ ~storageError[n]) => <>Replicated(n)

\* "each successful response names the configuration appended by that
\* request, even when clients race" (write_configuration_with_fence).
AckNamesOwnEntry ==
    \A a \in acks :
        a.config = [revision |-> a.write.index, term |-> a.write.term,
                    cmd |-> a.write.cmd]

=============================================================================
