----------------------------- MODULE RaftProofs -----------------------------
(***************************************************************************)
(* Proofs about Raft for every finite cluster and every bound: type        *)
(* correctness and the facts about its operators that the other proofs     *)
(* use; at most one leader per term and votes that survive restarts; the   *)
(* configuration that a node serves.                                       *)
(***************************************************************************)
EXTENDS Raft, TLAPS, FiniteSetTheorems, WellFoundedInduction

-----------------------------------------------------------------------------
(* Types.                                                                    *)

\* A nonempty set of numbers up to N has a largest element, so that the CHOOSE
\* of apply_committed and highest_committable_index picks one.
LEMMA MaxExists ==
    ASSUME NEW N \in Nat, NEW S, S \subseteq 0..N, S # {}
    PROVE  \E i \in S : \A j \in S : j <= i
<1> DEFINE Up(i) == (i + 1)..N
           T == {Up(i) : i \in S}
           R == StrictSubsetOrdering(0..N)
<1>1. \A i \in S : Up(i) \in FiniteSubsetsOf(0..N)
  <2> TAKE i \in S
  <2>1. i + 1 \in Int /\ N \in Int
    OBVIOUS
  <2>2. IsFiniteSet(Up(i))
    BY <2>1, FS_Interval
  <2>3. Up(i) \subseteq 0..N
    OBVIOUS
  <2> QED BY <2>2, <2>3 DEF FiniteSubsetsOf
<1>2. T \subseteq FiniteSubsetsOf(0..N) /\ T # {}
  BY <1>1
<1>3. IsWellFoundedOn(R, FiniteSubsetsOf(0..N))
  BY FS_StrictSubsetOrderingWellFounded
<1> HIDE DEF T, R
<1>4. PICK x \in T : \A y \in T : ~(<<y, x>> \in R)
  BY <1>2, <1>3, WFMin
<1> USE DEF T, R
<1>5. PICK i \in S : x = Up(i)
  OBVIOUS
<1>6. ASSUME NEW j \in S, ~(j <= i)
      PROVE  FALSE
  <2>1. Up(j) \subseteq Up(i)
    BY <1>6
  <2>2. j \in Up(i) /\ j \notin Up(j)
    BY <1>6
  <2>3. <<Up(j), Up(i)>> \in R
    BY <2>1, <2>2, <1>1 DEF StrictSubsetOrdering, FiniteSubsetsOf
  <2> QED BY <1>4, <1>5, <2>3
<1> QED BY <1>6

\* log_term returns a number, and the prev_log_term a leader sends is natural.
LEMMA LogTermType ==
    ASSUME NEW log \in Seq(LogEntry), NEW i \in Nat
    PROVE  log_term(log, i) \in Int /\ Higher(log_term(log, i), 0) \in Nat
<1>1. CASE i = 0
  BY <1>1 DEF log_term, Higher
<1>2. CASE i \in 1..Len(log)
  <2>1. log[i] \in LogEntry
    BY <1>2
  <2> QED BY <1>2, <2>1 DEF log_term, LogEntry, Higher
<1>3. CASE i # 0 /\ ~(i <= Len(log))
  BY <1>3 DEF log_term, Higher
<1> QED BY <1>1, <1>2, <1>3

\* The last term of a log, as last_log_position reports it, is natural.
LEMMA LastLogTermType ==
    ASSUME NEW log \in Seq(LogEntry)
    PROVE  last_log_term(log) \in Nat
<1>1. CASE Len(log) = 0
  BY <1>1 DEF last_log_term, log_term
<1>2. CASE Len(log) \in 1..Len(log)
  <2>1. log[Len(log)] \in LogEntry
    BY <1>2
  <2> QED BY <1>2, <2>1 DEF last_log_term, log_term, LogEntry
<1> QED BY <1>1, <1>2

\* apply_committed returns a configuration when the log covers the commit index.
LEMMA ApplyCommittedType ==
    ASSUME NEW s \in PersistentState, s.commit <= Len(s.log)
    PROVE  apply_committed(s) \in CommittedConfiguration
<1> DEFINE configs == {i \in 1..s.commit : s.log[i].cmd # Noop}
           last == CHOOSE i \in configs : \A j \in configs : j <= i
<1>1. CASE configs = {}
  BY <1>1 DEF apply_committed, NoConfiguration, CommittedConfiguration, Command
<1>2. CASE configs # {}
  <2>1. s.commit \in Nat /\ configs \subseteq 0..s.commit
    BY DEF PersistentState
  <2>2. \E i \in configs : \A j \in configs : j <= i
    <3> HIDE DEF configs
    <3> QED BY <1>2, <2>1, MaxExists
  <2>3. last \in configs
    <3> HIDE DEF configs
    <3> QED BY <2>2
  <2>4. last \in 1..Len(s.log)
    <3> HIDE DEF last
    <3> QED BY <2>3 DEF PersistentState
  <2>5. s.log[last] \in LogEntry
    <3> HIDE DEF last
    <3> QED BY <2>4 DEF PersistentState
  <2>6. apply_committed(s) = [revision |-> last, term |-> s.log[last].term,
                              cmd |-> s.log[last].cmd]
    BY <1>2 DEF apply_committed
  <2> HIDE DEF last
  <2> QED BY <2>4, <2>5, <2>6 DEF CommittedConfiguration, LogEntry
<1> QED BY <1>1, <1>2

\* highest_committable_index stays between the commit index and the log length.
LEMMA HighestCommittableType ==
    ASSUME NEW s \in PersistentState, s.commit <= Len(s.log), NEW match, NEW n
    PROVE  /\ highest_committable_index(s, match, n) \in Nat
           /\ s.commit <= highest_committable_index(s, match, n)
           /\ highest_committable_index(s, match, n) <= Len(s.log)
<1> DEFINE ok == committable(s, match, n)
           top == CHOOSE i \in ok : \A j \in ok : j <= i
<1>1. s.commit \in Nat /\ Len(s.log) \in Nat
  BY DEF PersistentState
<1>2. ok \subseteq (s.commit + 1)..Len(s.log)
  BY DEF committable
<1>3. ok \subseteq 0..Len(s.log)
  BY <1>1, <1>2
<1> HIDE DEF ok
<1>4. CASE ok = {}
  BY <1>1, <1>4 DEF highest_committable_index, ok
<1>5. CASE ok # {}
  <2>1. \E i \in ok : \A j \in ok : j <= i
    BY <1>1, <1>3, <1>5, MaxExists
  <2>2. top \in ok
    BY <2>1
  <2>3. highest_committable_index(s, match, n) = top
    BY <1>5 DEF highest_committable_index, ok
  <2> HIDE DEF top
  <2> QED BY <1>1, <1>2, <2>2, <2>3
<1> QED BY <1>4, <1>5

\* A state file never commits past its log.
WellFormed(s) == s \in PersistentState /\ s.commit <= Len(s.log)

\* Observing a term (become_follower) changes neither log nor commit index.
LEMMA ObserveTermWellFormed ==
    ASSUME NEW s, WellFormed(s), NEW t \in Nat
    PROVE  /\ WellFormed(ObserveTerm(s, t))
           /\ ObserveTerm(s, t).log = s.log
           /\ ObserveTerm(s, t).commit = s.commit
           /\ ObserveTerm(s, t).term = Higher(s.term, t)
BY DEF ObserveTerm, WellFormed, PersistentState, Higher

\* Appending an entry keeps the committed part of the log.
LEMMA AppendWellFormed ==
    ASSUME NEW s, WellFormed(s), NEW e \in LogEntry
    PROVE  LET t == [s EXCEPT !.log = Append(@, e)]
           IN /\ WellFormed(t)
              /\ t.term = s.term /\ t.votedFor = s.votedFor
              /\ t.commit = s.commit
              /\ \A i \in 1..s.commit : t.log[i] = s.log[i]
<1> DEFINE log == Append(s.log, e)
           t == [s EXCEPT !.log = log]
<1>1. /\ s \in PersistentState /\ s.log \in Seq(LogEntry)
      /\ s.commit \in Nat /\ s.commit <= Len(s.log)
  BY DEF WellFormed, PersistentState
<1>2. /\ log \in Seq(LogEntry) /\ Len(log) = Len(s.log) + 1
      /\ \A i \in 1..Len(s.log) : log[i] = s.log[i]
  BY <1>1
<1> HIDE DEF log
<1>3. /\ t \in PersistentState /\ t.log = log /\ t.term = s.term
      /\ t.votedFor = s.votedFor /\ t.commit = s.commit
  BY <1>1, <1>2 DEF PersistentState
<1>4. t = [s EXCEPT !.log = Append(@, e)]
  BY DEF log
<1> HIDE DEF t
<1>5. s.commit <= Len(log) /\ \A i \in 1..s.commit : log[i] = s.log[i]
  BY <1>1, <1>2
<1>6. WellFormed(t)
  BY <1>3, <1>5 DEF WellFormed
<1> QED BY <1>3, <1>4, <1>5, <1>6

\* The merge loop of handle_append_entries, once past its two checks, keeps the
\* committed part of the log and covers the request.
LEMMA MergeEntriesWellFormed ==
    ASSUME NEW s, WellFormed(s), NEW m \in AppendEntriesRequest,
           previous_matches(s.log, m.prevIndex, m.prevTerm),
           ~OverwritesCommitted(s, m)
    PROVE  LET log == MergeEntries(s.log, m.prevIndex, m.entries)
           IN /\ log \in Seq(LogEntry)
              /\ s.commit <= Len(log)
              /\ m.prevIndex + Len(m.entries) <= Len(log)
              /\ \A i \in 1..s.commit : log[i] = s.log[i]
<1> DEFINE merged == MergeEntries(s.log, m.prevIndex, m.entries)
           prev == m.prevIndex
           new == SubSeq(s.log, 1, prev) \o m.entries
<1>1. /\ s.log \in Seq(LogEntry) /\ s.commit \in Nat /\ s.commit <= Len(s.log)
      /\ m.entries \in Seq(LogEntry) /\ prev \in Nat
  BY DEF WellFormed, PersistentState, AppendEntriesRequest
<1>2. prev <= Len(s.log)
  BY <1>1 DEF previous_matches, log_term, AppendEntriesRequest
<1>3. CASE \A k \in 1..Len(m.entries) :
              prev + k <= Len(s.log) /\ s.log[prev + k] = m.entries[k]
  <2>1. merged = s.log
    BY <1>1, <1>3 DEF MergeEntries
  <2>2. prev + Len(m.entries) <= Len(s.log)
    <3>1. Len(m.entries) \in Nat
      BY <1>1
    <3>2. CASE Len(m.entries) = 0
      BY <1>1, <1>2, <3>2
    <3>3. CASE Len(m.entries) # 0
      BY <1>3, <3>1, <3>3
    <3> QED BY <3>2, <3>3
  <2> QED BY <1>1, <2>1, <2>2
<1>4. ASSUME NEW k \in 1..Len(m.entries),
             prev + k > Len(s.log) \/ s.log[prev + k] # m.entries[k]
      PROVE  LET log == MergeEntries(s.log, m.prevIndex, m.entries)
             IN /\ log \in Seq(LogEntry)
                /\ s.commit <= Len(log)
                /\ m.prevIndex + Len(m.entries) <= Len(log)
                /\ \A i \in 1..s.commit : log[i] = s.log[i]
  <2>1. merged = new
    BY <1>1, <1>4 DEF MergeEntries
  <2>2. SubSeq(s.log, 1, prev) \in Seq(LogEntry) /\ Len(SubSeq(s.log, 1, prev)) = prev
        /\ \A i \in 1..prev : SubSeq(s.log, 1, prev)[i] = s.log[i]
    BY <1>1, <1>2
  <2>3. new \in Seq(LogEntry) /\ Len(new) = prev + Len(m.entries)
    BY <1>1, <2>2
  <2>4. prev + k > s.commit
    BY <1>1, <1>4 DEF OverwritesCommitted
  <2>5. s.commit <= Len(new)
    BY <1>1, <1>4, <2>3, <2>4
  <2>6. ASSUME NEW i \in 1..s.commit
        PROVE  new[i] = s.log[i]
    <3>1. CASE i <= prev
      BY <1>1, <2>2, <3>1
    <3>2. CASE i > prev
      <4>1. PICK j \in 1..Len(m.entries) : i = prev + j
        <5>1. i - prev \in 1..Len(m.entries) /\ i = prev + (i - prev)
          BY <1>1, <2>3, <2>5, <3>2
        <5> QED BY <5>1
      <4>2. new[i] = m.entries[j]
        BY <1>1, <2>2, <2>3, <4>1
      <4>3. s.log[prev + j] = m.entries[j]
        BY <1>1, <4>1 DEF OverwritesCommitted
      <4>4. s.log[i] = m.entries[j]
        BY <4>1, <4>3
      <4> QED BY <4>2, <4>4
    <3>3. i <= prev \/ i > prev
      BY <1>1
    <3> QED BY <3>1, <3>2, <3>3
  <2> HIDE DEF new
  <2> QED BY <1>1, <2>1, <2>3, <2>5, <2>6
<1> QED BY <1>1, <1>3, <1>4

-----------------------------------------------------------------------------
(* Type correctness.                                                         *)

\* TypeOK is not inductive alone: apply_committed reads the log up to the
\* commit index, and a leader stamps its entries with a term that must not be 0.
TypeInv ==
    /\ TypeOK
    /\ \A n \in Node : /\ mem[n].commit <= Len(mem[n].log)
                       /\ disk[n].commit <= Len(disk[n].log)
                       /\ role[n] = "Leader" => mem[n].term > 0

\* The states in memory and on disk are well formed.
LEMMA StatesWellFormed ==
    ASSUME TypeInv
    PROVE  \A n \in Node : WellFormed(mem[n]) /\ WellFormed(disk[n])
BY DEF TypeInv, TypeOK, WellFormed

\* Changing the memory of a node to a well-formed state keeps the types of the
\* memory, the cached configuration and the history.
LEMMA SetMemType ==
    ASSUME TypeInv, NEW n \in Node, NEW s, WellFormed(s), SetMem(n, s)
    PROVE  /\ mem' \in [Node -> PersistentState]
           /\ applied' \in [Node -> CommittedConfiguration]
           /\ chosen' \in Seq(LogEntry)
           /\ mem'[n] = s
           /\ \A k \in Node : /\ k # n => mem'[k] = mem[k]
                              /\ mem'[k].commit <= Len(mem'[k].log)
<1>1. apply_committed(s) \in CommittedConfiguration
  BY ApplyCommittedType DEF WellFormed
<1>2. mem' \in [Node -> PersistentState] /\ mem'[n] = s
      /\ \A k \in Node : k # n => mem'[k] = mem[k]
  BY DEF SetMem, TypeInv, TypeOK, WellFormed
<1>3. \A k \in Node : mem'[k].commit <= Len(mem'[k].log)
  BY <1>2 DEF TypeInv, WellFormed
<1>4. applied' \in [Node -> CommittedConfiguration]
  BY <1>1 DEF SetMem, TypeInv, TypeOK
<1>5. SubSeq(s.log, 1, s.commit) \in Seq(LogEntry)
  BY DEF WellFormed, PersistentState
<1>6. chosen' \in Seq(LogEntry)
  BY <1>5 DEF SetMem, TypeInv, TypeOK
<1> QED BY <1>2, <1>3, <1>4, <1>6

\* A step saves b, or fails to and leaves a or b behind, or does not save.
Saves(n, a, b) == NotSaved \/ SaveOk(n, b) \/ SaveFails(n, {a, b})

\* Saving, or failing to, keeps the type of the state files.
LEMMA SaveType ==
    ASSUME TypeInv, NEW n \in Node, NEW a, WellFormed(a), NEW b, WellFormed(b),
           Saves(n, a, b)
    PROVE  /\ disk' \in [Node -> PersistentState]
           /\ storageError' \in [Node -> BOOLEAN]
           /\ failures' \in Nat
           /\ \A k \in Node : disk'[k].commit <= Len(disk'[k].log)
<1>1. CASE NotSaved
  BY <1>1 DEF NotSaved, TypeInv, TypeOK
<1>2. CASE SaveOk(n, b)
  BY <1>2 DEF SaveOk, TypeInv, TypeOK, WellFormed
<1>3. CASE SaveFails(n, {a, b})
  BY <1>3 DEF SaveFails, TypeInv, TypeOK, WellFormed
<1> QED BY <1>1, <1>2, <1>3 DEF Saves

\* The rest of TypeOK, by the operations that change it.
LeaderTypeOK ==
    /\ role \in [Node -> {"Follower", "Candidate", "Leader"}]
    /\ nextIndex \in [Node -> [Node -> Nat]]
    /\ matchIndex \in [Node -> [Node -> Nat]]

ElectionTypeOK ==
    /\ camp \in [Node -> Nat]
    /\ voteReqs \subseteq RequestVoteRequest
    /\ voteReplies \subseteq RequestVoteResponse
    /\ elected \subseteq [term : Nat, node : Node, voters : SUBSET Node]
    /\ campaigns \in Nat

RoundTypeOK ==
    /\ repl \in [Node -> [term : Nat, req : [Node -> AppendEntriesRequest],
                          res : [Node -> AppendEntriesResponse]]]
    /\ appends \subseteq AppendEntriesRequest
    /\ rounds \in Nat

WriteTypeOK ==
    /\ prop \in [Node -> [index : Nat, term : Nat, cmd : Command]]
    /\ acks \subseteq [write : [index : Nat, term : Nat, cmd : Command],
                       config : CommittedConfiguration]
    /\ restarts \in Nat

RestTypeOK == LeaderTypeOK /\ ElectionTypeOK /\ RoundTypeOK /\ WriteTypeOK

\* TypeInv contains the four groups above.
LEMMA RestTyped ==
    ASSUME TypeInv
    PROVE  LeaderTypeOK /\ ElectionTypeOK /\ RoundTypeOK /\ WriteTypeOK
BY DEF TypeInv, TypeOK, LeaderTypeOK, ElectionTypeOK, RoundTypeOK, WriteTypeOK

\* A group that a step leaves alone stays typed.
LEMMA UnchangedTyped ==
    ASSUME TypeInv
    PROVE  /\ UNCHANGED <<role, nextIndex, matchIndex>> => LeaderTypeOK'
           /\ UNCHANGED <<camp, voteReqs, voteReplies, elected, campaigns>>
                 => ElectionTypeOK'
           /\ UNCHANGED <<repl, appends, rounds>> => RoundTypeOK'
           /\ UNCHANGED <<prop, acks, restarts>> => WriteTypeOK'
BY RestTyped
   DEF LeaderTypeOK, ElectionTypeOK, RoundTypeOK, WriteTypeOK

\* A step of n, now in state s, makes no other node a leader, and n only with
\* a term.
LeadersFrom(n, s) ==
    /\ \A k \in Node \ {n} : role'[k] = "Leader" => role[k] = "Leader"
    /\ role'[n] = "Leader" => s.term > 0

\* Every step that changes the persistent state of a node keeps TypeInv.
LEMMA NodeStepType ==
    ASSUME TypeInv, NEW n \in Node, NEW s, WellFormed(s), SetMem(n, s),
           NEW a, WellFormed(a), Saves(n, a, s),
           RestTypeOK', LeadersFrom(n, s)
    PROVE  TypeInv'
<1>1. /\ mem' \in [Node -> PersistentState]
      /\ applied' \in [Node -> CommittedConfiguration]
      /\ chosen' \in Seq(LogEntry)
      /\ mem'[n] = s
      /\ \A k \in Node : /\ k # n => mem'[k] = mem[k]
                         /\ mem'[k].commit <= Len(mem'[k].log)
  BY SetMemType
<1>2. /\ disk' \in [Node -> PersistentState]
      /\ storageError' \in [Node -> BOOLEAN]
      /\ failures' \in Nat
      /\ \A k \in Node : disk'[k].commit <= Len(disk'[k].log)
  BY SaveType
<1>3. TypeOK'
  BY <1>1, <1>2 DEF TypeOK, RestTypeOK, LeaderTypeOK, ElectionTypeOK,
     RoundTypeOK, WriteTypeOK
<1>4. \A k \in Node : role'[k] = "Leader" => mem'[k].term > 0
  BY <1>1 DEF TypeInv, LeadersFrom
<1> QED BY <1>1, <1>2, <1>3, <1>4 DEF TypeInv

\* Every step that leaves the persistent states alone keeps TypeInv.
LEMMA OtherStepType ==
    ASSUME TypeInv, RestTypeOK',
           UNCHANGED <<mem, disk, storageError, applied, chosen, failures>>,
           \A k \in Node : role'[k] = "Leader" => role[k] = "Leader"
    PROVE  TypeInv'
BY DEF TypeInv, TypeOK, RestTypeOK, LeaderTypeOK, ElectionTypeOK,
       RoundTypeOK, WriteTypeOK

\* become_follower keeps the volatile state typed and makes nobody a leader.
LEMMA VolatileFollowerType ==
    ASSUME TypeInv, NEW n \in Node, VolatileFollower(n), NEW s
    PROVE  LeaderTypeOK' /\ LeadersFrom(n, s)
<1>1. role' = [role EXCEPT ![n] = "Follower"]
  BY DEF VolatileFollower
<1>2. LeadersFrom(n, s)
  BY <1>1 DEF LeadersFrom, TypeInv, TypeOK
<1> QED BY <1>2 DEF VolatileFollower, NoIndexes, LeaderTypeOK, TypeInv, TypeOK

\* A cluster opened on empty storage satisfies TypeInv.
LEMMA InitTypeInv == Init => TypeInv
<1> SUFFICES ASSUME Init PROVE TypeInv
  OBVIOUS
<1>1. Fresh \in PersistentState /\ Fresh.commit <= Len(Fresh.log)
  BY DEF Fresh, PersistentState
<1>2. NoConfiguration \in CommittedConfiguration
  BY DEF NoConfiguration, CommittedConfiguration, Command
<1>3. NoProposal \in [index : Nat, term : Nat, cmd : Command]
  BY DEF NoProposal, Command
<1>4. \A n \in Node : NoRound(n) \in
         [term : Nat, req : [Node -> AppendEntriesRequest],
          res : [Node -> AppendEntriesResponse]]
  BY DEF NoRound, NoRequest, NoAnswer, AppendEntriesRequest, AppendEntriesResponse
<1>5. NoIndexes \in [Node -> Nat]
  BY DEF NoIndexes
<1> QED BY <1>1, <1>2, <1>3, <1>4, <1>5 DEF Init, TypeInv, TypeOK

\* The request replicate_round builds is well typed: its previous index is never
\* negative and its entries are a suffix of the log.
LEMMA AppendRequestType ==
    ASSUME TypeInv, NEW n \in Node, NEW p \in Node
    PROVE  AppendRequest(n, p) \in AppendEntriesRequest
<1> DEFINE log == mem[n].log
           next == IF nextIndex[n][p] = 0 THEN Len(log) + 1 ELSE nextIndex[n][p]
<1>1. log \in Seq(LogEntry) /\ mem[n].term \in Nat /\ mem[n].commit \in Nat
  BY DEF TypeInv, TypeOK, PersistentState
<1>2. next \in Nat /\ next >= 1
  <2>1. nextIndex \in [Node -> [Node -> Nat]]
    BY DEF TypeInv, TypeOK
  <2>2. nextIndex[n] \in [Node -> Nat]
    BY <2>1
  <2>3. nextIndex[n][p] \in Nat
    BY <2>2
  <2> HIDE DEF log
  <2> QED BY <1>1, <2>3
<1> HIDE DEF next
<1>3. Higher(log_term(log, next - 1), 0) \in Nat
  <2>1. next - 1 \in Nat
    BY <1>2
  <2> HIDE DEF log
  <2> QED BY <1>1, <2>1, LogTermType
<1>4. SubSeq(log, next, Len(log)) \in Seq(LogEntry)
  <2> HIDE DEF log
  <2> QED BY <1>1, <1>2
<1>5. AppendRequest(n, p) =
        [term |-> mem[n].term, leader |-> n, to |-> p, prevIndex |-> next - 1,
         prevTerm |-> Higher(log_term(log, next - 1), 0),
         entries |-> SubSeq(log, next, Len(log)), commit |-> mem[n].commit]
  BY DEF AppendRequest, next
<1> HIDE DEF log
<1> QED BY <1>1, <1>2, <1>3, <1>4, <1>5 DEF AppendEntriesRequest

\* Recording an answer keeps the rounds typed.
LEMMA AnswerType ==
    ASSUME TypeInv, NEW m \in appends, NEW r \in AppendEntriesResponse,
           Answer(m, r)
    PROVE  repl' \in [Node -> [term : Nat, req : [Node -> AppendEntriesRequest],
                               res : [Node -> AppendEntriesResponse]]]
<1> DEFINE round == repl[m.leader]
           res == [round.res EXCEPT ![m.to] = r]
           answered == [round EXCEPT !.res = res]
<1>1. m.leader \in Node /\ m.to \in Node
  BY DEF TypeInv, TypeOK, AppendEntriesRequest
<1>2. round \in [term : Nat, req : [Node -> AppendEntriesRequest],
                 res : [Node -> AppendEntriesResponse]]
  BY <1>1 DEF TypeInv, TypeOK
<1>3. res \in [Node -> AppendEntriesResponse]
  BY <1>1, <1>2
<1>4. answered \in [term : Nat, req : [Node -> AppendEntriesRequest],
                    res : [Node -> AppendEntriesResponse]]
  <2> HIDE DEF round, res
  <2> QED BY <1>2, <1>3
<1>5. repl' = repl \/ repl' = [repl EXCEPT ![m.leader] = answered]
  BY DEF Answer
<1> HIDE DEF answered
<1> QED BY <1>1, <1>4, <1>5 DEF TypeInv, TypeOK

\* The state a follower accepts is well formed and keeps what it had committed.
LEMMA AcceptedWellFormed ==
    ASSUME TypeInv, NEW m \in appends,
           previous_matches(ObserveTerm(mem[m.to], m.term).log, m.prevIndex,
                            m.prevTerm),
           ~OverwritesCommitted(ObserveTerm(mem[m.to], m.term), m)
    PROVE  /\ WellFormed(Accepted(m))
           /\ Accepted(m).term = Higher(mem[m.to].term, m.term)
           /\ Accepted(m).votedFor = ObserveTerm(mem[m.to], m.term).votedFor
           /\ Accepted(m).log = MergeEntries(mem[m.to].log, m.prevIndex, m.entries)
           /\ Accepted(m).commit =
                 Higher(mem[m.to].commit, Lower(m.commit, Len(Accepted(m).log)))
           /\ Accepted(m).commit >= mem[m.to].commit
           /\ \A i \in 1..mem[m.to].commit :
                 Accepted(m).log[i] = mem[m.to].log[i]
<1> DEFINE seen == ObserveTerm(mem[m.to], m.term)
           log  == MergeEntries(seen.log, m.prevIndex, m.entries)
<1>1. m \in AppendEntriesRequest /\ m.to \in Node /\ m.term \in Nat
      /\ m.commit \in Nat
  BY DEF TypeInv, TypeOK, AppendEntriesRequest
<1>2. WellFormed(mem[m.to])
  BY <1>1, StatesWellFormed
<1>3. /\ WellFormed(seen) /\ seen.log = mem[m.to].log
      /\ seen.commit = mem[m.to].commit
      /\ seen.term = Higher(mem[m.to].term, m.term)
  BY <1>1, <1>2, ObserveTermWellFormed
<1>4. /\ log \in Seq(LogEntry) /\ seen.commit <= Len(log)
      /\ \A i \in 1..seen.commit : log[i] = seen.log[i]
  BY <1>1, <1>3, MergeEntriesWellFormed
<1>5. Accepted(m) = [seen EXCEPT !.log = log,
                                 !.commit = Higher(@, Lower(m.commit, Len(log)))]
  BY DEF Accepted
<1> HIDE DEF seen, log
<1>6. seen \in PersistentState
  BY <1>3 DEF WellFormed
<1>7. /\ Accepted(m) \in PersistentState
      /\ Accepted(m).term = seen.term /\ Accepted(m).votedFor = seen.votedFor
      /\ Accepted(m).log = log
      /\ Accepted(m).commit = Higher(seen.commit, Lower(m.commit, Len(log)))
  <2> DEFINE merged == [seen EXCEPT !.log = log]
             commit == Higher(seen.commit, Lower(m.commit, Len(log)))
  <2>1. merged \in PersistentState /\ merged.log = log
        /\ merged.term = seen.term /\ merged.votedFor = seen.votedFor
        /\ merged.commit = seen.commit
    BY <1>4, <1>6 DEF PersistentState
  <2>2. commit \in Nat
    BY <1>1, <1>4, <1>6 DEF PersistentState, Higher, Lower
  <2>3. Accepted(m) = [merged EXCEPT !.commit = commit]
    BY <1>5, <2>1
  <2> HIDE DEF merged, commit
  <2>4. /\ Accepted(m) \in PersistentState /\ Accepted(m).commit = commit
        /\ Accepted(m).log = merged.log /\ Accepted(m).term = merged.term
        /\ Accepted(m).votedFor = merged.votedFor
    BY <2>1, <2>2, <2>3 DEF PersistentState
  <2> QED BY <2>1, <2>4 DEF commit
<1>8. Accepted(m).commit <= Len(log) /\ Accepted(m).commit >= seen.commit
  BY <1>1, <1>4, <1>6, <1>7 DEF PersistentState, Higher, Lower
<1>9. log = MergeEntries(mem[m.to].log, m.prevIndex, m.entries)
  BY <1>3 DEF log
<1> QED BY <1>3, <1>4, <1>7, <1>8, <1>9 DEF WellFormed, seen

\* campaign() up to the vote requests keeps TypeInv.
LEMMA CampaignType ==
    ASSUME TypeInv, NEW n \in Node, Campaign(n)
    PROVE  TypeInv'
<1> DEFINE s == [mem[n] EXCEPT !.term = @ + 1, !.votedFor = n]
<1>1. WellFormed(mem[n]) /\ WellFormed(disk[n])
  BY StatesWellFormed
<1>2. WellFormed(s) /\ s.term = mem[n].term + 1
  <2> DEFINE mid == [mem[n] EXCEPT !.term = @ + 1]
  <2>1. WellFormed(mid) /\ mid.term = mem[n].term + 1
    BY <1>1 DEF WellFormed, PersistentState
  <2>2. s = [mid EXCEPT !.votedFor = n]
    OBVIOUS
  <2> HIDE DEF mid, s
  <2> QED BY <2>1, <2>2 DEF WellFormed, PersistentState
<1>3. /\ SetMem(n, s)
      /\ (SaveOk(n, s) \/ SaveFails(n, {disk[n], s}))
      /\ role' = [role EXCEPT ![n] = "Candidate"]
      /\ camp' = camp \/ camp' = [camp EXCEPT ![n] = s.term]
      /\ voteReqs' = voteReqs \/ voteReqs' = voteReqs \cup
            {[term |-> s.term, cand |-> n, lastIndex |-> Len(s.log),
              lastTerm |-> last_log_term(s.log)]}
      /\ campaigns' = campaigns + 1
      /\ UNCHANGED <<nextIndex, matchIndex, repl, prop, voteReplies, appends,
                     elected, acks, rounds, restarts>>
  BY DEF Campaign
<1> HIDE DEF s
<1>4. s.term \in Nat /\ Len(s.log) \in Nat /\ last_log_term(s.log) \in Nat
  BY <1>2, LastLogTermType DEF WellFormed, PersistentState
<1>5. voteReqs' \subseteq RequestVoteRequest
  BY <1>3, <1>4 DEF TypeInv, TypeOK, RequestVoteRequest
<1>6. RestTypeOK'
  <2>1. LeaderTypeOK'
    BY <1>3, RestTyped DEF LeaderTypeOK
  <2>2. ElectionTypeOK'
    BY <1>3, <1>4, <1>5, RestTyped DEF ElectionTypeOK
  <2>3. RoundTypeOK' /\ WriteTypeOK'
    BY <1>3, UnchangedTyped
  <2> QED BY <2>1, <2>2, <2>3 DEF RestTypeOK
<1>7. LeadersFrom(n, s)
  BY <1>3 DEF LeadersFrom, TypeInv, TypeOK
<1>8. Saves(n, disk[n], s)
  BY <1>3 DEF Saves
<1> QED BY <1>1, <1>2, <1>3, <1>6, <1>7, <1>8, NodeStepType

\* handle_request_vote keeps TypeInv.
LEMMA HandleRequestVoteType ==
    ASSUME TypeInv, NEW p \in Node, NEW m \in voteReqs, HandleRequestVote(p, m)
    PROVE  TypeInv'
<1> DEFINE seen  == ObserveTerm(mem[p], m.term)
           grant == MayGrant(seen, m)
           s     == IF grant THEN [seen EXCEPT !.votedFor = m.cand] ELSE seen
           reply == [cand |-> m.cand, reqTerm |-> m.term, from |-> p,
                     term |-> s.term, granted |-> grant]
<1>1. m \in RequestVoteRequest /\ m.cand \in Node /\ m.term \in Nat
  BY DEF TypeInv, TypeOK, RequestVoteRequest
<1>2. WellFormed(mem[p]) /\ WellFormed(disk[p])
  BY StatesWellFormed
<1>3. WellFormed(seen) /\ seen.term = Higher(mem[p].term, m.term)
  BY <1>1, <1>2, ObserveTermWellFormed
<1>4. grant \in BOOLEAN
  BY DEF MayGrant
<1>5. /\ SetMem(p, s)
      /\ VolatileFollower(p) \/ UNCHANGED <<role, nextIndex, matchIndex>>
      /\ NotSaved \/ SaveOk(p, s) \/ SaveFails(p, {disk[p], s})
      /\ AnswerVote(m, reply) \/ UNCHANGED voteReplies
      /\ m.term >= mem[p].term
      /\ UNCHANGED <<camp, repl, prop, voteReqs, appends, elected, acks,
                     campaigns, rounds, restarts>>
  BY DEF HandleRequestVote
<1> HIDE DEF seen, grant
<1>6. WellFormed(s) /\ s.term = seen.term
  BY <1>1, <1>3 DEF WellFormed, PersistentState
<1> HIDE DEF s
<1>7. reply \in RequestVoteResponse
  BY <1>1, <1>4, <1>6 DEF WellFormed, PersistentState, RequestVoteResponse
<1>8. ElectionTypeOK'
  BY <1>5, <1>7, RestTyped DEF ElectionTypeOK, AnswerVote
<1>9. LeaderTypeOK' /\ LeadersFrom(p, s)
  <2>1. CASE VolatileFollower(p)
    BY <2>1, VolatileFollowerType
  <2>2. CASE UNCHANGED <<role, nextIndex, matchIndex>>
    <3>1. role[p] = "Leader" => s.term > 0
      BY <1>2, <1>3, <1>6, <1>1 DEF TypeInv, WellFormed, PersistentState, Higher
    <3>2. LeadersFrom(p, s)
      BY <2>2, <3>1 DEF LeadersFrom
    <3> QED BY <2>2, <3>2, UnchangedTyped
  <2> QED BY <1>5, <2>1, <2>2
<1>10. RoundTypeOK' /\ WriteTypeOK'
  BY <1>5, UnchangedTyped
<1>11. RestTypeOK'
  BY <1>8, <1>9, <1>10 DEF RestTypeOK
<1>12. Saves(p, disk[p], s)
  BY <1>5 DEF Saves
<1> QED BY <1>2, <1>5, <1>6, <1>9, <1>11, <1>12, NodeStepType

\* Refusing a stale vote request keeps TypeInv.
LEMMA RefuseStaleVoteType ==
    ASSUME TypeInv, NEW p \in Node, NEW m \in voteReqs, RefuseStaleVote(p, m)
    PROVE  TypeInv'
<1> DEFINE reply == [cand |-> m.cand, reqTerm |-> m.term, from |-> p,
                     term |-> mem[p].term, granted |-> FALSE]
<1>1. m.cand \in Node /\ m.term \in Nat /\ mem[p].term \in Nat
  BY DEF TypeInv, TypeOK, RequestVoteRequest, PersistentState
<1>2. reply \in RequestVoteResponse
  BY <1>1 DEF RequestVoteResponse
<1>3. /\ AnswerVote(m, reply)
      /\ UNCHANGED <<mem, disk, storageError, role, nextIndex, matchIndex,
                     applied, camp, repl, prop, voteReqs, appends, elected,
                     chosen, acks, campaigns, rounds, restarts, failures>>
  BY DEF RefuseStaleVote, history, counts
<1> HIDE DEF reply
<1>4. ElectionTypeOK'
  BY <1>2, <1>3, RestTyped DEF ElectionTypeOK, AnswerVote
<1>5. RestTypeOK'
  BY <1>3, <1>4, UnchangedTyped DEF RestTypeOK
<1> QED BY <1>3, <1>5, OtherStepType

\* A campaign that hears a higher term keeps TypeInv.
LEMMA CampaignStepsDownType ==
    ASSUME TypeInv, NEW n \in Node, CampaignStepsDown(n)
    PROVE  TypeInv'
<1>1. PICK r \in VoteRepliesTo(n) :
         LET s == ObserveTerm(mem[n], r.term)
         IN /\ r.term > mem[n].term
            /\ SetMem(n, s)
            /\ SaveOk(n, s) \/ SaveFails(n, {disk[n], s})
  BY DEF CampaignStepsDown
<1> DEFINE s == ObserveTerm(mem[n], r.term)
<1>2. /\ VolatileFollower(n)
      /\ camp' = [camp EXCEPT ![n] = 0]
      /\ voteReplies' \subseteq voteReplies
      /\ UNCHANGED <<repl, prop, voteReqs, appends, elected, acks,
                     campaigns, rounds, restarts>>
  BY DEF CampaignStepsDown, ForgetReplies
<1>3. r.term \in Nat
  BY DEF VoteRepliesTo, TypeInv, TypeOK, RequestVoteResponse
<1>4. WellFormed(s) /\ WellFormed(disk[n])
  BY <1>3, StatesWellFormed, ObserveTermWellFormed
<1>5. SetMem(n, s) /\ Saves(n, disk[n], s)
  BY <1>1 DEF Saves
<1> HIDE DEF s
<1>6. LeaderTypeOK' /\ LeadersFrom(n, s)
  BY <1>2, VolatileFollowerType
<1>7. ElectionTypeOK'
  BY <1>2, RestTyped DEF ElectionTypeOK
<1>8. RestTypeOK'
  BY <1>2, <1>6, <1>7, UnchangedTyped DEF RestTypeOK
<1> QED BY <1>4, <1>5, <1>6, <1>8, NodeStepType

\* Winning an election keeps TypeInv.
LEMMA CampaignWinsType ==
    ASSUME TypeInv, NEW n \in Node, CampaignWins(n)
    PROVE  TypeInv'
<1> DEFINE s == [mem[n] EXCEPT !.log = Append(@, LeaderNoop(n))]
           won == [term |-> camp[n], node |-> n, voters |-> GrantedBy(n)]
<1>1. /\ camp[n] # 0
      /\ mem[n].term = camp[n]
      /\ SetMem(n, s)
      /\ role' = [role EXCEPT ![n] = "Leader"]
      /\ elected' = elected \cup {won}
      /\ nextIndex' = [nextIndex EXCEPT ![n] =
                          [p \in Node |-> IF p = n THEN 0 ELSE Len(s.log) + 1]]
      /\ matchIndex' = [matchIndex EXCEPT ![n] = NoIndexes]
      /\ SaveOk(n, s) \/ SaveFails(n, {disk[n], s})
      /\ camp' = [camp EXCEPT ![n] = 0]
      /\ voteReplies' \subseteq voteReplies
      /\ UNCHANGED <<repl, prop, voteReqs, appends, acks, campaigns, rounds,
                     restarts>>
  BY DEF CampaignWins, ForgetReplies
<1>2. WellFormed(mem[n]) /\ WellFormed(disk[n])
  BY StatesWellFormed
<1>3. camp[n] \in Nat /\ mem[n].term \in Nat \ {0}
  BY <1>1, <1>2 DEF TypeInv, TypeOK, WellFormed, PersistentState
<1>4. LeaderNoop(n) \in LogEntry
  BY <1>3 DEF LeaderNoop, LogEntry, Command
<1>5. WellFormed(s) /\ s.term = mem[n].term
  BY <1>2, <1>4, AppendWellFormed
<1> HIDE DEF s
<1>6. GrantedBy(n) \subseteq Node
  BY DEF GrantedBy, VoteRepliesTo, TypeInv, TypeOK, RequestVoteResponse
<1>7. ElectionTypeOK'
  <2>1. won \in [term : Nat, node : Node, voters : SUBSET Node]
    BY <1>3, <1>6
  <2> HIDE DEF won
  <2> QED BY <1>1, <2>1, RestTyped DEF ElectionTypeOK
<1>8. LeaderTypeOK'
  <2>1. Len(s.log) + 1 \in Nat
    BY <1>5 DEF WellFormed, PersistentState
  <2>2. [p \in Node |-> IF p = n THEN 0 ELSE Len(s.log) + 1] \in [Node -> Nat]
    BY <2>1
  <2>3. NoIndexes \in [Node -> Nat]
    BY DEF NoIndexes
  <2> QED BY <1>1, <2>2, <2>3, RestTyped DEF LeaderTypeOK
<1>9. LeadersFrom(n, s)
  BY <1>1, <1>3, <1>5 DEF LeadersFrom, TypeInv, TypeOK
<1>10. RestTypeOK'
  BY <1>1, <1>7, <1>8, UnchangedTyped DEF RestTypeOK
<1>11. Saves(n, disk[n], s)
  BY <1>1 DEF Saves
<1> QED BY <1>1, <1>2, <1>5, <1>9, <1>10, <1>11, NodeStepType

\* A campaign without a majority keeps TypeInv.
LEMMA CampaignEndsType ==
    ASSUME TypeInv, NEW n \in Node, CampaignEnds(n)
    PROVE  TypeInv'
<1>1. /\ camp' = [camp EXCEPT ![n] = 0]
      /\ voteReplies' \subseteq voteReplies
      /\ UNCHANGED <<mem, disk, storageError, role, nextIndex, matchIndex,
                     applied, repl, prop, voteReqs, appends, elected, chosen,
                     acks, campaigns, rounds, restarts, failures>>
  BY DEF CampaignEnds, ForgetReplies, history, counts
<1>2. ElectionTypeOK'
  BY <1>1, RestTyped DEF ElectionTypeOK
<1>3. RestTypeOK'
  BY <1>1, <1>2, UnchangedTyped DEF RestTypeOK
<1> QED BY <1>1, <1>3, OtherStepType

\* Starting a replication round keeps TypeInv.
LEMMA StartRoundType ==
    ASSUME TypeInv, NEW n \in Node, StartRound(n)
    PROVE  TypeInv'
<1> DEFINE req == [p \in Node |-> IF p = n THEN NoRequest(n, n)
                                  ELSE AppendRequest(n, p)]
           res == [p \in Node |-> NoAnswer]
           round == [term |-> mem[n].term, req |-> req, res |-> res]
<1>1. /\ rounds' = rounds \/ rounds' = rounds + 1
      /\ repl' = [repl EXCEPT ![n] = round]
      /\ appends' = appends \cup {req[p] : p \in Peers(n)}
      /\ UNCHANGED <<mem, disk, storageError, role, nextIndex, matchIndex,
                     applied, camp, prop, voteReqs, voteReplies, elected, chosen,
                     acks, campaigns, restarts, failures>>
  BY DEF StartRound, history
<1>2. NoRequest(n, n) \in AppendEntriesRequest
  BY DEF NoRequest, AppendEntriesRequest
<1>3. req \in [Node -> AppendEntriesRequest]
  BY <1>2, AppendRequestType
<1>4. res \in [Node -> AppendEntriesResponse]
  BY DEF NoAnswer, AppendEntriesResponse
<1> HIDE DEF req, res
<1>5. round \in [term : Nat, req : [Node -> AppendEntriesRequest],
                 res : [Node -> AppendEntriesResponse]]
  BY <1>3, <1>4 DEF TypeInv, TypeOK, PersistentState
<1>6. {req[p] : p \in Peers(n)} \subseteq AppendEntriesRequest
  BY <1>3 DEF Peers
<1> HIDE DEF round
<1>7. RoundTypeOK'
  BY <1>1, <1>5, <1>6, RestTyped DEF RoundTypeOK
<1>8. RestTypeOK'
  BY <1>1, <1>7, UnchangedTyped DEF RestTypeOK
<1> QED BY <1>1, <1>8, OtherStepType

\* Refusing a stale append keeps TypeInv.
LEMMA RefuseStaleAppendType ==
    ASSUME TypeInv, NEW m \in appends, RefuseStaleAppend(m)
    PROVE  TypeInv'
<1> DEFINE response == [term |-> mem[m.to].term, success |-> FALSE, match |-> 0]
<1>1. /\ Answer(m, response)
      /\ UNCHANGED <<mem, disk, storageError, role, nextIndex, matchIndex,
                     applied, camp, prop, voteReqs, voteReplies, appends,
                     elected, chosen, acks, campaigns, rounds, restarts,
                     failures>>
  BY DEF RefuseStaleAppend, net, history, counts
<1>2. response \in AppendEntriesResponse
  BY DEF TypeInv, TypeOK, PersistentState, AppendEntriesRequest,
         AppendEntriesResponse
<1> HIDE DEF response
<1>3. RoundTypeOK'
  BY <1>1, <1>2, AnswerType, RestTyped DEF RoundTypeOK
<1>4. RestTypeOK'
  BY <1>1, <1>3, UnchangedTyped DEF RestTypeOK
<1> QED BY <1>1, <1>4, OtherStepType

\* Following the sender of an append keeps the volatile state typed.
LEMMA FollowLeaderType ==
    ASSUME TypeInv, NEW m \in appends, FollowLeader(m), NEW s
    PROVE  LeaderTypeOK' /\ LeadersFrom(m.to, s) /\ m.to \in Node /\ m.term \in Nat
<1>1. m.to \in Node /\ m.term \in Nat
  BY DEF TypeInv, TypeOK, AppendEntriesRequest
<1>2. CASE m.term > mem[m.to].term
  BY <1>1, <1>2, VolatileFollowerType DEF FollowLeader
<1>3. CASE ~(m.term > mem[m.to].term)
  <2>1. /\ role' = [role EXCEPT ![m.to] = "Follower"]
        /\ UNCHANGED <<nextIndex, matchIndex>>
    BY <1>3 DEF FollowLeader
  <2>2. LeadersFrom(m.to, s)
    BY <1>1, <2>1 DEF LeadersFrom, TypeInv, TypeOK
  <2>3. LeaderTypeOK'
    BY <1>1, <2>1, RestTyped DEF LeaderTypeOK
  <2> QED BY <1>1, <2>2, <2>3
<1> QED BY <1>2, <1>3

\* An append whose term cannot be saved keeps TypeInv.
LEMMA AppendTermNotSavedType ==
    ASSUME TypeInv, NEW m \in appends, AppendTermNotSaved(m)
    PROVE  TypeInv'
<1> DEFINE seen == ObserveTerm(mem[m.to], m.term)
<1>1. /\ SetMem(m.to, seen)
      /\ FollowLeader(m)
      /\ SaveFails(m.to, {disk[m.to], seen})
      /\ UNCHANGED <<camp, repl, prop, voteReqs, voteReplies, appends, elected,
                     acks, campaigns, rounds, restarts>>
  BY DEF AppendTermNotSaved, net
<1>2. LeaderTypeOK' /\ LeadersFrom(m.to, seen) /\ m.to \in Node /\ m.term \in Nat
  BY <1>1, FollowLeaderType
<1>3. WellFormed(seen) /\ WellFormed(disk[m.to])
  BY <1>2, StatesWellFormed, ObserveTermWellFormed
<1>4. Saves(m.to, disk[m.to], seen)
  BY <1>1 DEF Saves
<1> HIDE DEF seen
<1>5. RestTypeOK'
  BY <1>1, <1>2, UnchangedTyped DEF RestTypeOK
<1> QED BY <1>1, <1>2, <1>3, <1>4, <1>5, NodeStepType

\* Refusing an append on its previous entry keeps TypeInv.
LEMMA RefuseAppendType ==
    ASSUME TypeInv, NEW m \in appends, RefuseAppend(m)
    PROVE  TypeInv'
<1> DEFINE seen == ObserveTerm(mem[m.to], m.term)
           response == [term |-> seen.term, success |-> FALSE, match |-> 0]
<1>1. /\ SetMem(m.to, seen)
      /\ FollowLeader(m)
      /\ SaveOk(m.to, seen) \/ NotSaved
      /\ Answer(m, response)
      /\ UNCHANGED <<camp, prop, voteReqs, voteReplies, appends, elected,
                     acks, campaigns, rounds, restarts>>
  BY DEF RefuseAppend, net
<1>2. LeaderTypeOK' /\ LeadersFrom(m.to, seen) /\ m.to \in Node /\ m.term \in Nat
  BY <1>1, FollowLeaderType
<1>3. WellFormed(seen) /\ WellFormed(disk[m.to])
  BY <1>2, StatesWellFormed, ObserveTermWellFormed
<1>4. Saves(m.to, disk[m.to], seen)
  BY <1>1 DEF Saves
<1> HIDE DEF seen
<1>5. response \in AppendEntriesResponse
  BY <1>3 DEF WellFormed, PersistentState, AppendEntriesResponse
<1> HIDE DEF response
<1>6. RoundTypeOK'
  BY <1>1, <1>5, AnswerType, RestTyped DEF RoundTypeOK
<1>7. RestTypeOK'
  BY <1>1, <1>2, <1>6, UnchangedTyped DEF RestTypeOK
<1> QED BY <1>1, <1>2, <1>3, <1>4, <1>7, NodeStepType

\* Accepting an append keeps TypeInv.
LEMMA AcceptAppendType ==
    ASSUME TypeInv, NEW m \in appends, AcceptAppend(m)
    PROVE  TypeInv'
<1> DEFINE seen == ObserveTerm(mem[m.to], m.term)
           s == Accepted(m)
           response == [term |-> s.term, success |-> TRUE,
                        match |-> m.prevIndex + Len(m.entries)]
<1>1. /\ previous_matches(seen.log, m.prevIndex, m.prevTerm)
      /\ ~OverwritesCommitted(seen, m)
      /\ SetMem(m.to, s)
      /\ FollowLeader(m)
      /\ SaveOk(m.to, s) \/ NotSaved \/ SaveFails(m.to, {seen, s})
      /\ Answer(m, response) \/ UNCHANGED repl
      /\ UNCHANGED <<camp, prop, voteReqs, voteReplies, appends, elected,
                     acks, campaigns, rounds, restarts>>
  BY DEF AcceptAppend, net
<1>2. LeaderTypeOK' /\ LeadersFrom(m.to, s) /\ m.to \in Node /\ m.term \in Nat
  BY <1>1, FollowLeaderType
<1>3. WellFormed(seen)
  BY <1>2, StatesWellFormed, ObserveTermWellFormed
<1>4. WellFormed(s)
  BY <1>1, AcceptedWellFormed
<1>5. Saves(m.to, seen, s)
  BY <1>1 DEF Saves
<1> HIDE DEF seen, s
<1>6. response \in AppendEntriesResponse
  <2>1. m.prevIndex \in Nat /\ m.entries \in Seq(LogEntry)
    BY DEF TypeInv, TypeOK, AppendEntriesRequest
  <2>2. m.prevIndex + Len(m.entries) \in Nat
    BY <2>1
  <2> QED BY <1>4, <2>2 DEF WellFormed, PersistentState, AppendEntriesResponse
<1> HIDE DEF response
<1>7. RoundTypeOK'
  <2>1. CASE Answer(m, response)
    BY <1>1, <1>6, <2>1, AnswerType, RestTyped DEF RoundTypeOK
  <2>2. CASE UNCHANGED repl
    BY <1>1, <2>2, UnchangedTyped
  <2> QED BY <1>1, <2>1, <2>2
<1>8. RestTypeOK'
  BY <1>1, <1>2, <1>7, UnchangedTyped DEF RestTypeOK
<1> QED BY <1>1, <1>2, <1>3, <1>4, <1>5, <1>8, NodeStepType

\* Ending a round keeps the rounds typed.
LEMMA NoRoundType ==
    ASSUME TypeInv, NEW n \in Node
    PROVE  [repl EXCEPT ![n] = NoRound(n)] \in
              [Node -> [term : Nat, req : [Node -> AppendEntriesRequest],
                        res : [Node -> AppendEntriesResponse]]]
<1>1. NoRound(n) \in [term : Nat, req : [Node -> AppendEntriesRequest],
                      res : [Node -> AppendEntriesResponse]]
  BY DEF NoRound, NoRequest, NoAnswer, AppendEntriesRequest, AppendEntriesResponse
<1> QED BY <1>1 DEF TypeInv, TypeOK

\* Dropping the answers of a stale round keeps TypeInv.
LEMMA RoundIsStaleType ==
    ASSUME TypeInv, NEW n \in Node, RoundIsStale(n)
    PROVE  TypeInv'
<1>1. /\ repl' = [repl EXCEPT ![n] = NoRound(n)]
      /\ UNCHANGED <<mem, disk, storageError, role, nextIndex, matchIndex,
                     applied, camp, prop, voteReqs, voteReplies, appends,
                     elected, chosen, acks, campaigns, rounds, restarts,
                     failures>>
  BY DEF RoundIsStale, net, history, counts
<1>2. RoundTypeOK'
  BY <1>1, NoRoundType, RestTyped DEF RoundTypeOK
<1>3. RestTypeOK'
  BY <1>1, <1>2, UnchangedTyped DEF RestTypeOK
<1> QED BY <1>1, <1>3, OtherStepType

\* A round that hears a higher term keeps TypeInv.
LEMMA RoundStepsDownType ==
    ASSUME TypeInv, NEW n \in Node, RoundStepsDown(n)
    PROVE  TypeInv'
<1>1. PICK p \in Peers(n) :
         LET s == ObserveTerm(mem[n], repl[n].res[p].term)
         IN /\ repl[n].res[p].term > mem[n].term
            /\ SetMem(n, s)
            /\ SaveOk(n, s) \/ SaveFails(n, {disk[n], s})
  BY DEF RoundStepsDown
<1> DEFINE s == ObserveTerm(mem[n], repl[n].res[p].term)
<1>2. /\ VolatileFollower(n)
      /\ repl' = [repl EXCEPT ![n] = NoRound(n)]
      /\ UNCHANGED <<camp, prop, voteReqs, voteReplies, appends, elected, acks,
                     campaigns, rounds, restarts>>
  BY DEF RoundStepsDown, net
<1>3. repl[n].res[p].term \in Nat
  <2>1. repl[n].res \in [Node -> AppendEntriesResponse]
    BY DEF TypeInv, TypeOK
  <2> QED BY <2>1 DEF AppendEntriesResponse, Peers
<1>4. WellFormed(s) /\ WellFormed(disk[n])
  BY <1>3, StatesWellFormed, ObserveTermWellFormed
<1>5. SetMem(n, s) /\ Saves(n, disk[n], s)
  BY <1>1 DEF Saves
<1> HIDE DEF s
<1>6. LeaderTypeOK' /\ LeadersFrom(n, s)
  BY <1>2, VolatileFollowerType
<1>7. RoundTypeOK'
  BY <1>2, NoRoundType, RestTyped DEF RoundTypeOK
<1>8. RestTypeOK'
  BY <1>2, <1>6, <1>7, UnchangedTyped DEF RestTypeOK
<1> QED BY <1>4, <1>5, <1>6, <1>8, NodeStepType

\* Moving the commit index forward within the log keeps a state well formed.
LEMMA CommitWellFormed ==
    ASSUME NEW s, WellFormed(s), NEW c \in Nat, s.commit <= c, c <= Len(s.log)
    PROVE  LET t == [s EXCEPT !.commit = c]
           IN /\ WellFormed(t)
              /\ t.term = s.term /\ t.votedFor = s.votedFor /\ t.log = s.log
              /\ t.commit = c
BY DEF WellFormed, PersistentState

\* Applying the answers of a round keeps TypeInv.
LEMMA RoundAdvancesType ==
    ASSUME TypeInv, NEW n \in Node, NEW heard \in SUBSET Peers(n),
           RoundAdvances(n, heard)
    PROVE  TypeInv'
<1> DEFINE res(p) == repl[n].res[p]
           match == [p \in Node |-> IF p \in heard /\ res(p).success
                                    THEN res(p).match ELSE matchIndex[n][p]]
           next == [p \in Node |-> IF p \notin heard THEN nextIndex[n][p]
                                   ELSE IF res(p).success THEN res(p).match + 1
                                   ELSE BackOff(nextIndex[n][p])]
           top == highest_committable_index(mem[n], match, n)
           s == [mem[n] EXCEPT !.commit = top]
<1>1. /\ LeadsRound(n)
      /\ matchIndex' = [matchIndex EXCEPT ![n] = match]
      /\ nextIndex' = [nextIndex EXCEPT ![n] = next]
      /\ SetMem(n, s)
      /\ SaveOk(n, s) \/ NotSaved \/ SaveFails(n, {disk[n], s})
      /\ repl' = [repl EXCEPT ![n] = NoRound(n)]
      /\ UNCHANGED <<role, camp, prop, voteReqs, voteReplies, appends, elected,
                     acks, campaigns, rounds, restarts>>
  BY DEF RoundAdvances, net
<1>2. WellFormed(mem[n]) /\ WellFormed(disk[n])
  BY StatesWellFormed
<1>3. \A p \in Node : /\ res(p).match \in Nat
                      /\ matchIndex[n][p] \in Nat
                      /\ nextIndex[n][p] \in Nat
  <2>1. /\ repl[n].res \in [Node -> AppendEntriesResponse]
        /\ matchIndex[n] \in [Node -> Nat]
        /\ nextIndex[n] \in [Node -> Nat]
    BY DEF TypeInv, TypeOK
  <2> QED BY <2>1 DEF AppendEntriesResponse
<1> HIDE DEF res
<1>4. match \in [Node -> Nat]
  BY <1>3
<1>5. next \in [Node -> Nat]
  BY <1>3 DEF BackOff, Higher
<1> HIDE DEF match, next
<1>6. top \in Nat /\ mem[n].commit <= top /\ top <= Len(mem[n].log)
  BY <1>2, HighestCommittableType DEF WellFormed
<1> HIDE DEF top
<1>7. WellFormed(s) /\ s.term = mem[n].term
  BY <1>2, <1>6, CommitWellFormed
<1> HIDE DEF s
<1>8. LeaderTypeOK'
  BY <1>1, <1>4, <1>5, RestTyped DEF LeaderTypeOK
<1>9. LeadersFrom(n, s)
  BY <1>1, <1>7 DEF LeadersFrom, TypeInv
<1>10. RoundTypeOK'
  BY <1>1, NoRoundType, RestTyped DEF RoundTypeOK
<1>11. RestTypeOK'
  BY <1>1, <1>8, <1>10, UnchangedTyped DEF RestTypeOK
<1>12. Saves(n, disk[n], s)
  BY <1>1 DEF Saves
<1> QED BY <1>1, <1>2, <1>7, <1>9, <1>11, <1>12, NodeStepType

\* Appending a client write keeps TypeInv.
LEMMA ClientWriteType ==
    ASSUME TypeInv, NEW n \in Node, NEW v \in Intent, ClientWrite(n, v)
    PROVE  TypeInv'
<1> DEFINE entry == [term |-> mem[n].term, cmd |-> v]
           s == [mem[n] EXCEPT !.log = Append(@, entry)]
           write == [index |-> Len(s.log), term |-> entry.term, cmd |-> v]
<1>1. /\ role[n] = "Leader"
      /\ SetMem(n, s)
      /\ SaveOk(n, s) \/ SaveFails(n, {disk[n], s})
      /\ prop' = prop \/ prop' = [prop EXCEPT ![n] = write]
      /\ UNCHANGED <<role, nextIndex, matchIndex, camp, repl, voteReqs,
                     voteReplies, appends, elected, acks, campaigns, rounds,
                     restarts>>
  BY DEF ClientWrite, net
<1>2. WellFormed(mem[n]) /\ WellFormed(disk[n])
  BY StatesWellFormed
<1>3. mem[n].term \in Nat \ {0}
  BY <1>1, <1>2 DEF TypeInv, WellFormed, PersistentState
<1>4. entry \in LogEntry
  BY <1>3 DEF LogEntry, Command
<1>5. WellFormed(s) /\ s.term = mem[n].term
  <2> HIDE DEF entry
  <2> QED BY <1>2, <1>4, AppendWellFormed
<1> HIDE DEF s
<1>6. write \in [index : Nat, term : Nat, cmd : Command]
  BY <1>3, <1>5 DEF WellFormed, PersistentState, Command
<1> HIDE DEF write
<1>7. WriteTypeOK'
  BY <1>1, <1>6, RestTyped DEF WriteTypeOK
<1>8. LeadersFrom(n, s)
  BY <1>1, <1>3, <1>5 DEF LeadersFrom
<1>9. RestTypeOK'
  BY <1>1, <1>7, UnchangedTyped DEF RestTypeOK
<1>10. Saves(n, disk[n], s)
  BY <1>1 DEF Saves
<1> QED BY <1>1, <1>2, <1>5, <1>8, <1>9, <1>10, NodeStepType

\* Answering a client write keeps TypeInv.
LEMMA WriteEndsType ==
    ASSUME TypeInv, NEW n \in Node, WriteSucceeds(n) \/ WriteGivesUp(n)
    PROVE  TypeInv'
<1> DEFINE ack == [write |-> prop[n], config |-> applied[n]]
<1>1. /\ prop' = [prop EXCEPT ![n] = NoProposal]
      /\ acks' = acks \/ acks' = acks \cup {ack}
      /\ UNCHANGED <<mem, disk, storageError, role, nextIndex, matchIndex,
                     applied, camp, repl, voteReqs, voteReplies, appends,
                     elected, chosen, campaigns, rounds, restarts, failures>>
  BY DEF WriteSucceeds, WriteGivesUp, net, history, counts
<1>2. ack \in [write : [index : Nat, term : Nat, cmd : Command],
               config : CommittedConfiguration]
  BY DEF TypeInv, TypeOK
<1>3. NoProposal \in [index : Nat, term : Nat, cmd : Command]
  BY DEF NoProposal, Command
<1> HIDE DEF ack
<1>4. WriteTypeOK'
  BY <1>1, <1>2, <1>3, RestTyped DEF WriteTypeOK
<1>5. RestTypeOK'
  BY <1>1, <1>4, UnchangedTyped DEF RestTypeOK
<1> QED BY <1>1, <1>5, OtherStepType

\* Reopening a node from its state file keeps TypeInv.
LEMMA RestartType ==
    ASSUME TypeInv, NEW n \in Node, Restart(n)
    PROVE  TypeInv'
<1>1. /\ restarts' = restarts + 1
      /\ mem' = [mem EXCEPT ![n] = disk[n]]
      /\ applied' = [applied EXCEPT ![n] = apply_committed(disk[n])]
      /\ storageError' = [storageError EXCEPT ![n] = FALSE]
      /\ VolatileFollower(n)
      /\ camp' = [camp EXCEPT ![n] = 0]
      /\ repl' = [repl EXCEPT ![n] = NoRound(n)]
      /\ prop' = [prop EXCEPT ![n] = NoProposal]
      /\ voteReplies' \subseteq voteReplies
      /\ UNCHANGED <<disk, voteReqs, appends, elected, chosen, acks, campaigns,
                     rounds, failures>>
  BY DEF Restart, ForgetReplies, history
<1>2. WellFormed(disk[n])
  BY StatesWellFormed
<1>3. apply_committed(disk[n]) \in CommittedConfiguration
  BY <1>2, ApplyCommittedType DEF WellFormed
<1>4. LeaderTypeOK' /\ LeadersFrom(n, disk[n])
  BY <1>1, VolatileFollowerType
<1>5. ElectionTypeOK'
  BY <1>1, RestTyped DEF ElectionTypeOK
<1>6. RoundTypeOK'
  BY <1>1, NoRoundType, RestTyped DEF RoundTypeOK
<1>7. WriteTypeOK'
  BY <1>1, RestTyped DEF WriteTypeOK, NoProposal, Command
<1>8. /\ mem' \in [Node -> PersistentState]
      /\ mem'[n] = disk[n] /\ \A k \in Node \ {n} : mem'[k] = mem[k]
      /\ applied' \in [Node -> CommittedConfiguration]
      /\ disk' \in [Node -> PersistentState]
      /\ storageError' \in [Node -> BOOLEAN]
      /\ chosen' \in Seq(LogEntry) /\ failures' \in Nat
  BY <1>1, <1>2, <1>3 DEF TypeInv, TypeOK, WellFormed
<1>9. TypeOK'
  BY <1>4, <1>5, <1>6, <1>7, <1>8
     DEF TypeOK, LeaderTypeOK, ElectionTypeOK, RoundTypeOK, WriteTypeOK
<1>10. \A k \in Node : /\ mem'[k].commit <= Len(mem'[k].log)
                       /\ disk'[k].commit <= Len(disk'[k].log)
  BY <1>1, <1>8 DEF TypeInv
<1>11. role'[n] # "Leader"
  BY <1>1 DEF VolatileFollower, TypeInv, TypeOK
<1>12. \A k \in Node : role'[k] = "Leader" => mem'[k].term > 0
  BY <1>4, <1>8, <1>11 DEF TypeInv, LeadersFrom
<1> QED BY <1>9, <1>10, <1>12 DEF TypeInv

\* TypeInv is inductive.
LEMMA NextTypeInv == TypeInv /\ [Next]_vars => TypeInv'
<1> SUFFICES ASSUME TypeInv, [Next]_vars PROVE TypeInv'
  OBVIOUS
<1>1. CASE UNCHANGED vars
  <2>1. UNCHANGED <<mem, disk, storageError, role, nextIndex, matchIndex,
                    applied, camp, repl, prop, voteReqs, voteReplies, appends,
                    elected, chosen, acks, campaigns, rounds, restarts,
                    failures>>
    BY <1>1 DEF vars, net, history, counts
  <2>2. RestTypeOK'
    BY <2>1, UnchangedTyped DEF RestTypeOK
  <2> QED BY <2>1, <2>2, OtherStepType
<1>2. CASE Next
  BY <1>2, CampaignType, HandleRequestVoteType, RefuseStaleVoteType,
     CampaignStepsDownType, CampaignWinsType, CampaignEndsType, StartRoundType,
     RefuseStaleAppendType, AppendTermNotSavedType, RefuseAppendType,
     AcceptAppendType, RoundIsStaleType, RoundStepsDownType, RoundAdvancesType,
     ClientWriteType, WriteEndsType, RestartType DEF Next
<1> QED BY <1>1, <1>2

\* Every reachable state is well typed, for any finite set of nodes and any
\* bounds: no handler of raft.rs reads a log past its end, stamps an entry with
\* term 0 or sends a request with a negative index.
THEOREM TypeCorrect == Spec => []TypeOK
<1>1. TypeInv => TypeOK
  BY DEF TypeInv
<1> QED BY InitTypeInv, NextTypeInv, <1>1, PTL DEF Spec

-----------------------------------------------------------------------------
(* Votes.  The invariant has two halves.  The states: a node's state file      *)
(* never runs ahead of its memory, and equals it while no save has failed.     *)
(* The votes: whatever still counts as a vote (a granted answer a campaign may *)
(* hear, a vote counted in an election that was won, a candidate's own vote)   *)
(* is recorded in the voter's state file or outdated by its term, and is the   *)
(* voter's only vote of that term.  Two majorities of a term then share a      *)
(* voter, hence a candidate.                                                   *)

\* b may follow a in the life of one node: the term grows, or stays with the vote.
Later(a, b) ==
    \/ b.term > a.term
    \/ b.term = a.term /\ (a.votedFor = Nil \/ b.votedFor = a.votedFor)

\* p's vote for c in term t may still be counted, or has been.
Vote(t, p, c) ==
    \/ \E r \in voteReplies : r.granted /\ r.reqTerm = t /\ r.from = p /\ r.cand = c
    \/ \E e \in elected : e.term = t /\ e.node = c /\ p \in e.voters
    \/ camp[c] = t /\ t # 0 /\ p = c

\* The state s remembers the vote for c in term t, or is past that term.
Remembers(s, t, c) == s.term > t \/ (s.term = t /\ s.votedFor = c)

StatesInv ==
    \A n \in Node : /\ Later(disk[n], mem[n])
                    /\ ~storageError[n] => mem[n] = disk[n]

VotesRemembered ==
    \A t \in Nat : \A p, c \in Node : Vote(t, p, c) => Remembers(disk[p], t, c)

VotesUnique ==
    \A t \in Nat : \A p, c, d \in Node : Vote(t, p, c) /\ Vote(t, p, d) => c = d

RepliesOfTerm == \A r \in voteReplies : r.granted => r.term = r.reqTerm

MajoritiesElected == \A e \in elected : Cardinality(e.voters) >= majority

VoteInv ==
    /\ StatesInv
    /\ VotesRemembered
    /\ VotesUnique
    /\ RepliesOfTerm
    /\ MajoritiesElected

\* Terms and votes are typed.
LEMMA StatesTyped ==
    ASSUME TypeInv
    PROVE  \A n \in Node : /\ mem[n].term \in Nat /\ mem[n].votedFor \in Node \cup {Nil}
                           /\ disk[n].term \in Nat /\ disk[n].votedFor \in Node \cup {Nil}
BY DEF TypeInv, TypeOK, PersistentState

\* Later composes.
LEMMA LaterTransitive ==
    ASSUME NEW a, NEW b, NEW c, a.term \in Nat, b.term \in Nat, c.term \in Nat,
           Later(a, b), Later(b, c)
    PROVE  Later(a, c)
BY DEF Later

\* A later state remembers what an earlier one does.
LEMMA LaterRemembers ==
    ASSUME NEW a, NEW b, a.term \in Nat, b.term \in Nat, Later(a, b),
           NEW t \in Nat, NEW c \in Node, Remembers(a, t, c)
    PROVE  Remembers(b, t, c)
BY NilNotNode DEF Later, Remembers

\* become_follower only moves a state on, and forgets a vote only with its term.
LEMMA ObserveTermLater ==
    ASSUME NEW s, WellFormed(s), NEW t \in Nat
    PROVE  /\ Later(s, ObserveTerm(s, t))
           /\ ~(t > s.term) => ObserveTerm(s, t) = s
           /\ t > s.term => ObserveTerm(s, t).votedFor = Nil
<1>1. CASE t > s.term
  <2>1. ObserveTerm(s, t).term = t
    BY <1>1, ObserveTermWellFormed DEF WellFormed, PersistentState, Higher
  <2>2. ObserveTerm(s, t).votedFor = Nil
    BY <1>1 DEF ObserveTerm, WellFormed, PersistentState
  <2> QED BY <1>1, <2>1, <2>2 DEF Later, WellFormed, PersistentState
<1>2. CASE ~(t > s.term)
  BY <1>2 DEF ObserveTerm, Later, WellFormed, PersistentState
<1> QED BY <1>1, <1>2

\* Saves, when a step that does not save leaves the state as it was.
SavesChanges(n, a, s) ==
    (NotSaved /\ s = mem[n]) \/ SaveOk(n, s) \/ SaveFails(n, {a, s})

\* What a step does to the states: they only move on, and stay together.
StatesMoveOn ==
    /\ StatesInv'
    /\ \A k \in Node : Later(disk[k], disk'[k])

\* A step that moves the memory of a node on and saves it keeps the states.
LEMMA NodeStepStates ==
    ASSUME TypeInv, TypeInv', StatesInv, NEW n \in Node,
           NEW s, SetMem(n, s), Later(mem[n], s),
           NEW a, a.term \in Nat, Later(disk[n], a), Later(a, s),
           SavesChanges(n, a, s)
    PROVE  StatesMoveOn
<1>1. mem' = [mem EXCEPT ![n] = s] /\ mem'[n] = s
      /\ \A k \in Node \ {n} : mem'[k] = mem[k]
  BY DEF SetMem, TypeInv, TypeOK
<1>2. \A k \in Node \ {n} : disk'[k] = disk[k] /\ storageError'[k] = storageError[k]
  BY DEF SavesChanges, NotSaved, SaveOk, SaveFails, TypeInv, TypeOK
<1>3. \/ disk'[n] = disk[n] /\ storageError'[n] = storageError[n] /\ s = mem[n]
      \/ disk'[n] = s
      \/ disk'[n] = a /\ storageError'[n] = TRUE
  BY DEF SavesChanges, NotSaved, SaveOk, SaveFails, TypeInv, TypeOK
<1>4. s.term \in Nat /\ mem[n].term \in Nat /\ disk[n].term \in Nat
  BY <1>1, StatesTyped DEF TypeInv, TypeOK, PersistentState
<1>5. Later(disk[n], mem[n]) /\ (~storageError[n] => mem[n] = disk[n])
  BY DEF StatesInv
<1>6. Later(disk[n], s)
  BY <1>4, <1>5, LaterTransitive
<1>7. Later(s, s) /\ Later(disk[n], disk[n])
  BY <1>4 DEF Later
<1>8. /\ Later(disk'[n], mem'[n]) /\ (~storageError'[n] => mem'[n] = disk'[n])
      /\ Later(disk[n], disk'[n])
  BY <1>1, <1>3, <1>5, <1>6, <1>7
<1>9. \A k \in Node \ {n} :
         /\ Later(disk'[k], mem'[k]) /\ (~storageError'[k] => mem'[k] = disk'[k])
         /\ Later(disk[k], disk'[k])
  BY <1>1, <1>2, StatesTyped DEF StatesInv, Later
<1> QED BY <1>8, <1>9 DEF StatesMoveOn, StatesInv

\* A step that leaves the states alone keeps them.
LEMMA OtherStepStates ==
    ASSUME TypeInv, StatesInv, UNCHANGED <<mem, disk, storageError>>
    PROVE  StatesMoveOn
BY StatesTyped DEF StatesMoveOn, StatesInv, Later

\* campaign() raises the term before it changes the vote.
LEMMA CampaignStates ==
    ASSUME TypeInv, TypeInv', StatesInv, NEW n \in Node, Campaign(n)
    PROVE  StatesMoveOn
<1> DEFINE s == [mem[n] EXCEPT !.term = @ + 1, !.votedFor = n]
<1>1. /\ SetMem(n, s)
      /\ SaveOk(n, s) \/ SaveFails(n, {disk[n], s})
  BY DEF Campaign
<1>2. s.term = mem[n].term + 1
  BY DEF TypeInv, TypeOK, PersistentState
<1> HIDE DEF s
<1>3. Later(mem[n], s) /\ Later(disk[n], s) /\ Later(disk[n], disk[n])
  BY <1>2, StatesTyped DEF Later, StatesInv
<1>4. SavesChanges(n, disk[n], s)
  BY <1>1 DEF SavesChanges
<1> QED BY <1>1, <1>3, <1>4, StatesTyped, NodeStepStates

\* handle_request_vote changes the vote only from none, or with the term.
LEMMA HandleRequestVoteStates ==
    ASSUME TypeInv, TypeInv', StatesInv, NEW p \in Node, NEW m \in voteReqs,
           HandleRequestVote(p, m)
    PROVE  StatesMoveOn
<1> DEFINE seen  == ObserveTerm(mem[p], m.term)
           grant == MayGrant(seen, m)
           s     == IF grant THEN [seen EXCEPT !.votedFor = m.cand] ELSE seen
<1>1. /\ SetMem(p, s)
      /\ \/ NotSaved /\ ~(m.term > mem[p].term) /\ ~grant
         \/ SaveOk(p, s) \/ SaveFails(p, {disk[p], s})
  BY DEF HandleRequestVote
<1>2. m.term \in Nat /\ WellFormed(mem[p])
  BY StatesWellFormed DEF TypeInv, TypeOK, RequestVoteRequest
<1>3. /\ WellFormed(seen) /\ Later(mem[p], seen)
      /\ ~(m.term > mem[p].term) => seen = mem[p]
  BY <1>2, ObserveTermWellFormed, ObserveTermLater
<1>4. grant => seen.votedFor \in {Nil, m.cand}
  BY DEF MayGrant
<1> HIDE DEF seen, grant
<1>5. Later(seen, s) /\ s.term = seen.term
  BY <1>3, <1>4 DEF Later, WellFormed, PersistentState
<1>6. SavesChanges(p, disk[p], s)
  BY <1>1, <1>3 DEF SavesChanges
<1> HIDE DEF s
<1>7. seen.term \in Nat /\ s.term \in Nat
  BY <1>3, <1>5 DEF WellFormed, PersistentState
<1>8. Later(mem[p], s)
  BY <1>3, <1>5, <1>7, StatesTyped, LaterTransitive
<1>9. Later(disk[p], s) /\ Later(disk[p], disk[p])
  BY <1>7, <1>8, StatesTyped, LaterTransitive DEF StatesInv, Later
<1> QED BY <1>1, <1>6, <1>8, <1>9, StatesTyped, NodeStepStates

\* Any handler that does no more than observe a term keeps the states.
LEMMA ObserveStepStates ==
    ASSUME TypeInv, TypeInv', StatesInv, NEW n \in Node, NEW t \in Nat,
           SetMem(n, ObserveTerm(mem[n], t)),
           \/ NotSaved /\ ~(t > mem[n].term)
           \/ SaveOk(n, ObserveTerm(mem[n], t))
           \/ SaveFails(n, {disk[n], ObserveTerm(mem[n], t)})
    PROVE  StatesMoveOn
<1> DEFINE s == ObserveTerm(mem[n], t)
<1>1. /\ WellFormed(s) /\ Later(mem[n], s)
      /\ ~(t > mem[n].term) => s = mem[n]
  BY StatesWellFormed, ObserveTermWellFormed, ObserveTermLater
<1>2. SavesChanges(n, disk[n], s)
  BY <1>1 DEF SavesChanges
<1>3. SetMem(n, s)
  OBVIOUS
<1> HIDE DEF s
<1>4. s.term \in Nat
  BY <1>1 DEF WellFormed, PersistentState
<1>5. Later(disk[n], s) /\ Later(disk[n], disk[n])
  BY <1>1, <1>4, StatesTyped, LaterTransitive DEF StatesInv, Later
<1> QED BY <1>1, <1>2, <1>3, <1>5, StatesTyped, NodeStepStates

\* A step that changes only the log and the commit index keeps the states.
LEMMA SameVoteStates ==
    ASSUME TypeInv, TypeInv', StatesInv, NEW n \in Node, NEW s,
           s.term = mem[n].term, s.votedFor = mem[n].votedFor,
           SetMem(n, s), SavesChanges(n, disk[n], s)
    PROVE  StatesMoveOn
<1>1. Later(mem[n], s) /\ Later(disk[n], s) /\ Later(disk[n], disk[n])
  BY StatesTyped DEF Later, StatesInv
<1> QED BY <1>1, StatesTyped, NodeStepStates

\* handle_append_entries keeps the states, though it saves twice.
LEMMA AcceptAppendStates ==
    ASSUME TypeInv, TypeInv', StatesInv, NEW m \in appends, AcceptAppend(m)
    PROVE  StatesMoveOn
<1> DEFINE n == m.to
           seen == ObserveTerm(mem[n], m.term)
           s == Accepted(m)
<1>1. /\ previous_matches(seen.log, m.prevIndex, m.prevTerm)
      /\ ~OverwritesCommitted(seen, m)
      /\ SetMem(n, s)
      /\ \/ SaveOk(n, s) \/ (NotSaved /\ s = mem[n])
         \/ SaveFails(n, {seen, s})
  BY DEF AcceptAppend
<1>2. n \in Node /\ m.term \in Nat
  BY DEF TypeInv, TypeOK, AppendEntriesRequest
<1>3. /\ WellFormed(seen) /\ Later(mem[n], seen)
      /\ seen.term = Higher(mem[n].term, m.term)
  BY <1>2, StatesWellFormed, ObserveTermWellFormed, ObserveTermLater
<1>4. s.term = Higher(mem[n].term, m.term) /\ s.votedFor = seen.votedFor
  BY <1>1, AcceptedWellFormed
<1>5. SavesChanges(n, seen, s)
  BY <1>1 DEF SavesChanges
<1> HIDE DEF n, seen, s
<1>6. seen.term \in Nat /\ s.term \in Nat
  BY <1>3, <1>4 DEF WellFormed, PersistentState
<1>7. Later(seen, s)
  BY <1>3, <1>4, <1>6 DEF Later
<1>8. Later(mem[n], s) /\ Later(disk[n], seen)
  BY <1>2, <1>3, <1>6, <1>7, StatesTyped, LaterTransitive DEF StatesInv
<1> QED BY <1>1, <1>2, <1>5, <1>6, <1>7, <1>8, NodeStepStates

\* A restart brings the memory back to the state file.
LEMMA RestartStates ==
    ASSUME TypeInv, StatesInv, NEW n \in Node, Restart(n)
    PROVE  StatesMoveOn
<1>1. /\ mem'[n] = disk[n] /\ UNCHANGED disk
      /\ \A k \in Node \ {n} : mem'[k] = mem[k] /\ storageError'[k] = storageError[k]
  BY DEF Restart, TypeInv, TypeOK
<1> QED BY <1>1, StatesTyped DEF StatesMoveOn, StatesInv, Later

\* Every step moves the states on.
LEMMA NextStates ==
    ASSUME TypeInv, TypeInv', StatesInv, [Next]_vars
    PROVE  StatesMoveOn
<1>1. CASE UNCHANGED vars
  BY <1>1, OtherStepStates DEF vars
<1>2. ASSUME NEW n \in Node, Campaign(n) PROVE StatesMoveOn
  BY <1>2, CampaignStates
<1>3. ASSUME NEW p \in Node, NEW m \in voteReqs, HandleRequestVote(p, m)
      PROVE  StatesMoveOn
  BY <1>3, HandleRequestVoteStates
<1>4. ASSUME NEW p \in Node, NEW m \in voteReqs, RefuseStaleVote(p, m)
      PROVE  StatesMoveOn
  BY <1>4, OtherStepStates DEF RefuseStaleVote
<1>5. ASSUME NEW n \in Node, CampaignStepsDown(n) PROVE StatesMoveOn
  <2>1. PICK r \in VoteRepliesTo(n) :
           LET s == ObserveTerm(mem[n], r.term)
           IN SetMem(n, s) /\ (SaveOk(n, s) \/ SaveFails(n, {disk[n], s}))
    BY <1>5 DEF CampaignStepsDown
  <2>2. r.term \in Nat
    BY DEF VoteRepliesTo, TypeInv, TypeOK, RequestVoteResponse
  <2> QED BY <2>1, <2>2, ObserveStepStates
<1>6. ASSUME NEW n \in Node, CampaignWins(n) PROVE StatesMoveOn
  <2> DEFINE s == [mem[n] EXCEPT !.log = Append(@, LeaderNoop(n))]
  <2>1. SetMem(n, s) /\ (SaveOk(n, s) \/ SaveFails(n, {disk[n], s}))
    BY <1>6 DEF CampaignWins
  <2>2. s.term = mem[n].term /\ s.votedFor = mem[n].votedFor
    BY DEF TypeInv, TypeOK, PersistentState
  <2> HIDE DEF s
  <2> QED BY <2>1, <2>2, SameVoteStates DEF SavesChanges
<1>7. ASSUME NEW n \in Node,
             CampaignEnds(n) \/ StartRound(n) \/ RoundIsStale(n)
                \/ WriteSucceeds(n) \/ WriteGivesUp(n)
      PROVE  StatesMoveOn
  BY <1>7, OtherStepStates
     DEF CampaignEnds, StartRound, RoundIsStale, WriteSucceeds, WriteGivesUp
<1>8. ASSUME NEW m \in appends, RefuseStaleAppend(m) PROVE StatesMoveOn
  BY <1>8, OtherStepStates DEF RefuseStaleAppend
<1>9. ASSUME NEW m \in appends, AppendTermNotSaved(m) \/ RefuseAppend(m)
      PROVE  StatesMoveOn
  <2>1. m.to \in Node /\ m.term \in Nat
    BY DEF TypeInv, TypeOK, AppendEntriesRequest
  <2>2. /\ SetMem(m.to, ObserveTerm(mem[m.to], m.term))
        /\ \/ NotSaved /\ ~(m.term > mem[m.to].term)
           \/ SaveOk(m.to, ObserveTerm(mem[m.to], m.term))
           \/ SaveFails(m.to, {disk[m.to], ObserveTerm(mem[m.to], m.term)})
    BY <1>9 DEF AppendTermNotSaved, RefuseAppend
  <2> QED BY <2>1, <2>2, ObserveStepStates
<1>10. ASSUME NEW m \in appends, AcceptAppend(m) PROVE StatesMoveOn
  BY <1>10, AcceptAppendStates
<1>11. ASSUME NEW n \in Node, RoundStepsDown(n) PROVE StatesMoveOn
  <2>1. PICK p \in Peers(n) :
           LET s == ObserveTerm(mem[n], repl[n].res[p].term)
           IN SetMem(n, s) /\ (SaveOk(n, s) \/ SaveFails(n, {disk[n], s}))
    BY <1>11 DEF RoundStepsDown
  <2>2. repl[n].res[p].term \in Nat
    <3>1. repl[n].res \in [Node -> AppendEntriesResponse]
      BY DEF TypeInv, TypeOK
    <3> QED BY <3>1 DEF AppendEntriesResponse, Peers
  <2> QED BY <2>1, <2>2, ObserveStepStates
<1>12. ASSUME NEW n \in Node, NEW heard \in SUBSET Peers(n),
              RoundAdvances(n, heard)
       PROVE  StatesMoveOn
  <2>1. PICK top : LET s == [mem[n] EXCEPT !.commit = top]
                   IN /\ SetMem(n, s)
                      /\ \/ SaveOk(n, s) \/ (NotSaved /\ s = mem[n])
                         \/ SaveFails(n, {disk[n], s})
    BY <1>12 DEF RoundAdvances
  <2> DEFINE s == [mem[n] EXCEPT !.commit = top]
  <2>2. s.term = mem[n].term /\ s.votedFor = mem[n].votedFor
    BY DEF TypeInv, TypeOK, PersistentState
  <2>3. SetMem(n, s) /\ SavesChanges(n, disk[n], s)
    BY <2>1 DEF SavesChanges
  <2> HIDE DEF s
  <2> QED BY <2>2, <2>3, SameVoteStates
<1>13. ASSUME NEW n \in Node, NEW v \in Intent, ClientWrite(n, v)
       PROVE  StatesMoveOn
  <2> DEFINE s == [mem[n] EXCEPT !.log = Append(@, [term |-> mem[n].term, cmd |-> v])]
  <2>1. SetMem(n, s) /\ (SaveOk(n, s) \/ SaveFails(n, {disk[n], s}))
    BY <1>13 DEF ClientWrite
  <2>2. s.term = mem[n].term /\ s.votedFor = mem[n].votedFor
    BY DEF TypeInv, TypeOK, PersistentState
  <2> HIDE DEF s
  <2> QED BY <2>1, <2>2, SameVoteStates DEF SavesChanges
<1>14. ASSUME NEW n \in Node, Restart(n) PROVE StatesMoveOn
  BY <1>14, RestartStates
<1> QED BY <1>1, <1>2, <1>3, <1>4, <1>5, <1>6, <1>7, <1>8, <1>9, <1>10,
           <1>11, <1>12, <1>13, <1>14 DEF Next

\* A vote a state file remembers stays remembered.
LEMMA RememberedStays ==
    ASSUME TypeInv, TypeInv', VotesRemembered, StatesMoveOn
    PROVE  \A t \in Nat : \A p, c \in Node :
              Vote(t, p, c) => Remembers(disk'[p], t, c)
<1> SUFFICES ASSUME NEW t \in Nat, NEW p \in Node, NEW c \in Node, Vote(t, p, c)
             PROVE  Remembers(disk'[p], t, c)
  OBVIOUS
<1>1. Remembers(disk[p], t, c)
  BY DEF VotesRemembered
<1>2. disk[p].term \in Nat /\ disk'[p].term \in Nat
  BY DEF TypeInv, TypeOK, PersistentState
<1>3. Later(disk[p], disk'[p])
  BY DEF StatesMoveOn
<1> QED BY <1>1, <1>2, <1>3, LaterRemembers

\* A step without a new vote keeps the invariant.
LEMMA FewerVotes ==
    ASSUME TypeInv, TypeInv', VoteInv, StatesMoveOn,
           \A t \in Nat : \A p, c \in Node : Vote(t, p, c)' => Vote(t, p, c),
           RepliesOfTerm', MajoritiesElected'
    PROVE  VoteInv'
<1>1. VotesRemembered'
  BY RememberedStays DEF VotesRemembered, VoteInv
<1>2. VotesUnique'
  BY DEF VotesUnique, VoteInv
<1> QED BY <1>1, <1>2 DEF VoteInv, StatesMoveOn

\* A step with one new vote, saved first and the only one of its term, keeps it.
LEMMA OneMoreVote ==
    ASSUME TypeInv, TypeInv', VoteInv, StatesMoveOn,
           NEW T \in Nat, NEW v \in Node, NEW cand \in Node,
           \A t \in Nat : \A p, c \in Node :
              Vote(t, p, c)' => Vote(t, p, c) \/ (t = T /\ p = v /\ c = cand),
           Remembers(disk'[v], T, cand),
           \A d \in Node : Vote(T, v, d) => d = cand,
           RepliesOfTerm', MajoritiesElected'
    PROVE  VoteInv'
<1>1. VotesRemembered'
  BY RememberedStays DEF VotesRemembered, VoteInv
<1>2. VotesUnique'
  BY DEF VotesUnique, VoteInv
<1> QED BY <1>1, <1>2 DEF VoteInv, StatesMoveOn

\* Steps that leave the votes alone, or forget some, keep the invariant.
LEMMA NoNewVote ==
    ASSUME TypeInv, TypeInv', VoteInv, StatesMoveOn,
           \A r \in voteReplies' : r \in voteReplies \/ ~r.granted,
           elected' = elected,
           \A c \in Node : camp'[c] = camp[c] \/ camp'[c] = 0
    PROVE  VoteInv'
<1>1. \A t \in Nat : \A p, c \in Node : Vote(t, p, c)' => Vote(t, p, c)
  BY DEF Vote
<1>2. RepliesOfTerm' /\ MajoritiesElected'
  BY DEF RepliesOfTerm, MajoritiesElected, VoteInv, majority
<1> QED BY <1>1, <1>2, FewerVotes

\* A candidate votes for itself in a term no vote of it is known for.
LEMMA CampaignVotes ==
    ASSUME TypeInv, TypeInv', VoteInv, StatesMoveOn, NEW n \in Node, Campaign(n)
    PROVE  VoteInv'
<1> DEFINE s == [mem[n] EXCEPT !.term = @ + 1, !.votedFor = n]
<1>1. /\ UNCHANGED <<voteReplies, elected>>
      /\ \/ camp' = camp
         \/ SaveOk(n, s) /\ camp' = [camp EXCEPT ![n] = s.term]
  BY DEF Campaign
<1>2. CASE camp' = camp
  BY <1>1, <1>2, NoNewVote
<1>3. CASE SaveOk(n, s) /\ camp' = [camp EXCEPT ![n] = s.term]
  <2>1. s.term = mem[n].term + 1 /\ s.votedFor = n
    BY DEF TypeInv, TypeOK, PersistentState
  <2>2. disk'[n] = s
    BY <1>3 DEF SaveOk, TypeInv, TypeOK
  <2> HIDE DEF s
  <2>3. s.term \in Nat
    BY <2>1, StatesTyped
  <2>4. camp'[n] = s.term /\ \A c \in Node \ {n} : camp'[c] = camp[c]
    BY <1>3 DEF TypeInv, TypeOK
  <2>5. \A t \in Nat : \A p, c \in Node :
           Vote(t, p, c)' => Vote(t, p, c) \/ (t = s.term /\ p = n /\ c = n)
    BY <1>1, <2>4 DEF Vote
  <2>6. Remembers(disk'[n], s.term, n)
    BY <2>1, <2>2 DEF Remembers
  <2>7. ASSUME NEW d \in Node, Vote(s.term, n, d) PROVE d = n
    <3>1. Remembers(disk[n], s.term, d)
      BY <2>3, <2>7 DEF VoteInv, VotesRemembered
    <3>2. Later(disk[n], mem[n])
      BY DEF VoteInv, StatesInv
    <3> QED BY <2>1, <3>1, <3>2, StatesTyped DEF Remembers, Later
  <2>8. RepliesOfTerm' /\ MajoritiesElected'
    BY <1>1 DEF RepliesOfTerm, MajoritiesElected, VoteInv, majority
  <2> QED BY <2>3, <2>5, <2>6, <2>7, <2>8, OneMoreVote
<1> QED BY <1>1, <1>2, <1>3

\* handle_request_vote grants at most one candidate per term, and saves first.
LEMMA HandleRequestVoteVotes ==
    ASSUME TypeInv, TypeInv', VoteInv, StatesMoveOn,
           NEW p \in Node, NEW m \in voteReqs, HandleRequestVote(p, m)
    PROVE  VoteInv'
<1> DEFINE seen  == ObserveTerm(mem[p], m.term)
           grant == MayGrant(seen, m)
           s     == IF grant THEN [seen EXCEPT !.votedFor = m.cand] ELSE seen
           reply == [cand |-> m.cand, reqTerm |-> m.term, from |-> p,
                     term |-> s.term, granted |-> grant]
<1>1. /\ UNCHANGED <<camp, elected>>
      /\ m.term >= mem[p].term
      /\ \/ voteReplies' = voteReplies
         \/ /\ voteReplies' = voteReplies \cup {reply}
            /\ grant => SaveOk(p, s)
  BY DEF HandleRequestVote, AnswerVote
<1>2. m.term \in Nat /\ m.cand \in Node /\ WellFormed(mem[p])
  BY StatesWellFormed DEF TypeInv, TypeOK, RequestVoteRequest
<1>3. CASE \/ voteReplies' = voteReplies
           \/ voteReplies' = voteReplies \cup {reply} /\ ~grant
  BY <1>1, <1>3, NoNewVote
<1>4. CASE voteReplies' = voteReplies \cup {reply} /\ grant /\ SaveOk(p, s)
  <2>1. /\ WellFormed(seen) /\ seen.term = Higher(mem[p].term, m.term)
        /\ ~(m.term > mem[p].term) => seen = mem[p]
    BY <1>2, ObserveTermWellFormed, ObserveTermLater
  <2>2. seen.votedFor \in {Nil, m.cand}
    BY <1>4 DEF MayGrant
  <2>3. disk'[p] = s
    BY <1>4 DEF SaveOk, TypeInv, TypeOK
  <2>4. s = [seen EXCEPT !.votedFor = m.cand] /\ reply.granted
    BY <1>4
  <2> HIDE DEF seen, grant, s
  <2>5. s.term = m.term /\ s.votedFor = m.cand
    BY <1>1, <1>2, <2>1, <2>4 DEF WellFormed, PersistentState, Higher
  <2>6. /\ reply.cand = m.cand /\ reply.reqTerm = m.term /\ reply.from = p
        /\ reply.term = m.term
    BY <2>5
  <2> HIDE DEF reply
  <2>7. \A t \in Nat : \A q, c \in Node :
           Vote(t, q, c)' => Vote(t, q, c) \/ (t = m.term /\ q = p /\ c = m.cand)
    BY <1>1, <1>4, <2>6 DEF Vote
  <2>8. Remembers(disk'[p], m.term, m.cand)
    BY <2>3, <2>5 DEF Remembers
  <2>9. ASSUME NEW d \in Node, Vote(m.term, p, d) PROVE d = m.cand
    <3>1. Remembers(disk[p], m.term, d)
      BY <1>2, <2>9 DEF VoteInv, VotesRemembered
    <3>2. Later(disk[p], mem[p])
      BY DEF VoteInv, StatesInv
    <3>3. Remembers(mem[p], m.term, d)
      BY <1>2, <3>1, <3>2, StatesTyped, LaterRemembers
    <3>4. mem[p].term = m.term /\ mem[p].votedFor = d
      BY <1>1, <1>2, <3>3, StatesTyped DEF Remembers
    <3>5. seen = mem[p]
      BY <1>2, <2>1, <3>4
    <3> QED BY <2>2, <3>4, <3>5, NilNotNode
  <2>10. RepliesOfTerm' /\ MajoritiesElected'
    BY <1>1, <1>4, <2>6 DEF RepliesOfTerm, MajoritiesElected, VoteInv, majority
  <2> QED BY <1>2, <2>7, <2>8, <2>9, <2>10, OneMoreVote
<1> QED BY <1>1, <1>3, <1>4

\* campaign() counts only votes of its own term.
LEMMA CampaignWinsVotes ==
    ASSUME TypeInv, TypeInv', VoteInv, StatesMoveOn, NEW n \in Node,
           CampaignWins(n)
    PROVE  VoteInv'
<1> DEFINE won == [term |-> camp[n], node |-> n, voters |-> GrantedBy(n)]
<1>1. /\ camp[n] # 0
      /\ Cardinality(GrantedBy(n)) >= majority
      /\ elected' = elected \cup {won}
      /\ camp' = [camp EXCEPT ![n] = 0]
      /\ voteReplies' \subseteq voteReplies
  BY DEF CampaignWins, ForgetReplies
<1>2. \A c \in Node : camp'[c] = camp[c] \/ camp'[c] = 0
  BY <1>1 DEF TypeInv, TypeOK
<1>3. ASSUME NEW p \in GrantedBy(n) PROVE Vote(camp[n], p, n)
  <2>1. CASE p = n
    BY <1>1, <2>1 DEF Vote
  <2>2. CASE p # n
    <3>1. PICK r \in voteReplies : /\ r.cand = n /\ r.granted
                                   /\ r.term = camp[n] /\ r.from = p
      BY <1>3, <2>2 DEF GrantedBy, VoteRepliesTo
    <3>2. r.reqTerm = camp[n]
      BY <3>1 DEF VoteInv, RepliesOfTerm
    <3> QED BY <3>1, <3>2 DEF Vote
  <2> QED BY <2>1, <2>2
<1>4. ASSUME NEW t \in Nat, NEW p \in Node, NEW c \in Node, Vote(t, p, c)'
      PROVE  Vote(t, p, c)
  <2>1. CASE \E r \in voteReplies' : /\ r.granted /\ r.reqTerm = t
                                     /\ r.from = p /\ r.cand = c
    BY <1>1, <2>1 DEF Vote
  <2>2. CASE \E e \in elected' : e.term = t /\ e.node = c /\ p \in e.voters
    <3>1. PICK e \in elected' : e.term = t /\ e.node = c /\ p \in e.voters
      BY <2>2
    <3>2. CASE e \in elected
      BY <3>1, <3>2 DEF Vote
    <3>3. CASE e = won
      BY <1>3, <3>1, <3>3
    <3> QED BY <1>1, <3>2, <3>3
  <2>3. CASE camp'[c] = t /\ t # 0 /\ p = c
    BY <1>2, <2>3 DEF Vote
  <2> QED BY <1>4, <2>1, <2>2, <2>3 DEF Vote
<1>5. RepliesOfTerm' /\ MajoritiesElected'
  BY <1>1 DEF RepliesOfTerm, MajoritiesElected, VoteInv, majority
<1> QED BY <1>4, <1>5, FewerVotes

\* VoteInv is inductive.
LEMMA NextVotes ==
    ASSUME TypeInv, TypeInv', VoteInv, [Next]_vars
    PROVE  VoteInv'
<1>1. StatesMoveOn
  BY NextStates DEF VoteInv
<1>2. CASE UNCHANGED <<voteReplies, elected, camp>>
  BY <1>1, <1>2, NoNewVote
<1>3. CASE UNCHANGED vars
  BY <1>2, <1>3 DEF vars, net, history
<1>4. ASSUME NEW n \in Node, Campaign(n) PROVE VoteInv'
  BY <1>1, <1>4, CampaignVotes
<1>5. ASSUME NEW p \in Node, NEW m \in voteReqs, HandleRequestVote(p, m)
      PROVE  VoteInv'
  BY <1>1, <1>5, HandleRequestVoteVotes
<1>6. ASSUME NEW p \in Node, NEW m \in voteReqs, RefuseStaleVote(p, m)
      PROVE  VoteInv'
  <2>1. UNCHANGED <<elected, camp>>
    BY <1>6 DEF RefuseStaleVote, history
  <2>2. \A r \in voteReplies' : r \in voteReplies \/ ~r.granted
    BY <1>6 DEF RefuseStaleVote, AnswerVote
  <2> QED BY <1>1, <2>1, <2>2, NoNewVote
<1>7. ASSUME NEW n \in Node, CampaignStepsDown(n) \/ CampaignEnds(n) \/ Restart(n)
      PROVE  VoteInv'
  <2>1. /\ camp' = [camp EXCEPT ![n] = 0] /\ elected' = elected
        /\ voteReplies' \subseteq voteReplies
    BY <1>7 DEF CampaignStepsDown, CampaignEnds, Restart, ForgetReplies, history
  <2>2. \A c \in Node : camp'[c] = camp[c] \/ camp'[c] = 0
    BY <2>1 DEF TypeInv, TypeOK
  <2> QED BY <1>1, <2>1, <2>2, NoNewVote
<1>8. ASSUME NEW n \in Node, CampaignWins(n) PROVE VoteInv'
  BY <1>1, <1>8, CampaignWinsVotes
<1>9. ASSUME NEW n \in Node,
             \/ StartRound(n) \/ RoundIsStale(n) \/ RoundStepsDown(n)
             \/ \E heard \in SUBSET Peers(n) : RoundAdvances(n, heard)
             \/ \E v \in Intent : ClientWrite(n, v)
             \/ WriteSucceeds(n) \/ WriteGivesUp(n)
      PROVE  VoteInv'
  BY <1>2, <1>9 DEF StartRound, RoundIsStale, RoundStepsDown, RoundAdvances,
     ClientWrite, WriteSucceeds, WriteGivesUp, net, history
<1>10. ASSUME NEW m \in appends,
              \/ RefuseStaleAppend(m) \/ AppendTermNotSaved(m)
              \/ RefuseAppend(m) \/ AcceptAppend(m)
       PROVE  VoteInv'
  BY <1>2, <1>10 DEF RefuseStaleAppend, AppendTermNotSaved, RefuseAppend,
     AcceptAppend, net, history
<1> QED BY <1>3, <1>4, <1>5, <1>6, <1>7, <1>8, <1>9, <1>10 DEF Next

\* There is no vote before the first campaign.
LEMMA InitVotes == Init => VoteInv
<1> SUFFICES ASSUME Init PROVE VoteInv
  OBVIOUS
<1>1. StatesInv
  BY DEF Init, StatesInv, Later, Fresh
<1>2. \A t \in Nat : \A p, c \in Node : ~Vote(t, p, c)
  BY DEF Init, Vote
<1>3. RepliesOfTerm /\ MajoritiesElected
  BY DEF Init, RepliesOfTerm, MajoritiesElected
<1> QED BY <1>1, <1>2, <1>3 DEF VoteInv, VotesRemembered, VotesUnique

\* The inductive invariant, for every finite cluster and every bound.
THEOREM VoteInvariant == Spec => [](TypeInv /\ VoteInv)
<1>1. Init => TypeInv /\ VoteInv
  BY InitTypeInv, InitVotes
<1>2. TypeInv /\ VoteInv /\ [Next]_vars => (TypeInv /\ VoteInv)'
  BY NextTypeInv, NextVotes
<1> QED BY <1>1, <1>2, PTL DEF Spec

\* Two majorities share a voter, so the invariant gives one leader per term.
LEMMA OneLeaderPerTerm == TypeInv /\ VoteInv => ElectionSafety
<1> SUFFICES ASSUME TypeInv, VoteInv, NEW e \in elected, NEW f \in elected,
                    e.term = f.term
             PROVE  e.node = f.node
  BY DEF ElectionSafety
<1>1. /\ e.voters \subseteq Node /\ f.voters \subseteq Node
      /\ e.term \in Nat /\ e.node \in Node /\ f.node \in Node
  BY DEF TypeInv, TypeOK
<1>2. Cardinality(e.voters) >= majority /\ Cardinality(f.voters) >= majority
  BY DEF VoteInv, MajoritiesElected
<1>3. /\ Cardinality(Node) \in Nat /\ Cardinality(e.voters) \in Nat
      /\ Cardinality(f.voters) \in Nat
  BY <1>1, NodeFinite, FS_CardinalityType, FS_Subset
<1>4. Cardinality(e.voters) + Cardinality(f.voters) > Cardinality(Node)
  BY <1>2, <1>3 DEF majority
<1>5. PICK p : p \in e.voters /\ p \in f.voters
  BY <1>1, <1>4, NodeFinite, FS_MajoritiesIntersect
<1>6. p \in Node /\ Vote(e.term, p, e.node) /\ Vote(e.term, p, f.node)
  BY <1>1, <1>5 DEF Vote
<1> QED BY <1>1, <1>6 DEF VoteInv, VotesUnique

\* At most one node ever wins an election in a term, whatever is lost,
\* delayed, reordered or repeated, across restarts and failed saves.
THEOREM OneLeader == Spec => []ElectionSafety
BY VoteInvariant, OneLeaderPerTerm, PTL

\* The state file never goes back in term or changes the vote of a term, and
\* equals the memory of a node whose saves have not failed.
THEOREM VoteIsDurable == Spec => DurableVoteIsStable
<1> DEFINE Step == \A n \in Node :
              /\ disk'[n].term >= disk[n].term
              /\ disk'[n].term = disk[n].term /\ disk[n].votedFor # Nil
                    => disk'[n].votedFor = disk[n].votedFor
              /\ ~storageError'[n] => mem'[n] = disk'[n]
<1>1. TypeInv /\ TypeInv' /\ VoteInv /\ [Next]_vars => Step
  <2> SUFFICES ASSUME TypeInv, TypeInv', VoteInv, [Next]_vars PROVE Step
    OBVIOUS
  <2>1. StatesMoveOn
    BY NextStates DEF VoteInv
  <2>2. \A n \in Node : disk[n].term \in Nat /\ disk'[n].term \in Nat
    BY DEF TypeInv, TypeOK, PersistentState
  <2> QED BY <2>1, <2>2 DEF StatesMoveOn, StatesInv, Later
<1>2. DurableVoteIsStable <=> [][Step]_vars
  BY DEF DurableVoteIsStable
<1> HIDE DEF Step
<1> QED BY <1>1, <1>2, VoteInvariant, PTL DEF Spec

-----------------------------------------------------------------------------
(* The configuration that is served.  No step rewrites the part of a log below *)
(* the commit index or moves that index back, so the cached                    *)
(* committed_configuration needs refreshing only when the commit index moves,  *)
(* which is when apply_committed_locked is called.  A restart reads the state  *)
(* file, which is the memory unless a save has failed (StatesInv).             *)

\* b keeps what a has committed.
Keeps(a, b) == /\ a.commit <= b.commit
               /\ \A i \in 1..a.commit : b.log[i] = a.log[i]

Configs(s) == {i \in 1..s.commit : s.log[i].cmd # Noop}

\* The revision of apply_committed is the largest committed configuration index.
LEMMA ApplyCommittedRevision ==
    ASSUME NEW s, WellFormed(s)
    PROVE  /\ Configs(s) = {} => apply_committed(s).revision = 0
           /\ Configs(s) # {} =>
                 /\ apply_committed(s).revision \in Configs(s)
                 /\ \A j \in Configs(s) : j <= apply_committed(s).revision
<1> DEFINE top == CHOOSE i \in Configs(s) : \A j \in Configs(s) : j <= i
<1>1. CASE Configs(s) = {}
  BY <1>1 DEF apply_committed, Configs, NoConfiguration
<1>2. CASE Configs(s) # {}
  <2>1. s.commit \in Nat /\ Configs(s) \subseteq 0..s.commit
    BY DEF Configs, WellFormed, PersistentState
  <2>2. \E i \in Configs(s) : \A j \in Configs(s) : j <= i
    BY <1>2, <2>1, MaxExists
  <2>3. top \in Configs(s) /\ \A j \in Configs(s) : j <= top
    BY <2>2
  <2>4. apply_committed(s).revision = top
    BY <1>2 DEF apply_committed, Configs
  <2> HIDE DEF top
  <2> QED BY <1>2, <2>3, <2>4
<1> QED BY <1>1, <1>2

\* apply_committed depends on nothing above the commit index.
LEMMA ApplyCommittedSame ==
    ASSUME NEW a, WellFormed(a), NEW b, WellFormed(b), Keeps(a, b),
           b.commit = a.commit
    PROVE  apply_committed(b) = apply_committed(a)
<1>1. Configs(b) = Configs(a)
  BY DEF Configs, Keeps, WellFormed, PersistentState
<1>2. CASE Configs(a) = {}
  BY <1>1, <1>2 DEF apply_committed, Configs
<1>3. CASE Configs(a) # {}
  <2> DEFINE top == CHOOSE i \in Configs(a) : \A j \in Configs(a) : j <= i
  <2>1. /\ apply_committed(a) = [revision |-> top, term |-> a.log[top].term,
                                 cmd |-> a.log[top].cmd]
        /\ apply_committed(b) = [revision |-> top, term |-> b.log[top].term,
                                 cmd |-> b.log[top].cmd]
    BY <1>1, <1>3 DEF apply_committed, Configs
  <2>2. top = apply_committed(a).revision
    BY <2>1
  <2>3. top \in Configs(a)
    BY <1>3, <2>2, ApplyCommittedRevision
  <2> HIDE DEF top
  <2>4. b.log[top] = a.log[top]
    BY <2>3 DEF Configs, Keeps
  <2> QED BY <2>1, <2>4, ZenonT(40)
<1> QED BY <1>2, <1>3

\* Committing more never lowers the revision.
LEMMA ApplyCommittedGrows ==
    ASSUME NEW a, WellFormed(a), NEW b, WellFormed(b), Keeps(a, b)
    PROVE  apply_committed(a).revision <= apply_committed(b).revision
<1>1. a.commit \in Nat /\ b.commit \in Nat
  BY DEF WellFormed, PersistentState
<1>2. Configs(a) \subseteq Configs(b)
  BY <1>1 DEF Configs, Keeps
<1>3. Configs(a) \subseteq Nat /\ Configs(b) \subseteq Nat
  BY <1>1 DEF Configs
<1> QED BY <1>2, <1>3, ApplyCommittedRevision

\* What a step does to the served configurations.
ServedMovesOn ==
    /\ AppliedIsCurrent'
    /\ \A k \in Node : applied'[k].revision < applied[k].revision => storageError[k]

\* A step that keeps what a node has committed refreshes the cache as needed.
LEMMA NodeStepServed ==
    ASSUME TypeInv, TypeInv', AppliedIsCurrent, NEW n \in Node,
           NEW s, SetMem(n, s), Keeps(mem[n], s)
    PROVE  ServedMovesOn
<1>1. /\ mem'[n] = s
      /\ \A k \in Node \ {n} : mem'[k] = mem[k] /\ applied'[k] = applied[k]
  BY DEF SetMem, TypeInv, TypeOK
<1>2. applied'[n] = IF s.commit = mem[n].commit THEN applied[n]
                    ELSE apply_committed(s)
  BY DEF SetMem, TypeInv, TypeOK
<1>3. WellFormed(mem[n]) /\ WellFormed(s)
  BY <1>1, StatesWellFormed DEF TypeInv, TypeOK, WellFormed
<1>4. applied[n] = apply_committed(mem[n])
  BY DEF AppliedIsCurrent
<1>5. applied'[n] = apply_committed(s)
  BY <1>2, <1>3, <1>4, ApplyCommittedSame
<1>6. AppliedIsCurrent'
  BY <1>1, <1>5 DEF AppliedIsCurrent
<1>7. applied[n].revision <= applied'[n].revision
  BY <1>3, <1>4, <1>5, ApplyCommittedGrows
<1>8. \A k \in Node : applied[k].revision \in Nat /\ applied'[k].revision \in Nat
  BY DEF TypeInv, TypeOK, CommittedConfiguration
<1>9. \A k \in Node : ~(applied'[k].revision < applied[k].revision)
  BY <1>1, <1>7, <1>8
<1> QED BY <1>6, <1>9 DEF ServedMovesOn

\* A step that leaves memory and cache alone keeps them current.
LEMMA OtherStepServed ==
    ASSUME TypeInv, AppliedIsCurrent, UNCHANGED <<mem, applied>>
    PROVE  ServedMovesOn
<1>1. \A k \in Node : applied[k].revision \in Nat
  BY DEF TypeInv, TypeOK, CommittedConfiguration
<1> QED BY <1>1 DEF ServedMovesOn, AppliedIsCurrent

\* become_follower keeps what is committed.
LEMMA ObserveTermKeeps ==
    ASSUME NEW s, WellFormed(s), NEW t \in Nat
    PROVE  Keeps(s, ObserveTerm(s, t))
BY ObserveTermWellFormed DEF Keeps, WellFormed, PersistentState

\* A healthy node serves after a restart what it served before.
LEMMA RestartServed ==
    ASSUME TypeInv, TypeInv', StatesInv, AppliedIsCurrent, NEW n \in Node, Restart(n)
    PROVE  ServedMovesOn
<1>1. /\ mem'[n] = disk[n] /\ applied'[n] = apply_committed(disk[n])
      /\ \A k \in Node \ {n} : mem'[k] = mem[k] /\ applied'[k] = applied[k]
  BY DEF Restart, TypeInv, TypeOK
<1>2. AppliedIsCurrent'
  BY <1>1 DEF AppliedIsCurrent
<1>3. \A k \in Node : applied[k].revision \in Nat /\ applied'[k].revision \in Nat
  BY DEF TypeInv, TypeOK, CommittedConfiguration
<1>4. ~storageError[n] => applied'[n] = applied[n]
  BY <1>1 DEF StatesInv, AppliedIsCurrent
<1> QED BY <1>1, <1>2, <1>3, <1>4 DEF ServedMovesOn

\* Memory, cache, history and storage errors stay.
ServesOn == UNCHANGED <<mem, applied, chosen, storageError>>

\* Node n moves to a state that keeps what it has committed; a save may fail.
Moves(n) ==
    /\ \E s : SetMem(n, s) /\ Keeps(mem[n], s)
    /\ storageError' \in {storageError, [storageError EXCEPT ![n] = TRUE]}

\* Only the saving node can be found broken.
LEMMA SavesMayBreak ==
    ASSUME NEW n, NEW a, NEW s, Saves(n, a, s)
    PROVE  storageError' \in {storageError, [storageError EXCEPT ![n] = TRUE]}
BY DEF Saves, NotSaved, SaveOk, SaveFails

\* Every step but a restart keeps what each node has committed.
LEMMA NextKeeps ==
    ASSUME TypeInv, [Next]_vars
    PROVE  \/ ServesOn
           \/ \E n \in Node : Moves(n)
           \/ \E n \in Node : Restart(n)
<1> USE DEF Keeps
<1>1. CASE UNCHANGED vars
  BY <1>1 DEF vars, ServesOn, history
<1>2. ASSUME NEW n \in Node, NEW a, NEW s, Saves(n, a, s), SetMem(n, s), Keeps(mem[n], s)
      PROVE  Moves(n)
  BY <1>2, SavesMayBreak DEF Moves
<1>3. ASSUME NEW n \in Node, Campaign(n) PROVE Moves(n)
  <2> DEFINE s == [mem[n] EXCEPT !.term = @ + 1, !.votedFor = n]
  <2>1. SetMem(n, s) /\ Saves(n, disk[n], s)
    BY <1>3 DEF Campaign, Saves
  <2>2. s.log = mem[n].log /\ s.commit = mem[n].commit /\ mem[n].commit \in Nat
    BY DEF TypeInv, TypeOK, PersistentState
  <2> HIDE DEF s
  <2> QED BY <1>2, <2>1, <2>2
<1>4. ASSUME NEW p \in Node, NEW m \in voteReqs, HandleRequestVote(p, m)
      PROVE  Moves(p)
  <2> DEFINE seen  == ObserveTerm(mem[p], m.term)
             grant == MayGrant(seen, m)
             s     == IF grant THEN [seen EXCEPT !.votedFor = m.cand] ELSE seen
  <2>1. SetMem(p, s) /\ Saves(p, disk[p], s)
    BY <1>4 DEF HandleRequestVote, Saves
  <2>2. m.term \in Nat
    BY DEF TypeInv, TypeOK, RequestVoteRequest
  <2>3. WellFormed(seen) /\ seen.log = mem[p].log /\ seen.commit = mem[p].commit
    BY <2>2, StatesWellFormed, ObserveTermWellFormed
  <2> HIDE DEF seen, grant
  <2>4. s.log = mem[p].log /\ s.commit = mem[p].commit /\ s.commit \in Nat
    BY <2>3 DEF WellFormed, PersistentState
  <2> HIDE DEF s
  <2> QED BY <1>2, <2>1, <2>4
<1>5. ASSUME NEW n \in Node, NEW t \in Nat, NEW s, s = ObserveTerm(mem[n], t),
             SetMem(n, s), Saves(n, disk[n], s)
      PROVE  Moves(n)
  <2>1. Keeps(mem[n], s)
    BY <1>5, StatesWellFormed, ObserveTermKeeps
  <2> QED BY <1>2, <1>5, <2>1
<1>6. ASSUME NEW n \in Node, CampaignStepsDown(n) PROVE Moves(n)
  <2>1. PICK r \in VoteRepliesTo(n) :
           LET s == ObserveTerm(mem[n], r.term)
           IN SetMem(n, s) /\ (SaveOk(n, s) \/ SaveFails(n, {disk[n], s}))
    BY <1>6 DEF CampaignStepsDown
  <2>2. r.term \in Nat
    BY DEF VoteRepliesTo, TypeInv, TypeOK, RequestVoteResponse
  <2> QED BY <1>5, <2>1, <2>2 DEF Saves
<1>7. ASSUME NEW n \in Node, NEW e \in LogEntry, NEW s,
             s = [mem[n] EXCEPT !.log = Append(@, e)],
             SetMem(n, s), Saves(n, disk[n], s)
      PROVE  Moves(n)
  <2>1. /\ s.commit = mem[n].commit /\ mem[n].commit \in Nat
        /\ \A i \in 1..mem[n].commit : s.log[i] = mem[n].log[i]
    BY <1>7, StatesWellFormed, AppendWellFormed DEF WellFormed, PersistentState
  <2>2. Keeps(mem[n], s)
    BY <2>1
  <2>3. SetMem(n, s) /\ Saves(n, disk[n], s)
    BY <1>7
  <2> QED BY <1>2, <2>2, <2>3
<1>8. ASSUME NEW n \in Node, CampaignWins(n) PROVE Moves(n)
  <2> DEFINE s == [mem[n] EXCEPT !.log = Append(@, LeaderNoop(n))]
  <2>1. SetMem(n, s) /\ Saves(n, disk[n], s) /\ camp[n] # 0 /\ mem[n].term = camp[n]
    BY <1>8 DEF CampaignWins, Saves
  <2>2. LeaderNoop(n) \in LogEntry
    BY <2>1, StatesTyped DEF LeaderNoop, LogEntry, Command
  <2> QED BY <1>7, <2>1, <2>2
<1>9. ASSUME NEW n \in Node, NEW v \in Intent, ClientWrite(n, v) PROVE Moves(n)
  <2> DEFINE entry == [term |-> mem[n].term, cmd |-> v]
             s == [mem[n] EXCEPT !.log = Append(@, entry)]
  <2>1. SetMem(n, s) /\ Saves(n, disk[n], s) /\ role[n] = "Leader"
    BY <1>9 DEF ClientWrite, Saves
  <2>2. entry \in LogEntry
    BY <2>1, StatesTyped DEF TypeInv, LogEntry, Command
  <2> HIDE DEF entry
  <2> QED BY <1>7, <2>1, <2>2
<1>10. ASSUME NEW m \in appends, AppendTermNotSaved(m) \/ RefuseAppend(m)
       PROVE  \E n \in Node : Moves(n)
  <2>1. m.to \in Node /\ m.term \in Nat
    BY DEF TypeInv, TypeOK, AppendEntriesRequest
  <2>2. LET s == ObserveTerm(mem[m.to], m.term)
        IN SetMem(m.to, s) /\ Saves(m.to, disk[m.to], s)
    BY <1>10 DEF AppendTermNotSaved, RefuseAppend, Saves
  <2> QED BY <1>5, <2>1, <2>2
<1>11. ASSUME NEW m \in appends, AcceptAppend(m) PROVE \E n \in Node : Moves(n)
  <2>1. m.to \in Node
    BY DEF TypeInv, TypeOK, AppendEntriesRequest
  <2>2. /\ previous_matches(ObserveTerm(mem[m.to], m.term).log, m.prevIndex,
                            m.prevTerm)
        /\ ~OverwritesCommitted(ObserveTerm(mem[m.to], m.term), m)
        /\ SetMem(m.to, Accepted(m))
        /\ Saves(m.to, ObserveTerm(mem[m.to], m.term), Accepted(m))
    BY <1>11 DEF AcceptAppend, Saves
  <2>3. /\ Accepted(m).commit >= mem[m.to].commit
        /\ WellFormed(Accepted(m))
        /\ \A i \in 1..mem[m.to].commit :
              Accepted(m).log[i] = mem[m.to].log[i]
    BY <2>2, AcceptedWellFormed
  <2>4. Keeps(mem[m.to], Accepted(m))
    BY <2>1, <2>3, StatesWellFormed DEF WellFormed, PersistentState
  <2> QED BY <1>2, <2>1, <2>2, <2>4
<1>12. ASSUME NEW n \in Node, RoundStepsDown(n) PROVE Moves(n)
  <2>1. PICK p \in Peers(n) :
           LET s == ObserveTerm(mem[n], repl[n].res[p].term)
           IN SetMem(n, s) /\ (SaveOk(n, s) \/ SaveFails(n, {disk[n], s}))
    BY <1>12 DEF RoundStepsDown
  <2>2. repl[n].res[p].term \in Nat
    <3>1. repl[n].res \in [Node -> AppendEntriesResponse]
      BY DEF TypeInv, TypeOK
    <3> QED BY <3>1 DEF AppendEntriesResponse, Peers
  <2> QED BY <1>5, <2>1, <2>2 DEF Saves
<1>13. ASSUME NEW n \in Node, NEW heard \in SUBSET Peers(n),
              RoundAdvances(n, heard)
       PROVE  Moves(n)
  <2>1. PICK match :
           LET s == [mem[n] EXCEPT !.commit =
                        highest_committable_index(mem[n], match, n)]
           IN SetMem(n, s) /\ Saves(n, disk[n], s)
    BY <1>13 DEF RoundAdvances, Saves
  <2> DEFINE top == highest_committable_index(mem[n], match, n)
             s == [mem[n] EXCEPT !.commit = top]
  <2>2. WellFormed(mem[n])
    BY StatesWellFormed
  <2>3. top \in Nat /\ mem[n].commit <= top /\ top <= Len(mem[n].log)
    BY <2>2, HighestCommittableType DEF WellFormed
  <2>4. SetMem(n, s) /\ Saves(n, disk[n], s)
    BY <2>1
  <2> HIDE DEF top
  <2>5. s.log = mem[n].log /\ s.commit = top
    BY <2>2, <2>3, CommitWellFormed
  <2> HIDE DEF s
  <2> QED BY <1>2, <2>3, <2>4, <2>5
<1>14. ASSUME NEW n \in Node,
              \/ CampaignEnds(n) \/ StartRound(n) \/ RoundIsStale(n)
              \/ WriteSucceeds(n) \/ WriteGivesUp(n)
       PROVE  ServesOn
  BY <1>14 DEF CampaignEnds, StartRound, RoundIsStale, WriteSucceeds, WriteGivesUp,
               ServesOn, history
<1>15. ASSUME NEW p \in Node, NEW m \in voteReqs, RefuseStaleVote(p, m)
       PROVE  ServesOn
  BY <1>15 DEF RefuseStaleVote, ServesOn, history
<1>16. ASSUME NEW m \in appends, RefuseStaleAppend(m) PROVE ServesOn
  BY <1>16 DEF RefuseStaleAppend, ServesOn, history
<1> QED BY <1>1, <1>3, <1>4, <1>6, <1>8, <1>9, <1>10, <1>11, <1>12, <1>13,
           <1>14, <1>15, <1>16 DEF Next

\* Every step keeps the served configurations current.
LEMMA NextServed ==
    ASSUME TypeInv, TypeInv', StatesInv, AppliedIsCurrent, [Next]_vars
    PROVE  ServedMovesOn
<1>1. CASE ServesOn
  BY <1>1, OtherStepServed DEF ServesOn
<1>2. CASE \E n \in Node : Moves(n)
  BY <1>2, NodeStepServed DEF Moves
<1>3. CASE \E n \in Node : Restart(n)
  BY <1>3, RestartServed
<1> QED BY <1>1, <1>2, <1>3, NextKeeps

\* The configuration a node answers reads with is the last one its committed
\* log prefix holds.
THEOREM ServedIsCurrent == Spec => []AppliedIsCurrent
<1>1. Init => AppliedIsCurrent
  <2>1. apply_committed(Fresh) = NoConfiguration
    BY DEF apply_committed, Fresh
  <2> QED BY <2>1 DEF Init, AppliedIsCurrent
<1>2. TypeInv /\ TypeInv' /\ VoteInv /\ AppliedIsCurrent /\ [Next]_vars
         => AppliedIsCurrent'
  BY NextServed DEF VoteInv, ServedMovesOn
<1> QED BY <1>1, <1>2, VoteInvariant, PTL DEF Spec

\* The revision a node serves never goes back, restarts included, unless the
\* node has failed to save its state.
THEOREM RevisionMonotone == Spec => RevisionNeverRegresses
<1> DEFINE Step == \A n \in Node : applied'[n].revision < applied[n].revision
                                      => storageError[n]
<1>1. TypeInv /\ TypeInv' /\ VoteInv /\ AppliedIsCurrent /\ [Next]_vars => Step
  BY NextServed DEF VoteInv, ServedMovesOn
<1>2. RevisionNeverRegresses <=> [][Step]_vars
  BY DEF RevisionNeverRegresses
<1> HIDE DEF Step
<1> QED BY <1>1, <1>2, VoteInvariant, ServedIsCurrent, PTL DEF Spec
=============================================================================
