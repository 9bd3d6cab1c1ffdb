-------------------------- MODULE RaftSafetyProofs --------------------------
(***************************************************************************)
(* What is committed stays: the safety half of Raft's log, and the         *)
(* refinement of ConfigService, for every finite cluster and every bound.  *)
(*                                                                         *)
(* An entry (index i, term T) is safe with a set A of nodes when every log *)
(* beyond T has it, the nodes of A hold it in memory and on disk, and a    *)
(* candidate of a later term that has the vote of one of them has it too.  *)
(* No step makes a safe entry unsafe.  An entry of a leader's own term is  *)
(* safe with the nodes that acknowledged it for as long as it is open,     *)
(* that is, as long as a majority has either acknowledged it or not yet    *)
(* moved beyond T: until then nobody can have won a later term without it. *)
(* A commit needs a majority of acknowledgements, so a committed entry was *)
(* open, hence safe with a majority, and stays so for ever.                *)
(***************************************************************************)
EXTENDS RaftLogProofs

Quorums == {Q \in SUBSET Node : Cardinality(Q) >= majority}

\* p has confirmed entry i to leader n, in an answer n has counted or still may.
Acked(n, p, i) ==
    \/ matchIndex[n][p] >= i
    \/ Answered(n, p) /\ repl[n].res[p].match >= i

\* The nodes that leader n may count for entry i; itself once it is on disk.
Ackers(n, i) ==
    {p \in Peers(n) : Acked(n, p, i)} \cup {q \in {n} : i <= Len(disk[n].log)}

\* A majority has not passed term T, but for members of A.
Open(T, A) == \E Q \in Quorums : \A q \in Q : q \in A \/ disk[q].term <= T

Held(i, T, A) == \A q \in A : Has(mem[q].log, i, T) /\ Has(disk[q].log, i, T)

Heeded(i, T, A) ==
    \A r \in voteReplies :
        r.granted /\ r.from \in A /\ r.reqTerm > T /\ Live(r.cand)
           => Has(mem[r.cand].log, i, T)

Safe(F, i, T, A) == Inherited(F, i, T) /\ Held(i, T, A) /\ Heeded(i, T, A)

\* Leader n appended entry i itself.
Own(n, i) ==
    role[n] = "Leader" /\ i \in 1..Len(mem[n].log) /\ mem[n].log[i].term = mem[n].term

\* The entry is safe while it is open.
SafeWhileOpen(F, n, i) ==
    Open(mem[n].term, Ackers(n, i)) => Safe(F, i, mem[n].term, Ackers(n, i))

LeaderSafe(F) == \A n \in Node : \A i \in Nat : Own(n, i) => SafeWhileOpen(F, n, i)

\* The indexes of the history whose entries are safe with a majority.
Points(F) ==
    {j \in 1..Len(chosen) : \E Q \in Quorums : Safe(F, j, chosen[j].term, Q)}

\* A log whose first c entries are those of the history, by a point of no later
\* term than t.
Knows(log, c, t, prefix, points) ==
    /\ c <= Len(log) /\ c <= Len(prefix)
    /\ \A j \in 1..c : log[j] = prefix[j]
    /\ c > 0 => \E j \in points : c <= j /\ prefix[j].term <= t

Committed(F) ==
    /\ \E a \in F : IsPrefixOf(chosen, a)
    /\ Len(chosen) > 0 => Len(chosen) \in Points(F)
    /\ \A n \in Node :
          /\ Knows(mem[n].log, mem[n].commit, mem[n].term, chosen, Points(F))
          /\ Knows(disk[n].log, disk[n].commit, disk[n].term, chosen, Points(F))
    /\ \A m \in appends : \E src \in F :
          SentFrom(m, src) /\ Knows(src, m.commit, m.term, chosen, Points(F))

LogInv(F) == Struct(F) /\ LeaderSafe(F) /\ Committed(F)

-----------------------------------------------------------------------------
(* Majorities and safe entries.                                              *)

\* Two majorities share a node.
LEMMA QuorumsMeet ==
    ASSUME NEW P \in Quorums, NEW Q \in Quorums
    PROVE  \E q \in Node : q \in P /\ q \in Q
<1>1. /\ P \subseteq Node /\ Q \subseteq Node
      /\ Cardinality(P) >= majority /\ Cardinality(Q) >= majority
  BY DEF Quorums
<1>2. /\ Cardinality(Node) \in Nat /\ Cardinality(P) \in Nat /\ Cardinality(Q) \in Nat
  BY <1>1, NodeFinite, FS_CardinalityType, FS_Subset
<1>3. Cardinality(P) + Cardinality(Q) > Cardinality(Node)
  BY <1>1, <1>2 DEF majority
<1>4. PICK q : q \in P /\ q \in Q
  BY <1>1, <1>3, NodeFinite, FS_MajoritiesIntersect
<1> QED BY <1>1, <1>4

\* The nodes together are a majority, and one node is none.
LEMMA QuorumSizes ==
    /\ Node \in Quorums
    /\ \A n \in Node : Cardinality({n}) < majority
<1>1. Cardinality(Node) \in Nat
  BY NodeFinite, FS_CardinalityType
<1>2. \A n \in Node : Cardinality({n}) = 1
  BY FS_Singleton
<1>3. majority <= Cardinality(Node) /\ majority > 1
  BY <1>1, SeveralNodes DEF majority
<1> QED BY <1>1, <1>2, <1>3 DEF Quorums

\* Fewer nodes to hold an entry: still safe.
LEMMA SafeWithFewer ==
    ASSUME NEW F, NEW i, NEW T, NEW A, NEW B \in SUBSET A, Safe(F, i, T, A)
    PROVE  Safe(F, i, T, B)
BY DEF Safe, Held, Heeded

\* What a step that keeps the structure does to the entries of logs: a log that
\* changes does not lose an entry which later terms inherit.
KeepsEntries(F) ==
    \A i, T \in Nat : Inherited(F, i, T) =>
        \A k \in Node :
            Has(mem[k].log, i, T) /\ Has(disk[k].log, i, T)
               => Has(mem'[k].log, i, T) /\ Has(disk'[k].log, i, T)

\* Logs that are new inherit what is safe and open.
Inherits(F, H) ==
    \A i, T \in Nat : \A A \in SUBSET Node :
        Safe(F, i, T, A) /\ Open(T, A) => Inherited(H, i, T)

\* What every step does.
LogStep(F, H) ==
    /\ Struct(H)' /\ F \subseteq H
    /\ KeepsEntries(F) /\ GrantsChecked /\ Inherits(F, H)

\* A step keeps a safe entry safe.
LEMMA SafeKept ==
    ASSUME NEW F, NEW H, TypeInv, TypeInv', Struct(F), LogStep(F, H),
           NEW i \in Nat, NEW T \in Nat, NEW A \in SUBSET Node,
           Safe(F, i, T, A), Open(T, A)
    PROVE  Safe(H, i, T, A)'
<1>1. Inherited(F, i, T) /\ Inherited(H, i, T)
  BY DEF LogStep, Inherits, Safe
<1>2. Held(i, T, A)'
  BY <1>1 DEF LogStep, KeepsEntries, Safe, Held
<1>3. Heeded(i, T, A)'
  <2> SUFFICES ASSUME NEW r \in voteReplies', r.granted, r.from \in A, r.reqTerm > T,
                      Live(r.cand)'
               PROVE  Has(mem'[r.cand].log, i, T)
    BY DEF Heeded
  <2>1. r.cand \in Node /\ r.from \in Node
    BY DEF TypeInv, TypeOK, RequestVoteResponse
  <2>2. /\ mem'[r.cand].log = mem[r.cand].log
        /\ \/ r \in voteReplies /\ Live(r.cand)
           \/ candidate_log_is_at_least_as_up_to_date(
                 Len(mem[r.cand].log), last_log_term(mem[r.cand].log),
                 mem[r.from].log)
    BY DEF LogStep, GrantsChecked
  <2>3. CASE r \in voteReplies /\ Live(r.cand)
    BY <2>2, <2>3 DEF Safe, Heeded
  <2>4. CASE candidate_log_is_at_least_as_up_to_date(
                Len(mem[r.cand].log), last_log_term(mem[r.cand].log),
                mem[r.from].log)
    <3>1. Family(F) /\ mem[r.cand].log \in F /\ mem[r.from].log \in F
      BY <2>1 DEF Struct, LogsInv, Fits
    <3>2. Has(mem[r.from].log, i, T)
      BY DEF Safe, Held
    <3>3. Has(mem[r.cand].log, i, T)
      BY <1>1, <2>4, <3>1, <3>2, UpToDateHas
    <3> QED BY <2>2, <3>3
  <2> QED BY <2>2, <2>3, <2>4
<1> QED BY <1>1, <1>2, <1>3 DEF Safe

\* A node whose file has not passed T has given no vote beyond T.
LEMMA NoLateVote ==
    ASSUME TypeInv, VoteInv, NEW r \in voteReplies, r.granted, NEW T \in Nat,
           disk[r.from].term <= T
    PROVE  ~(r.reqTerm > T)
<1>1. r.from \in Node /\ r.cand \in Node /\ r.reqTerm \in Nat
  BY DEF TypeInv, TypeOK, RequestVoteResponse
<1>2. Vote(r.reqTerm, r.from, r.cand)
  BY DEF Vote
<1>3. Remembers(disk[r.from], r.reqTerm, r.cand) /\ disk[r.from].term \in Nat
  BY <1>1, <1>2, StatesTyped DEF VoteInv, VotesRemembered
<1> QED BY <1>1, <1>3 DEF Remembers

\* The same, after the step.
LEMMA NoLateVoteNext ==
    ASSUME TypeInv', VoteInv', NEW r \in voteReplies', r.granted, NEW T \in Nat,
           disk'[r.from].term <= T
    PROVE  ~(r.reqTerm > T)
<1>1. r.from \in Node /\ r.cand \in Node /\ r.reqTerm \in Nat
  BY DEF TypeInv, TypeOK, RequestVoteResponse
<1>2. Vote(r.reqTerm, r.from, r.cand)'
  BY DEF Vote
<1>3. Remembers(disk'[r.from], r.reqTerm, r.cand) /\ disk'[r.from].term \in Nat
  BY <1>1, <1>2 DEF VoteInv, VotesRemembered, TypeInv, TypeOK, PersistentState
<1> QED BY <1>1, <1>3 DEF Remembers

\* q now holds the entry (i, T), and has not passed T.
Joins(q, i, T) ==
    /\ q \in Node /\ disk'[q].term <= T
    /\ Has(mem'[q].log, i, T) /\ Has(disk'[q].log, i, T)

\* A leader's entry stays safe while it is open, when whoever newly confirms it
\* holds it and has not passed its term.
LEMMA OwnEntryKept ==
    ASSUME NEW F, NEW H, TypeInv, TypeInv', VoteInv', StatesMoveOn, Struct(F),
           LeaderSafe(F), LogStep(F, H), NEW n \in Node, NEW i \in Nat,
           Own(n, i), mem'[n].term = mem[n].term,
           \A q \in Ackers(n, i)' : q \in Ackers(n, i) \/ Joins(q, i, mem[n].term)
    PROVE  SafeWhileOpen(H, n, i)'
<1>1. PICK T \in Nat : T = mem[n].term
  BY StatesTyped
<1>2. PICK A : A = Ackers(n, i)
  OBVIOUS
<1>3. PICK B : B = Ackers(n, i)'
  OBVIOUS
<1>4. A \in SUBSET Node /\ B \in SUBSET Node
  BY <1>2, <1>3 DEF Ackers, Peers
<1> SUFFICES ASSUME Open(T, B)' PROVE Safe(H, i, T, B)'
  BY <1>1, <1>3 DEF SafeWhileOpen
<1>5. \A q \in Node : disk[q].term \in Nat /\ disk'[q].term \in Nat
                      /\ disk[q].term <= disk'[q].term
  BY DiskTermsGrow
<1>6. \A q \in B : q \in A \/ Joins(q, i, T)
  BY <1>1, <1>2, <1>3
<1>7. Open(T, A)
  <2>1. PICK Q \in Quorums : \A q \in Q : q \in B \/ disk'[q].term <= T
    BY DEF Open, Quorums
  <2>2. Q \subseteq Node
    BY DEF Quorums
  <2>3. \A q \in Q : q \in A \/ disk[q].term <= T
    BY <1>5, <1>6, <2>1, <2>2 DEF Joins
  <2> QED BY <2>3 DEF Open
<1>8. Safe(F, i, T, A)
  BY <1>1, <1>2, <1>7 DEF LeaderSafe, SafeWhileOpen
<1>9. Safe(H, i, T, A)'
  BY <1>4, <1>7, <1>8, SafeKept
<1>10. Held(i, T, B)'
  BY <1>6, <1>9 DEF Safe, Held, Joins
<1>11. Heeded(i, T, B)'
  <2> SUFFICES ASSUME NEW r \in voteReplies', r.granted, r.from \in B, r.reqTerm > T,
                      Live(r.cand)'
               PROVE  Has(mem'[r.cand].log, i, T)
    BY DEF Heeded
  <2>1. r.from \in A
    BY <1>6, NoLateVoteNext DEF Joins
  <2> QED BY <1>9, <2>1 DEF Safe, Heeded
<1> QED BY <1>9, <1>10, <1>11 DEF Safe

\* Prefixes of the history that stay known.
LEMMA KnowsMore ==
    ASSUME NEW a, NEW c \in Nat, NEW t \in Nat, NEW h \in Seq(LogEntry), NEW P \in SUBSET (1..Len(h)),
           Knows(a, c, t, h, P),
           NEW b, NEW d \in Nat, NEW u \in Nat, NEW g \in Seq(LogEntry), NEW R,
           d <= c, t <= u, IsPrefixOf(h, g), P \subseteq R,
           d <= Len(b), \A j \in 1..d : b[j] = a[j]
    PROVE  Knows(b, d, u, g, R)
<1>1. Len(h) \in Nat /\ Len(g) \in Nat /\ Len(h) <= Len(g)
      /\ \A j \in 1..Len(h) : h[j] = g[j]
  BY DEF IsPrefixOf
<1>2. c <= Len(h) /\ \A j \in 1..c : a[j] = h[j]
  BY DEF Knows
<1>3. d <= Len(g) /\ \A j \in 1..d : b[j] = g[j]
  BY <1>1, <1>2
<1>4. ASSUME d > 0 PROVE \E j \in R : d <= j /\ g[j].term <= u
  <2>1. PICK j \in P : c <= j /\ h[j].term <= t
    BY <1>4 DEF Knows
  <2>2. j \in 1..Len(h) /\ h[j] = g[j] /\ h[j].term \in Nat
    BY <1>1, <2>1, EntryTerms
  <2> QED BY <2>1, <2>2
<1> QED BY <1>3, <1>4 DEF Knows

\* The points of the history stay points.
LEMMA PointsKept ==
    ASSUME NEW F, NEW H, TypeInv, TypeInv', Struct(F), LogStep(F, H),
           IsPrefixOf(chosen, chosen')
    PROVE  Points(F) \subseteq Points(H)'
<1> SUFFICES ASSUME NEW j \in Points(F) PROVE j \in Points(H)'
  OBVIOUS
<1>1. j \in 1..Len(chosen) /\ chosen \in Seq(LogEntry) /\ chosen' \in Seq(LogEntry)
  BY DEF Points, TypeInv, TypeOK
<1>2. PICK Q \in Quorums : Safe(F, j, chosen[j].term, Q)
  BY DEF Points
<1>3. PICK T \in Nat : T = chosen[j].term
  BY <1>1, EntryTerms
<1>4. Q \in SUBSET Node
  BY DEF Quorums
<1>5. Open(T, Q) /\ Safe(F, j, T, Q)
  BY <1>2, <1>3 DEF Open
<1>6. Safe(H, j, T, Q)'
  BY <1>1, <1>4, <1>5, SafeKept
<1>7. j \in 1..Len(chosen') /\ chosen'[j].term = T
  BY <1>1, <1>3 DEF IsPrefixOf
<1> QED BY <1>6, <1>7 DEF Points, Quorums

\* s goes on from the memory or the file of k: no less is known of its log.
GoesOn(s, k) ==
    \E t \in {mem[k], disk[k]} :
        s.commit = t.commit /\ t.term <= s.term /\ IsPrefixOf(t.log, s.log)

\* A state goes on from itself.
LEMMA GoesOnItself ==
    ASSUME TypeInv
    PROVE  \A k \in Node : GoesOn(mem[k], k) /\ GoesOn(disk[k], k)
<1>1. \A k \in Node : /\ mem[k].log \in Seq(LogEntry) /\ mem[k].term \in Nat
                      /\ disk[k].log \in Seq(LogEntry) /\ disk[k].term \in Nat
  BY DEF TypeInv, TypeOK, PersistentState
<1>2. \A k \in Node : /\ mem[k].term <= mem[k].term /\ IsPrefixOf(mem[k].log, mem[k].log)
                      /\ disk[k].term <= disk[k].term
                      /\ IsPrefixOf(disk[k].log, disk[k].log)
  BY <1>1 DEF IsPrefixOf
<1> QED BY <1>2 DEF GoesOn

\* Whoever goes on from a state knows what it knew.
LEMMA GoesOnKnowing ==
    ASSUME NEW F, NEW H, TypeInv, TypeInv', Struct(F), LogStep(F, H), Committed(F),
           IsPrefixOf(chosen, chosen'), NEW k \in Node, NEW s \in PersistentState,
           GoesOn(s, k)
    PROVE  Knows(s.log, s.commit, s.term, chosen', Points(H)')
<1>1. PICK t \in {mem[k], disk[k]} :
         s.commit = t.commit /\ t.term <= s.term /\ IsPrefixOf(t.log, s.log)
  BY DEF GoesOn
<1>2. WellFormed(t) /\ Knows(t.log, t.commit, t.term, chosen, Points(F))
  BY <1>1, StatesWellFormed DEF Committed
<1>3. /\ t.commit \in Nat /\ t.term \in Nat /\ s.term \in Nat
      /\ chosen \in Seq(LogEntry) /\ chosen' \in Seq(LogEntry)
      /\ t.log \in Seq(LogEntry) /\ s.log \in Seq(LogEntry)
      /\ t.commit <= Len(t.log)
  <2>1. /\ t.commit \in Nat /\ t.term \in Nat /\ t.log \in Seq(LogEntry)
        /\ t.commit <= Len(t.log)
    BY <1>2 DEF WellFormed, PersistentState
  <2>2. s.term \in Nat /\ s.log \in Seq(LogEntry)
    BY DEF PersistentState
  <2>3. chosen \in Seq(LogEntry) /\ chosen' \in Seq(LogEntry)
    BY DEF TypeInv, TypeOK
  <2> QED BY <2>1, <2>2, <2>3
<1>4. Points(F) \subseteq Points(H)' /\ Points(F) \in SUBSET (1..Len(chosen))
  BY PointsKept DEF Points
<1>5. t.commit <= Len(s.log) /\ \A j \in 1..t.commit : s.log[j] = t.log[j]
  BY <1>1, <1>3 DEF IsPrefixOf
<1>6. Knows(s.log, t.commit, s.term, chosen', Points(H)')
  <2>1. t.commit <= t.commit /\ t.term <= s.term
    BY <1>1, <1>3
  <2>2. Knows(t.log, t.commit, t.term, chosen, Points(F))
    BY <1>2
  <2> QED BY <1>3, <1>4, <1>5, <2>1, <2>2, KnowsMore
<1> QED BY <1>1, <1>6

\* What is known of the history stays known, when no state or request knows more
\* than it should.
LEMMA CommittedNext ==
    ASSUME NEW F, NEW H, TypeInv, TypeInv', Struct(F), LogStep(F, H), Committed(F),
           IsPrefixOf(chosen, chosen'),
           \E a \in H : IsPrefixOf(chosen', a),
           Len(chosen') > 0 => Len(chosen') \in Points(H)',
           \A k \in Node :
              /\ Knows(mem'[k].log, mem'[k].commit, mem'[k].term, chosen', Points(H)')
              /\ Knows(disk'[k].log, disk'[k].commit, disk'[k].term, chosen', Points(H)'),
           \A m \in appends' : m \in appends \/ \E src \in H :
              SentFrom(m, src) /\ Knows(src, m.commit, m.term, chosen', Points(H)')
    PROVE  Committed(H)'
<1>1. ASSUME NEW m \in appends
      PROVE  \E src \in H :
                SentFrom(m, src) /\ Knows(src, m.commit, m.term, chosen', Points(H)')
  <2>1. PICK src \in F :
           SentFrom(m, src) /\ Knows(src, m.commit, m.term, chosen, Points(F))
    BY DEF Committed
  <2>2. /\ m.commit \in Nat /\ m.term \in Nat
        /\ chosen \in Seq(LogEntry) /\ chosen' \in Seq(LogEntry)
    BY DEF TypeInv, TypeOK, AppendEntriesRequest
  <2>3. Points(F) \subseteq Points(H)' /\ Points(F) \in SUBSET (1..Len(chosen))
    BY PointsKept DEF Points
  <2>4. m.commit <= Len(src)
    BY <2>1 DEF Knows
  <2>5. PICK g, R : g = chosen' /\ R = Points(H)'
    OBVIOUS
  <2>6. /\ g \in Seq(LogEntry) /\ IsPrefixOf(chosen, g) /\ Points(F) \subseteq R
        /\ m.commit <= m.commit /\ m.term <= m.term
    BY <2>2, <2>3, <2>5
  <2>7. Knows(src, m.commit, m.term, g, R)
    BY <2>1, <2>2, <2>3, <2>4, <2>6, KnowsMore
  <2>8. Knows(src, m.commit, m.term, chosen', Points(H)')
    BY <2>5, <2>7
  <2> QED BY <2>1, <2>8 DEF LogStep
<1> QED BY <1>1 DEF Committed, Knows

\* The same, for a step that commits nothing new.
LEMMA CommittedSame ==
    ASSUME NEW F, NEW H, TypeInv, TypeInv', Struct(F), LogStep(F, H), Committed(F),
           chosen' = chosen,
           \A k \in Node :
              /\ Knows(mem'[k].log, mem'[k].commit, mem'[k].term, chosen', Points(H)')
              /\ Knows(disk'[k].log, disk'[k].commit, disk'[k].term, chosen', Points(H)'),
           \A m \in appends' : m \in appends \/ \E src \in H :
              SentFrom(m, src) /\ Knows(src, m.commit, m.term, chosen', Points(H)')
    PROVE  Committed(H)'
<1>1. IsPrefixOf(chosen, chosen')
  BY DEF IsPrefixOf, TypeInv, TypeOK
<1>2. Points(F) \subseteq Points(H)'
  BY <1>1, PointsKept
<1>3. /\ \E a \in H : IsPrefixOf(chosen', a)
      /\ Len(chosen') > 0 => Len(chosen') \in Points(H)'
  BY <1>2 DEF Committed, LogStep
<1> QED BY <1>1, <1>3, CommittedNext

\* A quiet step keeps the whole invariant.
LEMMA QuietSafety ==
    ASSUME NEW F, TypeInv, TypeInv', VoteInv', StatesMoveOn, LogInv(F), QuietStep(F)
    PROVE  LogInv(F)' /\ IsPrefixOf(chosen, chosen')
<1>1. Struct(F) /\ LeaderSafe(F) /\ Committed(F) /\ Quiet /\ Struct(F)'
  BY DEF LogInv, QuietStep
<1>2. /\ UNCHANGED <<appends, elected, chosen>>
      /\ \A k \in Node : Stems(mem'[k], k) /\ Stems(disk'[k], k)
      /\ \A k \in Node : role'[k] = "Leader" => LeadsOn(k)
      /\ \A k \in Node : RoundKept(k)
  BY <1>1 DEF Quiet
<1>3. LogStep(F, F)
  <2>1. KeepsEntries(F)
    BY <1>2 DEF KeepsEntries, Stems
  <2>2. Inherits(F, F)
    BY DEF Inherits, Safe
  <2> QED BY <1>1, <2>1, <2>2 DEF LogStep, QuietStep
<1>4. LeaderSafe(F)'
  <2> SUFFICES ASSUME NEW n \in Node, NEW i \in Nat, Own(n, i)'
               PROVE  SafeWhileOpen(F, n, i)'
    BY DEF LeaderSafe
  <2>1. LeadsOn(n) /\ RoundKept(n)
    BY <1>2 DEF Own
  <2>2. Own(n, i) /\ mem'[n].term = mem[n].term
    BY <2>1 DEF Own, LeadsOn
  <2>3. mem[n].term # 0
    BY <2>2, StatesTyped DEF Own, TypeInv
  <2>4. \A p \in Peers(n) : Answered(n, p)' => /\ Answered(n, p)
                                               /\ repl'[n].res[p] = repl[n].res[p]
    BY <2>1, <2>2, <2>3 DEF Answered, RoundKept
  <2>5. Ackers(n, i)' \subseteq Ackers(n, i)
    BY <2>1, <2>4 DEF Ackers, Acked, LeadsOn
  <2> QED BY <1>1, <1>3, <2>2, <2>5, OwnEntryKept
<1>5. \A k \in Node : GoesOn(mem'[k], k) /\ GoesOn(disk'[k], k)
  <2>1. \A k \in Node : mem[k].log \in Seq(LogEntry) /\ disk[k].log \in Seq(LogEntry)
    BY DEF TypeInv, TypeOK, PersistentState
  <2>2. \A k \in Node : IsPrefixOf(mem[k].log, mem[k].log)
                        /\ IsPrefixOf(disk[k].log, disk[k].log)
    BY <2>1 DEF IsPrefixOf
  <2> QED BY <1>2, <2>2 DEF Stems, GoesOn
<1>6. IsPrefixOf(chosen, chosen')
  BY <1>2 DEF IsPrefixOf, TypeInv, TypeOK
<1>7. \A k \in Node : mem'[k] \in PersistentState /\ disk'[k] \in PersistentState
  BY DEF TypeInv, TypeOK
<1>8. Committed(F)'
  BY <1>1, <1>2, <1>3, <1>5, <1>6, <1>7, GoesOnKnowing, CommittedSame
<1> QED BY <1>1, <1>4, <1>6, <1>8 DEF LogInv

\* Starting a round keeps the whole invariant.
LEMMA StartRoundSafety ==
    ASSUME NEW F, TypeInv, TypeInv', VoteInv, VoteInv', StatesMoveOn, LogInv(F),
           NEW n \in Node, StartRound(n)
    PROVE  LogInv(F)' /\ IsPrefixOf(chosen, chosen')
<1>1. /\ Struct(F) /\ LeaderSafe(F) /\ Committed(F) /\ Struct(F)' /\ GrantsChecked
      /\ \A m \in appends' : m \in appends \/ \E p \in Peers(n) : m = AppendRequest(n, p)
  BY StartRoundStruct DEF LogInv
<1>2. /\ role[n] = "Leader"
      /\ UNCHANGED <<mem, disk, role, nextIndex, matchIndex, camp, voteReqs,
                     voteReplies, elected, chosen>>
      /\ \E req : repl' = [repl EXCEPT ![n] = [term |-> mem[n].term, req |-> req,
                                               res |-> [p \in Node |-> NoAnswer]]]
  BY DEF StartRound, history
<1>3. LogStep(F, F)
  <2>1. KeepsEntries(F)
    BY <1>2 DEF KeepsEntries
  <2>2. Inherits(F, F)
    BY DEF Inherits, Safe
  <2> QED BY <1>1, <2>1, <2>2 DEF LogStep
<1>4. LeaderSafe(F)'
  <2> SUFFICES ASSUME NEW k \in Node, NEW i \in Nat, Own(k, i)'
               PROVE  SafeWhileOpen(F, k, i)'
    BY DEF LeaderSafe
  <2>1. Own(k, i) /\ mem'[k].term = mem[k].term
    BY <1>2 DEF Own
  <2>2. ASSUME NEW p \in Peers(k), Answered(k, p)'
        PROVE  Answered(k, p) /\ repl'[k].res[p] = repl[k].res[p]
    <3>1. p \in Node
      BY DEF Peers
    <3>2. repl \in [Node -> [term : Nat, req : [Node -> AppendEntriesRequest],
                             res : [Node -> AppendEntriesResponse]]]
      BY DEF TypeInv, TypeOK
    <3>3. CASE k = n
      <4>1. repl'[n].res[p] = NoAnswer
        BY <1>2, <3>1, <3>2
      <4> QED BY <2>2, <3>3, <4>1 DEF Answered, NoAnswer
    <3>4. CASE k # n
      <4>1. repl'[k] = repl[k]
        BY <1>2, <3>2, <3>4
      <4> QED BY <1>2, <2>2, <4>1 DEF Answered
    <3> QED BY <3>3, <3>4
  <2>3. Ackers(k, i)' \subseteq Ackers(k, i)
    BY <1>2, <2>2 DEF Ackers, Acked
  <2> QED BY <1>1, <1>3, <2>1, <2>3, OwnEntryKept
<1>5. \A k \in Node : /\ GoesOn(mem[k], k) /\ GoesOn(disk[k], k)
                      /\ mem[k] \in PersistentState /\ disk[k] \in PersistentState
  BY GoesOnItself DEF TypeInv, TypeOK
<1>6. IsPrefixOf(chosen, chosen')
  BY <1>2 DEF IsPrefixOf, TypeInv, TypeOK
<1>7. \A k \in Node :
         /\ Knows(mem[k].log, mem[k].commit, mem[k].term, chosen', Points(F)')
         /\ Knows(disk[k].log, disk[k].commit, disk[k].term, chosen', Points(F)')
  BY <1>1, <1>3, <1>5, <1>6, GoesOnKnowing
<1>8. ASSUME NEW p \in Peers(n), NEW m, m = AppendRequest(n, p)
      PROVE  \E src \in F :
                SentFrom(m, src) /\ Knows(src, m.commit, m.term, chosen', Points(F)')
  <2>1. m.term = mem[n].term /\ m.commit = mem[n].commit /\ SentFrom(m, mem[n].log)
    BY <1>1, <1>2, <1>8, AppendRequestSent
  <2>2. mem[n].log \in F
    BY <1>1 DEF Struct, LogsInv, Fits
  <2> QED BY <1>7, <2>1, <2>2
<1>9. \A k \in Node :
         /\ Knows(mem'[k].log, mem'[k].commit, mem'[k].term, chosen', Points(F)')
         /\ Knows(disk'[k].log, disk'[k].commit, disk'[k].term, chosen', Points(F)')
  BY <1>2, <1>7
<1>10. Committed(F)'
  BY <1>1, <1>2, <1>3, <1>8, <1>9, CommittedSame
<1> QED BY <1>1, <1>4, <1>6, <1>10 DEF LogInv

\* A log beyond term T was written by a leader that a majority beyond T elected.
LEMMA NobodyBeyond ==
    ASSUME NEW H, TypeInv', VoteInv', Family(H), Created(H)', NEW T \in Nat,
           NEW A \in SUBSET Node, Open(T, A)', \A q \in A : disk'[q].term <= T,
           NEW a \in H
    PROVE  ~(last_log_term(a) > T)
<1> SUFFICES ASSUME last_log_term(a) > T PROVE FALSE
  OBVIOUS
<1>1. a \in Seq(LogEntry)
  BY DEF Family
<1>2. Len(a) > 0 /\ Len(a) \in 1..Len(a) /\ last_log_term(a) = a[Len(a)].term
  BY <1>1, EntryTerms
<1>3. PICK e \in elected' : e.term = last_log_term(a)
  BY <1>2 DEF Created
<1>4. /\ e.term \in Nat /\ e.node \in Node /\ e.voters \subseteq Node
  BY DEF TypeInv, TypeOK
<1>5. e.voters \in Quorums
  BY <1>4 DEF VoteInv, MajoritiesElected, Quorums, majority
<1>6. PICK Q \in Quorums : \A q \in Q : q \in A \/ disk'[q].term <= T
  BY DEF Open, Quorums
<1>7. PICK q \in Node : q \in Q /\ q \in e.voters
  BY <1>5, <1>6, QuorumsMeet
<1>8. Vote(e.term, q, e.node)'
  BY <1>7 DEF Vote
<1>9. Remembers(disk'[q], e.term, e.node) /\ disk'[q].term \in Nat
  BY <1>4, <1>8 DEF VoteInv, VotesRemembered, TypeInv, TypeOK, PersistentState
<1> QED BY <1>3, <1>4, <1>6, <1>7, <1>9 DEF Remembers

\* The entry a leader has just appended is safe while it is open: nobody but the
\* leader itself has it, and nobody has passed its term.
LEMMA NewEntrySafe ==
    ASSUME NEW F, NEW H, TypeInv, TypeInv', VoteInv', Struct(F), Struct(H)',
           NEW n \in Node, NEW e, NEW s, Appends(n, e, s), e \in LogEntry,
           IndexesWithin(n), mem'[n] = s, disk'[n] \in {disk[n], s},
           NEW i \in Nat, i = Len(mem[n].log) + 1
    PROVE  SafeWhileOpen(H, n, i)'
<1>1. PICK T \in Nat : T = mem[n].term
  BY StatesTyped
<1>2. PICK B : B = Ackers(n, i)'
  OBVIOUS
<1>3. /\ s.log = Append(mem[n].log, e) /\ s.term = T /\ e.term = T
      /\ mem[n].log = disk[n].log /\ mem[n].log \in Seq(LogEntry)
      /\ Len(mem[n].log) \in Nat
  <2>1. mem[n].log \in Seq(LogEntry)
    BY DEF TypeInv, TypeOK, PersistentState
  <2> QED BY <1>1, <2>1 DEF Appends
<1>4. Has(s.log, i, T) /\ Len(s.log) = i
  <2>1. Len(s.log) = Len(mem[n].log) + 1 /\ s.log[Len(mem[n].log) + 1] = e
    BY <1>3, AppendedLog
  <2> QED BY <1>3, <2>1 DEF Has
<1>5. B \subseteq {n} /\ (n \in B => disk'[n] = s)
  <2>1. ASSUME NEW p \in Peers(n) PROVE ~Acked(n, p, i)'
    <3>1. matchIndex'[n][p] \in Nat /\ repl'[n].res[p].match \in Nat
      <4>1. matchIndex'[n] \in [Node -> Nat] /\ repl'[n].res \in [Node -> AppendEntriesResponse]
        BY DEF TypeInv, TypeOK
      <4> QED BY <4>1 DEF AppendEntriesResponse, Peers
    <3>2. /\ matchIndex'[n][p] <= Len(mem[n].log)
          /\ Answered(n, p)' => repl'[n].res[p].match <= Len(mem[n].log)
      BY <1>3 DEF IndexesWithin
    <3> QED BY <1>3, <3>1, <3>2 DEF Acked
  <2>2. disk'[n] = disk[n] => ~(i <= Len(disk'[n].log))
    BY <1>3
  <2>3. n \notin Peers(n)
    BY DEF Peers
  <2> QED BY <1>2, <2>1, <2>2, <2>3 DEF Ackers
<1> SUFFICES ASSUME Open(T, B)' PROVE Safe(H, i, T, B)'
  BY <1>1, <1>2, <1>3 DEF SafeWhileOpen
<1>6. \A q \in B : q \in Node /\ disk'[q].term <= T
  BY <1>3, <1>5
<1>7. Inherited(H, i, T)
  <2>1. \A a \in H : ~(last_log_term(a) > T)
    BY <1>6, NobodyBeyond DEF Struct
  <2> QED BY <2>1 DEF Inherited
<1>8. Held(i, T, B)'
  BY <1>4, <1>5 DEF Held
<1>9. Heeded(i, T, B)'
  BY <1>6, NoLateVoteNext DEF Heeded
<1> QED BY <1>7, <1>8, <1>9 DEF Safe

\* A leader's append keeps the whole invariant, when the leader's log has what
\* is safe and open of earlier terms.
LEMMA AppendsSafety ==
    ASSUME NEW F, TypeInv, TypeInv', VoteInv', StatesMoveOn, LogInv(F),
           NEW n \in Node, NEW e, NEW s, LeaderAppends(F, n, e, s),
           \A i, T \in Nat : \A A \in SUBSET Node :
              Safe(F, i, T, A) /\ Open(T, A) /\ mem[n].term > T => Has(mem[n].log, i, T),
           \/ role[n] = "Leader" /\ matchIndex'[n] = matchIndex[n]
           \/ \A i \in 1..Len(mem[n].log) : mem[n].log[i].term # mem[n].term
    PROVE  (\E H : LogInv(H)') /\ IsPrefixOf(chosen, chosen')
<1>1. /\ Struct(F) /\ LeaderSafe(F) /\ Committed(F)
      /\ e \in LogEntry /\ Appends(n, e, s)
      /\ IndexesWithin(n) /\ Alone(F, n) /\ Elections'
  BY DEF LogInv, LeaderAppends
<1>2. PICK H : H = F \cup {s.log}
  OBVIOUS
<1>3. ElectionSafety'
  BY OneLeaderNext
<1>4. /\ Struct(H)' /\ GrantsChecked /\ chosen' = chosen
      /\ mem'[n] = s /\ disk'[n] \in {disk[n], s}
      /\ \A k \in Node \ {n} : mem'[k] = mem[k] /\ disk'[k] = disk[k]
  BY <1>1, <1>2, <1>3, AppendsStruct
<1>5. /\ s.log = Append(mem[n].log, e) /\ s.commit = mem[n].commit
      /\ s.term = mem[n].term /\ e.term = mem[n].term /\ mem[n].log = disk[n].log
      /\ role'[n] = "Leader"
      /\ \A k \in Node \ {n} : /\ role'[k] = role[k]
                                /\ nextIndex'[k] = nextIndex[k]
                                /\ matchIndex'[k] = matchIndex[k]
      /\ UNCHANGED <<repl, appends, voteReqs>>
  BY <1>1 DEF Appends
<1>6. \A k \in Node : /\ mem[k].log \in Seq(LogEntry) /\ mem[k].term \in Nat
                      /\ disk[k].log \in Seq(LogEntry) /\ disk[k].term \in Nat
  BY DEF TypeInv, TypeOK, PersistentState
<1>7. /\ Len(s.log) = Len(mem[n].log) + 1 /\ Len(mem[n].log) \in Nat
      /\ \A i \in 1..Len(mem[n].log) : s.log[i] = mem[n].log[i]
      /\ last_log_term(s.log) = mem[n].term
      /\ IsPrefixOf(mem[n].log, s.log)
      /\ \A i, T : Has(mem[n].log, i, T) => Has(s.log, i, T)
  <2>1. mem[n].log \in Seq(LogEntry)
    BY <1>6
  <2> QED BY <1>1, <1>5, <2>1, AppendedLog
<1>8. LogStep(F, H)
  <2>1. KeepsEntries(F)
    <3> SUFFICES ASSUME NEW i \in Nat, NEW T \in Nat, NEW k \in Node,
                        Has(mem[k].log, i, T), Has(disk[k].log, i, T)
                 PROVE  Has(mem'[k].log, i, T) /\ Has(disk'[k].log, i, T)
      BY DEF KeepsEntries
    <3>1. CASE k = n
      BY <1>4, <1>7, <3>1
    <3>2. CASE k # n
      BY <1>4, <3>2
    <3> QED BY <3>1, <3>2
  <2>2. Inherits(F, H)
    BY <1>2, <1>7 DEF Inherits, Safe, Inherited
  <2> QED BY <1>2, <1>4, <2>1, <2>2 DEF LogStep
<1>9. LeaderSafe(H)'
  <2> SUFFICES ASSUME NEW k \in Node, NEW i \in Nat, Own(k, i)'
               PROVE  SafeWhileOpen(H, k, i)'
    BY DEF LeaderSafe
  <2>1. CASE k # n
    <3>1. Own(k, i) /\ mem'[k] = mem[k] /\ disk'[k] = disk[k]
      BY <1>4, <1>5, <2>1 DEF Own
    <3>2. Ackers(k, i)' \subseteq Ackers(k, i)
      BY <1>5, <2>1, <3>1 DEF Ackers, Acked, Answered
    <3> QED BY <1>1, <1>8, <3>1, <3>2, OwnEntryKept
  <2>2. CASE k = n /\ i = Len(mem[n].log) + 1
    <3>1. SafeWhileOpen(H, n, i)'
      BY <1>1, <1>4, <2>2, NewEntrySafe
    <3> QED BY <2>2, <3>1
  <2>3. CASE k = n /\ i # Len(mem[n].log) + 1
    <3>1. /\ i \in 1..Len(mem[n].log) /\ mem[n].log[i].term = mem[n].term
      <4>1. i \in 1..Len(s.log) /\ s.log[i].term = mem[n].term
        BY <1>4, <1>5, <2>3 DEF Own
      <4>2. i \in 1..Len(mem[n].log)
        BY <1>7, <2>3, <4>1
      <4> QED BY <1>7, <4>1, <4>2
    <3>2. role[n] = "Leader" /\ matchIndex'[n] = matchIndex[n]
      BY <3>1
    <3>3. Own(n, i) /\ mem'[n].term = mem[n].term
      BY <1>4, <1>5, <3>1, <3>2 DEF Own
    <3>4. n \in Ackers(n, i)
      BY <1>5, <3>1 DEF Ackers
    <3>5. \A p \in Peers(n) : Acked(n, p, i)' => Acked(n, p, i)
      BY <1>5, <3>2, <3>3 DEF Acked, Answered
    <3>6. Ackers(n, i)' \subseteq Ackers(n, i)
      BY <3>4, <3>5 DEF Ackers
    <3>7. SafeWhileOpen(H, n, i)'
      BY <1>1, <1>8, <3>3, <3>6, OwnEntryKept
    <3> QED BY <2>3, <3>7
  <2> QED BY <2>1, <2>2, <2>3
<1>10. IsPrefixOf(chosen, chosen')
  BY <1>4 DEF IsPrefixOf, TypeInv, TypeOK
<1>11. \A k \in Node : GoesOn(mem'[k], k) /\ GoesOn(disk'[k], k)
  <2>1. \A k \in Node : GoesOn(mem[k], k) /\ GoesOn(disk[k], k)
    BY GoesOnItself
  <2>2. GoesOn(s, n)
    <3>1. mem[n].term <= s.term
      BY <1>5, <1>6
    <3> QED BY <1>5, <1>7, <3>1 DEF GoesOn
  <2> QED BY <1>4, <2>1, <2>2
<1>12. \A k \in Node : mem'[k] \in PersistentState /\ disk'[k] \in PersistentState
  BY DEF TypeInv, TypeOK
<1>13. Committed(H)'
  BY <1>1, <1>4, <1>5, <1>8, <1>10, <1>11, <1>12, GoesOnKnowing, CommittedSame
<1>14. LogInv(H)'
  BY <1>4, <1>9, <1>13 DEF LogInv
<1> QED BY <1>10, <1>14

\* A client write keeps the whole invariant.
LEMMA ClientWriteSafety ==
    ASSUME NEW F, TypeInv, TypeInv', VoteInv, VoteInv', StatesMoveOn, LogInv(F),
           NEW n \in Node, NEW v \in Intent, ClientWrite(n, v)
    PROVE  (\E H : LogInv(H)') /\ IsPrefixOf(chosen, chosen')
<1>1. Struct(F)
  BY DEF LogInv
<1>2. PICK e, s : LeaderAppends(F, n, e, s) /\ role[n] = "Leader"
  BY <1>1, ClientWriteAppends
<1>3. matchIndex'[n] = matchIndex[n]
  BY DEF ClientWrite
<1>4. last_log_term(mem[n].log) = mem[n].term /\ mem[n].log \in F
  BY <1>1, <1>2 DEF Struct, LeaderLogs, LogsInv, Fits
<1>5. \A i, T \in Nat : \A A \in SUBSET Node :
         Safe(F, i, T, A) /\ mem[n].term > T => Has(mem[n].log, i, T)
  BY <1>4 DEF Safe, Inherited
<1> QED BY <1>2, <1>3, <1>5, AppendsSafety

\* Winning an election keeps the whole invariant: a majority voted for the new
\* leader, and one of the voters holds what is safe.
LEMMA CampaignWinsSafety ==
    ASSUME NEW F, TypeInv, TypeInv', VoteInv, VoteInv', StatesMoveOn, LogInv(F),
           NEW n \in Node, CampaignWins(n)
    PROVE  (\E H : LogInv(H)') /\ IsPrefixOf(chosen, chosen')
<1>1. Struct(F)
  BY DEF LogInv
<1>2. PICK s : /\ LeaderAppends(F, n, LeaderNoop(n), s)
               /\ Live(n) /\ camp[n] = mem[n].term
               /\ Cardinality(GrantedBy(n)) >= majority
               /\ elected' = elected \cup {[term |-> camp[n], node |-> n,
                                            voters |-> GrantedBy(n)]}
  BY <1>1, CampaignWinsAppends
<1>3. GrantedBy(n) \in Quorums
  <2>1. \A r \in voteReplies : r.from \in Node
    BY DEF TypeInv, TypeOK, RequestVoteResponse
  <2>2. GrantedBy(n) \subseteq Node
    BY <2>1 DEF GrantedBy, VoteRepliesTo
  <2> QED BY <1>2, <2>2 DEF Quorums
<1>4. ASSUME NEW q \in GrantedBy(n), q # n
      PROVE  \E r \in voteReplies : /\ r.cand = n /\ r.granted /\ r.from = q
                                    /\ r.reqTerm = camp[n]
  <2>1. PICK r \in voteReplies : /\ r.cand = n /\ r.granted
                                 /\ r.term = camp[n] /\ r.from = q
    BY <1>4 DEF GrantedBy, VoteRepliesTo
  <2> QED BY <2>1 DEF VoteInv, RepliesOfTerm
<1>5. ASSUME NEW i \in Nat, NEW T \in Nat, NEW A \in SUBSET Node,
             Safe(F, i, T, A), Open(T, A), mem[n].term > T
      PROVE  Has(mem[n].log, i, T)
  <2>1. PICK Q \in Quorums : \A q \in Q : q \in A \/ disk[q].term <= T
    BY <1>5 DEF Open
  <2>2. PICK q \in Node : q \in Q /\ q \in GrantedBy(n)
    BY <1>3, <2>1, QuorumsMeet
  <2>3. CASE q \in A
    <3>1. CASE q = n
      BY <1>5, <2>3, <3>1 DEF Safe, Held
    <3>2. CASE q # n
      <4>1. PICK r \in voteReplies : /\ r.cand = n /\ r.granted /\ r.from = q
                                     /\ r.reqTerm = camp[n]
        BY <1>4, <2>2, <3>2
      <4> QED BY <1>2, <1>5, <2>3, <4>1 DEF Safe, Heeded
    <3> QED BY <3>1, <3>2
  <2>4. CASE disk[q].term <= T
    <3>1. Vote(camp[n], q, n)
      <4>1. CASE q = n
        BY <1>2, <4>1 DEF Vote, Live
      <4>2. CASE q # n
        BY <1>4, <2>2, <4>2 DEF Vote
      <4> QED BY <4>1, <4>2
    <3>2. camp[n] \in Nat
      BY DEF TypeInv, TypeOK
    <3>3. Remembers(disk[q], camp[n], n) /\ disk[q].term \in Nat
      BY <3>1, <3>2, StatesTyped DEF VoteInv, VotesRemembered
    <3> QED BY <1>2, <1>5, <2>4, <3>2, <3>3 DEF Remembers
  <2> QED BY <2>1, <2>2, <2>3, <2>4
<1>6. \A i \in 1..Len(mem[n].log) : mem[n].log[i].term # mem[n].term
  <2>1. ASSUME NEW i \in 1..Len(mem[n].log), mem[n].log[i].term = mem[n].term
        PROVE  FALSE
    <3>1. mem[n].log \in F
      BY <1>1 DEF Struct, LogsInv, Fits
    <3>2. PICK f \in elected : f.term = mem[n].term
      BY <1>1, <2>1, <3>1 DEF Struct, Created
    <3>3. ElectionSafety'
      BY OneLeaderNext
    <3>4. PICK won : won = [term |-> camp[n], node |-> n, voters |-> GrantedBy(n)]
      OBVIOUS
    <3>5. won \in elected' /\ f \in elected' /\ won.term = camp[n] /\ won.node = n
      BY <1>2, <3>2, <3>4
    <3>6. f.node = n
      BY <1>2, <3>2, <3>3, <3>5 DEF ElectionSafety
    <3> QED BY <1>1, <1>2, <3>2, <3>6 DEF Struct, Elections
  <2> QED BY <2>1
<1> QED BY <1>2, <1>5, <1>6, AppendsSafety

\* Accepting a request loses no entry that later terms inherit: the log it was
\* cut from has it, or it is of the request's own term.
LEMMA AcceptsKeepsEntries ==
    ASSUME NEW F, TypeInv, Struct(F), NEW m, NEW src \in F, Accepts(m, src)
    PROVE  KeepsEntries(F)
<1>1. /\ m.to \in Node /\ m.term \in Nat /\ mem[m.to].term <= m.term
      /\ SentFrom(m, src) /\ mem'[m.to].log \in {mem[m.to].log, src}
      /\ \A i \in Nat : Has(mem[m.to].log, i, m.term) => Has(mem'[m.to].log, i, m.term)
      /\ disk'[m.to] = mem'[m.to] \/ disk'[m.to].log = mem[m.to].log
      /\ \A k \in Node \ {m.to} : mem'[k] = mem[k] /\ disk'[k] = disk[k]
  BY DEF Accepts
<1> SUFFICES ASSUME NEW i \in Nat, NEW T \in Nat, Inherited(F, i, T), NEW k \in Node,
                    Has(mem[k].log, i, T), Has(disk[k].log, i, T)
             PROVE  Has(mem'[k].log, i, T) /\ Has(disk'[k].log, i, T)
  BY DEF KeepsEntries
<1>2. CASE k # m.to
  BY <1>1, <1>2
<1>3. CASE k = m.to
  <2>1. /\ Family(F) /\ mem[k].log \in F /\ last_log_term(mem[k].log) <= mem[k].term
        /\ mem[k].term \in Nat
    BY StatesTyped DEF Struct, LogsInv, Fits
  <2>2. mem[k].log[i].term = T /\ i \in 1..Len(mem[k].log)
    BY DEF Has
  <2>3. T <= last_log_term(mem[k].log) /\ last_log_term(mem[k].log) \in Nat
    BY <2>1, <2>2, SortedLast, EntryTerms DEF Family
  <2>4. T <= m.term
    BY <1>1, <1>3, <2>1, <2>3
  <2>5. Has(mem'[k].log, i, T)
    <3>1. CASE T = m.term
      BY <1>1, <1>3, <3>1
    <3>2. CASE T < m.term
      <4>1. last_log_term(src) = m.term
        BY <1>1 DEF SentFrom
      <4>2. Has(src, i, T)
        BY <3>2, <4>1 DEF Inherited
      <4> QED BY <1>1, <1>3, <4>2
    <3> QED BY <1>1, <2>4, <3>1, <3>2
  <2> QED BY <1>1, <1>3, <2>5
<1> QED BY <1>2, <1>3

\* Whoever newly confirms an entry to the leader of its term has it.
LEMMA AcceptsJoins ==
    ASSUME NEW F, TypeInv, TypeInv', Struct(F), NEW m \in appends, Confirms(m),
           NEW src \in F, Accepts(m, src), NEW k \in Node, NEW i \in Nat,
           k # m.to, Own(k, i), NEW q \in Ackers(k, i)'
    PROVE  q \in Ackers(k, i) \/ Joins(q, i, mem[k].term)
<1>1. /\ m.to \in Node /\ SentFrom(m, src) /\ mem'[m.to].term = m.term
      /\ IsPrefixOf(src, mem'[m.to].log)
      /\ mem'[k] = mem[k] /\ disk'[k] = disk[k] /\ matchIndex'[k] = matchIndex[k]
      /\ m.term \in Nat
  BY DEF Accepts, OthersLead
<1>2. /\ repl'[k].term = repl[k].term
      /\ \A p \in Peers(k) :
            \/ repl'[k].res[p] = repl[k].res[p]
            \/ /\ k = m.leader /\ p = m.to /\ repl[k].term = m.term
               /\ disk'[p] = mem'[p]
               /\ repl'[k].res[p].match = Len(src)
  BY <1>1, ConfirmedRound
<1>3. CASE q = k
  BY <1>1, <1>3 DEF Ackers, Peers
<1>4. CASE q # k
  <2>1. q \in Peers(k) /\ Acked(k, q, i)'
    BY <1>4 DEF Ackers
  <2>2. CASE repl'[k].res[q] = repl[k].res[q]
    BY <1>1, <1>2, <2>1, <2>2 DEF Ackers, Acked, Answered
  <2>3. CASE matchIndex'[k][q] >= i
    BY <1>1, <2>1, <2>3 DEF Ackers, Acked
  <2>4. CASE /\ k = m.leader /\ q = m.to /\ repl[k].term = m.term
             /\ disk'[q] = mem'[q] /\ repl'[k].res[q].match = Len(src)
             /\ Answered(k, q)' /\ repl'[k].res[q].match >= i
    <3>1. role[k] = "Leader" /\ mem[k].term = m.term /\ i \in 1..Len(mem[k].log)
          /\ mem[k].log[i].term = mem[k].term
      BY <1>1, <1>2, <2>4 DEF Own, Answered
    <3>2. PICK a \in F : SentFrom(m, a) /\ IsPrefixOf(a, disk[k].log)
      BY <2>4, <3>1 DEF Struct, Sent
    <3>3. a = src /\ Family(F)
      BY <1>1, <3>2, SentFromOne DEF Struct
    <3>4. IsPrefixOf(disk[k].log, mem[k].log)
      BY <3>1 DEF Struct, LeaderLogs
    <3>5. /\ src \in Seq(LogEntry) /\ disk[k].log \in Seq(LogEntry)
          /\ mem[k].log \in Seq(LogEntry) /\ mem'[q].log \in Seq(LogEntry)
          /\ q \in Node
      BY <2>1, <3>3 DEF Family, TypeInv, TypeOK, PersistentState, Peers
    <3>6. IsPrefixOf(src, mem[k].log)
      BY <3>2, <3>3, <3>4, <3>5, PrefixTransitive
    <3>7. Has(src, i, m.term)
      BY <2>4, <3>1, <3>5, <3>6 DEF Has, IsPrefixOf
    <3>8. Has(mem'[q].log, i, m.term)
      BY <1>1, <2>4, <3>5, <3>7, PrefixHas
    <3> QED BY <1>1, <2>4, <3>1, <3>5, <3>8 DEF Joins
  <2> QED BY <1>2, <2>1, <2>2, <2>3, <2>4 DEF Acked
<1> QED BY <1>3, <1>4

\* What a follower that accepts a request knows: what it knew, or what the
\* leader knew.
LEMMA AcceptsKnows ==
    ASSUME NEW F, TypeInv, TypeInv', Struct(F), LogStep(F, F), Committed(F),
           NEW m \in appends, NEW src \in F, Accepts(m, src), NEW k \in Node
    PROVE  /\ Knows(mem'[k].log, mem'[k].commit, mem'[k].term, chosen', Points(F)')
           /\ Knows(disk'[k].log, disk'[k].commit, disk'[k].term, chosen', Points(F)')
<1>1. /\ m.to \in Node /\ SentFrom(m, src) /\ chosen' = chosen
      /\ mem[m.to].term <= m.term /\ mem'[m.to].term = m.term
      /\ IsPrefixOf(src, mem'[m.to].log)
      /\ mem'[m.to].commit = Higher(mem[m.to].commit, Lower(m.commit, Len(mem'[m.to].log)))
      /\ \A i \in 1..mem[m.to].commit : mem'[m.to].log[i] = mem[m.to].log[i]
      /\ \A j \in Node \ {m.to} : mem'[j] = mem[j] /\ disk'[j] = disk[j]
  BY DEF Accepts
<1>2. \/ disk'[m.to] = mem'[m.to]
      \/ /\ disk'[m.to].log = mem[m.to].log /\ disk'[m.to].commit = mem[m.to].commit
         /\ mem[m.to].term <= disk'[m.to].term
  BY DEF Accepts
<1>3. /\ chosen \in Seq(LogEntry) /\ IsPrefixOf(chosen, chosen')
      /\ m.commit \in Nat /\ m.term \in Nat
  <2>1. chosen \in Seq(LogEntry) /\ m.commit \in Nat /\ m.term \in Nat
    BY DEF TypeInv, TypeOK, AppendEntriesRequest
  <2> QED BY <1>1, <2>1 DEF IsPrefixOf
<1>4. \A j \in Node : /\ mem[j].log \in Seq(LogEntry) /\ disk[j].log \in Seq(LogEntry)
                      /\ mem[j].commit \in Nat /\ mem[j].term \in Nat
                      /\ mem[j].commit <= Len(mem[j].log)
                      /\ mem[j] \in PersistentState /\ disk[j] \in PersistentState
  BY DEF TypeInv, TypeOK, PersistentState
<1>5. \A j \in Node : /\ mem'[j].log \in Seq(LogEntry) /\ mem'[j].commit \in Nat
                      /\ mem'[j].commit <= Len(mem'[j].log)
                      /\ disk'[j] \in PersistentState
  BY DEF TypeInv, TypeOK, PersistentState
<1>6. CASE k # m.to
  <2>1. GoesOn(mem'[k], k) /\ GoesOn(disk'[k], k)
    BY <1>1, <1>6, GoesOnItself
  <2>2. mem'[k] \in PersistentState /\ disk'[k] \in PersistentState
    BY <1>1, <1>4, <1>6
  <2> QED BY <1>3, <2>1, <2>2, GoesOnKnowing
<1>7. CASE k = m.to
  <2>1. Points(F) \subseteq Points(F)' /\ Points(F) \in SUBSET (1..Len(chosen))
    BY <1>3, PointsKept DEF Points
  <2>2. Knows(mem[k].log, mem[k].commit, mem[k].term, chosen, Points(F))
    BY DEF Committed
  <2>3. Knows(src, m.commit, m.term, chosen, Points(F))
    <3>1. PICK a \in F : SentFrom(m, a) /\ Knows(a, m.commit, m.term, chosen, Points(F))
      BY DEF Committed
    <3>2. a = src
      BY <1>1, <3>1, SentFromOne DEF Struct
    <3> QED BY <3>1, <3>2
  <2>4. Knows(mem'[k].log, mem'[k].commit, m.term, chosen', Points(F)')
    <3>1. CASE mem'[k].commit = mem[k].commit
      <4>1. mem[k].commit <= mem[k].commit /\ mem[k].commit <= Len(mem'[k].log)
            /\ \A i \in 1..mem[k].commit : mem'[k].log[i] = mem[k].log[i]
        BY <1>1, <1>4, <1>5, <1>7, <3>1
      <4>2. /\ mem[k].term \in Nat /\ mem[k].commit \in Nat /\ mem[k].term <= m.term
            /\ chosen' \in Seq(LogEntry)
        BY <1>1, <1>3, <1>4, <1>7
      <4>3. Knows(mem'[k].log, mem[k].commit, m.term, chosen', Points(F)')
        BY <1>3, <2>1, <2>2, <4>1, <4>2, KnowsMore
      <4> QED BY <3>1, <4>3
    <3>2. CASE mem'[k].commit = Lower(m.commit, Len(mem'[k].log))
      <4>1. m.commit <= Len(src) /\ src \in Seq(LogEntry)
        BY <2>3 DEF Knows, Struct, Family
      <4>2. m.commit <= Len(mem'[k].log) /\ Len(mem'[k].log) \in Nat
            /\ \A i \in 1..m.commit : mem'[k].log[i] = src[i]
        BY <1>1, <1>3, <1>5, <1>7, <4>1 DEF IsPrefixOf
      <4>3. mem'[k].commit = m.commit
        BY <1>3, <3>2, <4>2 DEF Lower
      <4>4. m.commit <= m.commit /\ m.term <= m.term
        BY <1>3
      <4>5. PICK b, g, R : b = mem'[k].log /\ g = chosen' /\ R = Points(F)'
        OBVIOUS
      <4>6. /\ g \in Seq(LogEntry) /\ IsPrefixOf(chosen, g) /\ Points(F) \subseteq R
            /\ m.commit <= Len(b) /\ \A i \in 1..m.commit : b[i] = src[i]
        BY <1>1, <1>3, <2>1, <4>2, <4>5
      <4>7. Knows(b, m.commit, m.term, g, R)
        BY <1>3, <2>1, <2>3, <4>4, <4>6, KnowsMore
      <4> QED BY <4>3, <4>5, <4>7
    <3> QED BY <1>1, <1>7, <3>1, <3>2 DEF Higher
  <2>5. ASSUME disk'[k].log = mem[k].log, disk'[k].commit = mem[k].commit,
               mem[k].term <= disk'[k].term
        PROVE  Knows(disk'[k].log, disk'[k].commit, disk'[k].term, chosen', Points(F)')
    <3>1. GoesOn(disk'[k], k)
      BY <1>4, <2>5 DEF GoesOn, IsPrefixOf
    <3> QED BY <1>3, <1>5, <3>1, GoesOnKnowing
  <2> QED BY <1>1, <1>2, <1>7, <2>4, <2>5
<1> QED BY <1>6, <1>7

\* Accepting a request keeps the whole invariant.
LEMMA AcceptAppendSafety ==
    ASSUME NEW F, TypeInv, TypeInv', VoteInv, VoteInv', StatesMoveOn, LogInv(F),
           NEW m \in appends, AcceptAppend(m)
    PROVE  LogInv(F)' /\ IsPrefixOf(chosen, chosen')
<1>1. Struct(F) /\ LeaderSafe(F) /\ Committed(F)
  BY DEF LogInv
<1>2. Confirms(m)
  BY <1>1, AcceptAppendAccepts
<1>3. PICK src \in F : Accepts(m, src)
  BY <1>1, AcceptAppendAccepts
<1>4. Struct(F)' /\ GrantsChecked
  BY <1>1, <1>2, <1>3, AcceptAppendStruct
<1>5. LogStep(F, F)
  <2>1. KeepsEntries(F)
    BY <1>1, <1>3, AcceptsKeepsEntries
  <2>2. Inherits(F, F)
    BY DEF Inherits, Safe
  <2> QED BY <1>4, <2>1, <2>2 DEF LogStep
<1>6. /\ chosen' = chosen /\ appends' = appends /\ role'[m.to] = "Follower"
      /\ \A k \in Node \ {m.to} : role'[k] = role[k] /\ mem'[k] = mem[k]
  BY <1>3 DEF Accepts, OthersLead
<1>7. LeaderSafe(F)'
  <2> SUFFICES ASSUME NEW k \in Node, NEW i \in Nat, Own(k, i)'
               PROVE  SafeWhileOpen(F, k, i)'
    BY DEF LeaderSafe
  <2>1. k # m.to
    BY <1>6 DEF Own
  <2>2. Own(k, i) /\ mem'[k].term = mem[k].term
    BY <1>6, <2>1 DEF Own
  <2>3. \A q \in Ackers(k, i)' : q \in Ackers(k, i) \/ Joins(q, i, mem[k].term)
    BY <1>1, <1>2, <1>3, <2>1, <2>2, AcceptsJoins
  <2> QED BY <1>1, <1>5, <2>2, <2>3, OwnEntryKept
<1>8. Committed(F)'
  BY <1>1, <1>3, <1>5, <1>6, AcceptsKnows, CommittedSame
<1>9. IsPrefixOf(chosen, chosen')
  BY <1>6 DEF IsPrefixOf, TypeInv, TypeOK
<1> QED BY <1>4, <1>7, <1>8, <1>9 DEF LogInv

\* The history is the beginning of some log, with a safe last entry.
LEMMA ChosenInFamily ==
    ASSUME NEW F, TypeInv, LogInv(F)
    PROVE  /\ chosen \in Seq(LogEntry)
           /\ \E a \in F : /\ IsPrefixOf(chosen, a)
                           /\ Len(chosen) > 0 =>
                                 /\ Has(a, Len(chosen), last_log_term(chosen))
                                 /\ Inherited(F, Len(chosen), last_log_term(chosen))
                                 /\ last_log_term(chosen) <= last_log_term(a)
<1>1. chosen \in Seq(LogEntry)
  BY DEF TypeInv, TypeOK
<1>2. PICK a \in F : IsPrefixOf(chosen, a)
  BY DEF LogInv, Committed
<1>3. ASSUME Len(chosen) > 0
      PROVE  /\ Has(a, Len(chosen), last_log_term(chosen))
             /\ Inherited(F, Len(chosen), last_log_term(chosen))
             /\ last_log_term(chosen) <= last_log_term(a)
  <2>1. Family(F) /\ a \in Seq(LogEntry)
    BY DEF LogInv, Struct, Family
  <2>2. /\ Len(chosen) \in 1..Len(chosen)
        /\ last_log_term(chosen) = chosen[Len(chosen)].term
    BY <1>1, <1>3, EntryTerms
  <2>3. Has(a, Len(chosen), last_log_term(chosen))
    BY <1>1, <1>2, <2>1, <2>2 DEF Has, IsPrefixOf
  <2>4. Inherited(F, Len(chosen), last_log_term(chosen))
    BY <1>3, <2>2 DEF LogInv, Committed, Points, Safe
  <2>5. last_log_term(chosen) <= last_log_term(a)
    BY <2>1, <2>3, SortedLast DEF Has
  <2> QED BY <2>3, <2>4, <2>5
<1> QED BY <1>1, <1>2, <1>3

\* A leader no older than the history has all of it.
LEMMA LeaderHasChosen ==
    ASSUME NEW F, TypeInv, LogInv(F), NEW n \in Node, role[n] = "Leader",
           mem[n].term >= last_log_term(chosen)
    PROVE  IsPrefixOf(chosen, mem[n].log)
<1>1. PICK L \in Nat : L = Len(chosen)
  BY DEF TypeInv, TypeOK
<1>2. PICK T : T = last_log_term(chosen)
  OBVIOUS
<1>3. PICK a \in F : /\ IsPrefixOf(chosen, a)
                     /\ L > 0 => Has(a, L, T) /\ Inherited(F, L, T)
  BY <1>1, <1>2, ChosenInFamily
<1>4. /\ Family(F) /\ mem[n].log \in F
      /\ last_log_term(mem[n].log) = mem[n].term
      /\ \A b \in F : \A i \in 1..Len(b) :
            b[i].term = mem[n].term => i <= Len(mem[n].log) /\ mem[n].log[i] = b[i]
  BY DEF LogInv, Struct, LogsInv, Fits, LeaderLogs
<1>5. a \in Seq(LogEntry) /\ mem[n].log \in Seq(LogEntry) /\ chosen \in Seq(LogEntry)
  BY <1>4, ChosenInFamily DEF Family
<1>6. CASE L = 0
  BY <1>1, <1>5, <1>6 DEF IsPrefixOf
<1>7. CASE L > 0
  <2>1. Has(mem[n].log, L, T)
    <3>1. CASE T = mem[n].term
      <4>1. L \in 1..Len(a) /\ a[L].term = mem[n].term
        BY <1>3, <1>7, <3>1 DEF Has
      <4>2. L <= Len(mem[n].log) /\ mem[n].log[L] = a[L]
        BY <1>4, <4>1
      <4> QED BY <1>5, <3>1, <4>1, <4>2 DEF Has
    <3>2. CASE mem[n].term > T
      BY <1>3, <1>4, <1>7, <3>2 DEF Inherited
    <3>3. T \in Nat /\ mem[n].term \in Nat
      BY <1>2, <1>5, EntryTerms, StatesTyped
    <3> QED BY <1>2, <3>1, <3>2, <3>3
  <2>2. \A j \in 1..L : a[j] = mem[n].log[j]
    BY <1>3, <1>4, <1>7, <2>1, SameEntry
  <2>3. L <= Len(mem[n].log)
    BY <1>5, <2>1 DEF Has
  <2> QED BY <1>1, <1>3, <1>5, <2>2, <2>3 DEF IsPrefixOf
<1> QED BY <1>1, <1>6, <1>7

\* An entry that later terms inherit, of the term of a leader that holds it, is
\* no stranger to the history: one of the two begins with the other.
LEMMA InheritedWithChosen ==
    ASSUME NEW F, TypeInv, LogInv(F), NEW n \in Node, role[n] = "Leader",
           NEW c \in Nat, Has(mem[n].log, c, mem[n].term),
           Inherited(F, c, mem[n].term)
    PROVE  /\ c > Len(chosen) => IsPrefixOf(chosen, mem[n].log)
           /\ c <= Len(chosen) => \A j \in 1..c : mem[n].log[j] = chosen[j]
<1>1. PICK T \in Nat : T = mem[n].term
  BY StatesTyped
<1>2. PICK L \in Nat : L = Len(chosen)
  BY DEF TypeInv, TypeOK
<1>3. chosen \in Seq(LogEntry) /\ mem[n].log \in Seq(LogEntry)
  BY DEF TypeInv, TypeOK, PersistentState
<1>4. last_log_term(chosen) \in Nat
  BY <1>3, EntryTerms
<1>5. c \in 1..Len(mem[n].log)
  BY DEF Has
<1>6. CASE T >= last_log_term(chosen)
  <2>1. IsPrefixOf(chosen, mem[n].log)
    BY <1>1, <1>6, LeaderHasChosen
  <2> QED BY <1>2, <1>3, <1>5, <2>1 DEF IsPrefixOf
<1>7. CASE last_log_term(chosen) > T
  <2>1. L > 0
    BY <1>1, <1>2, <1>3, <1>4, <1>7, EntryTerms
  <2>2. PICK a \in F : /\ IsPrefixOf(chosen, a)
                       /\ Has(a, L, last_log_term(chosen))
                       /\ last_log_term(chosen) <= last_log_term(a)
    BY <1>2, <2>1, ChosenInFamily
  <2>3. Family(F) /\ a \in Seq(LogEntry) /\ last_log_term(a) \in Nat
        /\ mem[n].log \in F
    BY EntryTerms DEF LogInv, Struct, Family, LogsInv, Fits
  <2>4. Has(a, c, T)
    BY <1>1, <1>4, <1>7, <2>2, <2>3 DEF Inherited
  <2>5. ~(c > L)
    <3> SUFFICES ASSUME c > L PROVE FALSE
      OBVIOUS
    <3>1. L \in 1..Len(a) /\ c \in 1..Len(a)
          /\ a[L].term = last_log_term(chosen) /\ a[c].term = T
      BY <2>2, <2>4 DEF Has
    <3>2. L <= c
      OBVIOUS
    <3>3. a[L].term <= a[c].term
      BY <2>3, <3>1, <3>2 DEF Family, Sorted
    <3> QED BY <1>4, <1>7, <3>1, <3>3
  <2>6. \A j \in 1..c : a[j] = mem[n].log[j]
    BY <1>1, <2>3, <2>4, SameEntry
  <2> QED BY <1>2, <1>3, <2>2, <2>3, <2>5, <2>6 DEF IsPrefixOf
<1> QED BY <1>1, <1>4, <1>6, <1>7

\* The index a leader commits is one it may commit.
LEMMA CommitsCommittable ==
    ASSUME NEW s \in PersistentState, NEW match, NEW n,
           highest_committable_index(s, match, n) # s.commit
    PROVE  highest_committable_index(s, match, n) \in committable(s, match, n)
<1> DEFINE ok == committable(s, match, n)
<1>1. s.commit \in Nat /\ Len(s.log) \in Nat
  BY DEF PersistentState
<1>2. ok \subseteq 0..Len(s.log)
  BY <1>1 DEF committable
<1>3. ok # {}
  BY DEF highest_committable_index
<1> HIDE DEF ok
<1>4. \E i \in ok : \A j \in ok : j <= i
  BY <1>1, <1>2, <1>3, MaxExists
<1>5. highest_committable_index(s, match, n) = CHOOSE i \in ok : \A j \in ok : j <= i
  BY <1>3 DEF highest_committable_index, ok
<1>6. highest_committable_index(s, match, n) \in ok
  BY <1>4, <1>5
<1> QED BY <1>6 DEF ok

\* What the leader newly commits is safe with the majority it counted, itself
\* included: a peer has confirmed it, so it is on the leader's disk too.
LEMMA CommitIsSafe ==
    ASSUME NEW F, TypeInv, LogInv(F), NEW n \in Node, NEW heard, NEW match, NEW c,
           Advances(n, heard, match, c), c # mem[n].commit,
           \A p \in Peers(n) : match[p] \in Nat /\ match[p] <= Len(disk[n].log)
    PROVE  /\ Has(mem[n].log, c, mem[n].term)
           /\ \E B \in Quorums : Safe(F, c, mem[n].term, B)
<1>1. /\ role[n] = "Leader" /\ mem[n].term = repl[n].term /\ c \in Nat
      /\ mem[n].commit <= c
      /\ c = highest_committable_index(mem[n], match, n)
      /\ \A p \in Peers(n) :
            \/ match[p] = matchIndex[n][p]
            \/ repl[n].res[p].success /\ match[p] = repl[n].res[p].match
  BY DEF Advances
<1>2. /\ mem[n] \in PersistentState /\ mem[n].commit \in Nat
      /\ mem[n].log \in Seq(LogEntry) /\ disk[n].log \in Seq(LogEntry)
      /\ mem[n].term \in Nat
  BY DEF TypeInv, TypeOK, PersistentState
<1>3. PICK B : B = {n} \cup {p \in Peers(n) : match[p] >= c}
  OBVIOUS
<1>4. c \in committable(mem[n], match, n)
  BY <1>1, <1>2, CommitsCommittable
<1>5. /\ c \in (mem[n].commit + 1)..Len(mem[n].log) /\ log_term(mem[n].log, c) = mem[n].term
      /\ Cardinality(B) >= majority
  BY <1>3, <1>4 DEF committable
<1>6. c \in 1..Len(mem[n].log) /\ mem[n].log[c].term = mem[n].term
  <2>1. c \in 1..Len(mem[n].log)
    BY <1>1, <1>2, <1>5
  <2> QED BY <1>2, <1>5, <2>1, EntryTerms
<1>7. B \in Quorums
  BY <1>3, <1>5 DEF Quorums, Peers
<1>8. c <= Len(disk[n].log)
  <2>1. B # {n}
    <3>1. Cardinality({n}) < majority
      BY QuorumSizes
    <3>2. Cardinality({n}) = 1
      BY FS_Singleton
    <3>3. Cardinality(Node) \in Nat
      BY NodeFinite, FS_CardinalityType
    <3>4. majority \in Nat
      BY <3>3 DEF majority
    <3>5. B = {n} => Cardinality(B) = 1
      BY <3>2
    <3> QED BY <1>5, <3>1, <3>2, <3>4, <3>5
  <2>2. PICK p \in Peers(n) : match[p] >= c
    BY <1>3, <2>1
  <2> QED BY <1>1, <1>2, <2>2
<1>9. B \subseteq Ackers(n, c)
  <2>1. ASSUME NEW p \in Peers(n), match[p] >= c PROVE Acked(n, p, c)
    <3>1. CASE match[p] = matchIndex[n][p]
      BY <2>1, <3>1 DEF Acked
    <3>2. CASE repl[n].res[p].success /\ match[p] = repl[n].res[p].match
      BY <1>1, <2>1, <3>2 DEF Acked, Answered
    <3> QED BY <1>1, <3>1, <3>2
  <2> QED BY <1>3, <1>8, <2>1 DEF Ackers
<1>10. Open(mem[n].term, Ackers(n, c))
  BY <1>7, <1>9 DEF Open
<1>11. Safe(F, c, mem[n].term, Ackers(n, c))
  BY <1>1, <1>6, <1>10 DEF LogInv, LeaderSafe, Own, SafeWhileOpen
<1>12. Safe(F, c, mem[n].term, B)
  BY <1>9, <1>11, SafeWithFewer
<1> QED BY <1>6, <1>7, <1>12 DEF Has

\* A round counts only what peers had confirmed, and the leader's file.
LEMMA AdvancesJoins ==
    ASSUME NEW F, TypeInv, TypeInv', NEW n \in Node, NEW heard, NEW match, NEW c,
           Advances(n, heard, match, c), NEW k \in Node, NEW i \in Nat,
           Own(k, i), NEW q \in Ackers(k, i)'
    PROVE  q \in Ackers(k, i) \/ Joins(q, i, mem[k].term)
<1>1. /\ role[n] = "Leader" /\ mem[n].term = repl[n].term
      /\ mem'[n].log = mem[n].log /\ mem'[n].term = mem[n].term
      /\ disk'[n] \in {disk[n], mem'[n]}
      /\ matchIndex'[n] = match /\ repl'[n] = NoRound(n)
      /\ \A p \in Peers(n) :
            \/ match[p] = matchIndex[n][p]
            \/ repl[n].res[p].success /\ match[p] = repl[n].res[p].match
  BY DEF Advances
<1>2. CASE k # n
  BY <1>2 DEF Advances, Ackers, Acked, Answered
<1>3. CASE k = n
  <2>1. CASE q = n
    <3>1. CASE disk'[n] = disk[n]
      BY <1>3, <2>1, <3>1 DEF Ackers, Peers
    <3>2. CASE disk'[n] = mem'[n]
      <4>1. mem[n].term <= mem[n].term
        BY StatesTyped
      <4>2. Has(mem'[n].log, i, mem[n].term)
        BY <1>1, <1>3 DEF Own, Has
      <4> QED BY <1>1, <1>3, <2>1, <3>2, <4>1, <4>2 DEF Joins
    <3> QED BY <1>1, <3>1, <3>2
  <2>2. CASE q # n
    <3>1. q \in Peers(n) /\ q \in Node /\ Acked(n, q, i)'
      BY <1>3, <2>2 DEF Ackers, Peers
    <3>2. ~repl'[n].res[q].success
      BY <1>1, <3>1 DEF NoRound, NoAnswer
    <3>3. match[q] >= i
      BY <1>1, <3>1, <3>2 DEF Acked, Answered
    <3>4. Acked(n, q, i)
      <4>1. CASE match[q] = matchIndex[n][q]
        BY <3>3, <4>1 DEF Acked
      <4>2. CASE repl[n].res[q].success /\ match[q] = repl[n].res[q].match
        BY <1>1, <3>3, <4>2 DEF Acked, Answered
      <4> QED BY <1>1, <3>1, <4>1, <4>2
    <3> QED BY <1>3, <3>1, <3>4 DEF Ackers
  <2> QED BY <2>1, <2>2
<1> QED BY <1>2, <1>3

\* What a leader that commits makes of the history: it grows at most by the
\* leader's log, and the leader's commit index is a point of it.
LEMMA CommitExtends ==
    ASSUME NEW F, TypeInv, TypeInv', LogInv(F), LogStep(F, F),
           NEW n \in Node, NEW heard, NEW match, NEW c, Advances(n, heard, match, c),
           c # mem[n].commit,
           \A p \in Peers(n) : match[p] \in Nat /\ match[p] <= Len(disk[n].log)
    PROVE  /\ IsPrefixOf(chosen, chosen')
           /\ c \in Points(F)' /\ chosen'[c].term = mem[n].term
           /\ \A j \in 1..c : mem[n].log[j] = chosen'[j]
           /\ chosen' = chosen \/ (Len(chosen') = c /\ IsPrefixOf(chosen', mem[n].log))
<1>1. PICK T \in Nat : T = mem[n].term
  BY StatesTyped
<1>2. /\ role[n] = "Leader" /\ c \in Nat
      /\ chosen' = IF c > Len(chosen) THEN SubSeq(mem[n].log, 1, c) ELSE chosen
  BY DEF Advances
<1>3. Has(mem[n].log, c, T)
  BY <1>1, CommitIsSafe
<1>4. PICK B \in Quorums : Safe(F, c, T, B)
  BY <1>1, CommitIsSafe
<1>5. /\ c > Len(chosen) => IsPrefixOf(chosen, mem[n].log)
      /\ c <= Len(chosen) => \A j \in 1..c : mem[n].log[j] = chosen[j]
  <2>1. Inherited(F, c, T)
    BY <1>4 DEF Safe
  <2> QED BY <1>1, <1>2, <1>3, <2>1, InheritedWithChosen
<1>6. /\ chosen \in Seq(LogEntry) /\ chosen' \in Seq(LogEntry)
      /\ mem[n].log \in Seq(LogEntry)
      /\ c \in 1..Len(mem[n].log) /\ mem[n].log[c].term = T
  BY <1>3 DEF TypeInv, TypeOK, PersistentState, Has
<1>9. /\ IsPrefixOf(chosen, chosen')
      /\ c \in 1..Len(chosen') /\ \A j \in 1..c : mem[n].log[j] = chosen'[j]
      /\ chosen' = chosen \/ (Len(chosen') = c /\ IsPrefixOf(chosen', mem[n].log))
  <2>1. CASE c > Len(chosen)
    <3>1. Len(chosen') = c /\ \A j \in 1..c : chosen'[j] = mem[n].log[j]
      BY <1>2, <1>6, <2>1
    <3>2. IsPrefixOf(chosen, mem[n].log) /\ Len(chosen) <= c
      BY <1>2, <1>5, <1>6, <2>1
    <3>3. IsPrefixOf(chosen, chosen')
      BY <1>6, <3>1, <3>2 DEF IsPrefixOf
    <3>4. IsPrefixOf(chosen', mem[n].log)
      BY <1>6, <3>1 DEF IsPrefixOf
    <3> QED BY <1>6, <3>1, <3>3, <3>4
  <2>2. CASE c <= Len(chosen)
    <3>1. chosen' = chosen
      BY <1>2, <1>6, <2>2
    <3>2. IsPrefixOf(chosen, chosen)
      BY <1>6 DEF IsPrefixOf
    <3>3. c \in 1..Len(chosen)
      BY <1>2, <1>6, <2>2
    <3>4. \A j \in 1..c : mem[n].log[j] = chosen[j]
      BY <1>5, <2>2
    <3> QED BY <3>1, <3>2, <3>3, <3>4
  <2> QED BY <1>2, <1>6, <2>1, <2>2
<1>10. chosen'[c].term = T
  BY <1>6, <1>9
<1>11. Safe(F, c, T, B)'
  <2>1. B \in SUBSET Node /\ Open(T, B)
    BY DEF Open, Quorums
  <2> QED BY <1>2, <1>4, <2>1, SafeKept DEF LogInv
<1>12. c \in Points(F)'
  BY <1>9, <1>10, <1>11 DEF Points, Quorums
<1> QED BY <1>1, <1>9, <1>10, <1>12

\* What the leader that applies the answers of a round knows.
LEMMA AdvancesKnows ==
    ASSUME NEW F, TypeInv, TypeInv', LogInv(F), LogStep(F, F),
           NEW n \in Node, NEW heard, NEW match, NEW c, Advances(n, heard, match, c),
           \A p \in Peers(n) : match[p] \in Nat /\ match[p] <= Len(disk[n].log)
    PROVE  /\ IsPrefixOf(chosen, chosen')
           /\ \E a \in F : IsPrefixOf(chosen', a)
           /\ Len(chosen') > 0 => Len(chosen') \in Points(F)'
           /\ Knows(mem'[n].log, mem'[n].commit, mem'[n].term, chosen', Points(F)')
<1>1. /\ mem'[n].log = mem[n].log /\ mem'[n].term = mem[n].term /\ mem'[n].commit = c
      /\ c \in Nat /\ c <= Len(mem[n].log)
      /\ chosen' = IF c > Len(chosen) THEN SubSeq(mem[n].log, 1, c) ELSE chosen
  BY DEF Advances
<1>2. /\ Struct(F) /\ Committed(F) /\ mem[n].log \in F
      /\ chosen \in Seq(LogEntry) /\ chosen' \in Seq(LogEntry)
  <2>1. Struct(F) /\ Committed(F) /\ mem[n].log \in F
    BY DEF LogInv, Struct, LogsInv, Fits
  <2>2. chosen \in Seq(LogEntry) /\ chosen' \in Seq(LogEntry)
    BY DEF TypeInv, TypeOK
  <2> QED BY <2>1, <2>2
<1>3. CASE c = mem[n].commit
  <2>1. c <= Len(chosen)
    BY <1>2, <1>3 DEF Committed, Knows
  <2>2. chosen' = chosen /\ IsPrefixOf(chosen, chosen')
    BY <1>1, <1>2, <2>1 DEF IsPrefixOf
  <2>3. GoesOn(mem[n], n)
    BY GoesOnItself
  <2>4. GoesOn(mem'[n], n)
    BY <1>1, <1>3, <2>3, GoesOnItself DEF GoesOn
  <2>5. mem'[n] \in PersistentState
    BY DEF TypeInv, TypeOK
  <2>6. Knows(mem'[n].log, mem'[n].commit, mem'[n].term, chosen', Points(F)')
    BY <1>2, <2>2, <2>4, <2>5, GoesOnKnowing
  <2>7. Points(F) \subseteq Points(F)'
    BY <1>2, <2>2, PointsKept
  <2> QED BY <1>2, <2>2, <2>6, <2>7 DEF Committed
<1>4. CASE c # mem[n].commit
  <2>1. /\ IsPrefixOf(chosen, chosen')
        /\ c \in Points(F)' /\ chosen'[c].term = mem[n].term
        /\ \A j \in 1..c : mem[n].log[j] = chosen'[j]
        /\ chosen' = chosen \/ (Len(chosen') = c /\ IsPrefixOf(chosen', mem[n].log))
    BY <1>4, CommitExtends
  <2>2. Points(F) \subseteq Points(F)'
    BY <1>2, <2>1, PointsKept
  <2>3. /\ \E a \in F : IsPrefixOf(chosen', a)
        /\ Len(chosen') > 0 => Len(chosen') \in Points(F)'
    BY <1>2, <2>1, <2>2 DEF Committed
  <2>4. c <= Len(chosen')
    BY <1>2, <2>1 DEF Points
  <2>5. c <= c /\ chosen'[c].term <= mem[n].term
    BY <1>1, <2>1, StatesTyped
  <2>6. Knows(mem[n].log, c, mem[n].term, chosen', Points(F)')
    BY <1>1, <2>1, <2>4, <2>5 DEF Knows
  <2> QED BY <1>1, <2>1, <2>3, <2>6
<1> QED BY <1>3, <1>4

\* Applying the answers of a round keeps the whole invariant.
LEMMA RoundAdvancesSafety ==
    ASSUME NEW F, TypeInv, TypeInv', VoteInv, VoteInv', StatesMoveOn, LogInv(F),
           NEW n \in Node, NEW heard \in SUBSET Peers(n), RoundAdvances(n, heard)
    PROVE  LogInv(F)' /\ IsPrefixOf(chosen, chosen')
<1>1. Struct(F) /\ LeaderSafe(F) /\ Committed(F)
  BY DEF LogInv
<1>2. PICK match, c : Advances(n, heard, match, c)
  BY RoundAdvancesAdvances
<1>3. /\ Struct(F)' /\ GrantsChecked
      /\ \A p \in Peers(n) : match[p] \in Nat /\ match[p] <= Len(disk[n].log)
  BY <1>1, <1>2, AdvancesStruct
<1>4. /\ mem'[n].log = mem[n].log /\ mem'[n].term = mem[n].term
      /\ disk'[n] \in {disk[n], mem'[n]}
      /\ \A k \in Node \ {n} : mem'[k] = mem[k] /\ disk'[k] = disk[k]
      /\ role' = role /\ appends' = appends
  BY <1>2 DEF Advances
<1>5. LogStep(F, F)
  <2>1. KeepsEntries(F)
    BY <1>4 DEF KeepsEntries
  <2>2. Inherits(F, F)
    BY DEF Inherits, Safe
  <2> QED BY <1>3, <2>1, <2>2 DEF LogStep
<1>6. LeaderSafe(F)'
  <2> SUFFICES ASSUME NEW k \in Node, NEW i \in Nat, Own(k, i)'
               PROVE  SafeWhileOpen(F, k, i)'
    BY DEF LeaderSafe
  <2>1. mem'[k].term = mem[k].term /\ mem'[k].log = mem[k].log
    BY <1>4
  <2>2. Own(k, i)
    BY <1>4, <2>1 DEF Own
  <2>3. \A q \in Ackers(k, i)' : q \in Ackers(k, i) \/ Joins(q, i, mem[k].term)
    BY <1>2, <2>2, AdvancesJoins
  <2> QED BY <1>1, <1>5, <2>1, <2>2, <2>3, OwnEntryKept
<1>7. /\ IsPrefixOf(chosen, chosen')
      /\ \E a \in F : IsPrefixOf(chosen', a)
      /\ Len(chosen') > 0 => Len(chosen') \in Points(F)'
      /\ Knows(mem'[n].log, mem'[n].commit, mem'[n].term, chosen', Points(F)')
  BY <1>2, <1>3, <1>5, AdvancesKnows
<1>8. \A k \in Node :
         /\ Knows(mem[k].log, mem[k].commit, mem[k].term, chosen', Points(F)')
         /\ Knows(disk[k].log, disk[k].commit, disk[k].term, chosen', Points(F)')
  <2>1. \A k \in Node : mem[k] \in PersistentState /\ disk[k] \in PersistentState
    BY DEF TypeInv, TypeOK
  <2> QED BY <1>1, <1>5, <1>7, <2>1, GoesOnItself, GoesOnKnowing
<1>9. \A k \in Node :
         /\ Knows(mem'[k].log, mem'[k].commit, mem'[k].term, chosen', Points(F)')
         /\ Knows(disk'[k].log, disk'[k].commit, disk'[k].term, chosen', Points(F)')
  BY <1>4, <1>7, <1>8
<1>10. Committed(F)'
  BY <1>1, <1>4, <1>5, <1>7, <1>9, CommittedNext
<1> QED BY <1>3, <1>6, <1>7, <1>10 DEF LogInv

-----------------------------------------------------------------------------
(* The invariant, and what it says of the logs.                              *)

\* The empty log is all there is at the start.
LEMMA InitLog == Init => LogInv({<< >>})
<1> SUFFICES ASSUME Init PROVE LogInv({<< >>})
  OBVIOUS
<1> DEFINE F == {<< >>}
<1>1. /\ \A n \in Node : mem[n] = Fresh /\ disk[n] = Fresh /\ role[n] = "Follower"
                         /\ repl[n].term = 0
      /\ voteReqs = {} /\ voteReplies = {} /\ appends = {} /\ elected = {}
      /\ chosen = << >>
  BY DEF Init, NoRound
<1>2. Family(F)
  BY DEF Family, Matching, Uniform, Sorted
<1>3. LogsInv(F)
  <2>1. last_log_term(<< >>) = 0
    BY DEF last_log_term, log_term
  <2> QED BY <1>1, <2>1 DEF LogsInv, Fits, Fresh
<1>4. Created(F) /\ Elections /\ Candidates
  BY <1>1 DEF Created, Elections, Candidates, Live
<1>5. LeaderLogs(F) /\ LeaderIndexes /\ RoundTerms /\ Sent(F)
  BY <1>1 DEF LeaderLogs, LeaderIndexes, RoundTerms, Sent
<1>6. LeaderSafe(F)
  BY <1>1 DEF LeaderSafe, Own
<1>7. Committed(F)
  <2>1. IsPrefixOf(<< >>, << >>)
    BY DEF IsPrefixOf
  <2>2. \A P, t : Knows(<< >>, 0, t, << >>, P)
    BY DEF Knows
  <2> QED BY <1>1, <2>1, <2>2 DEF Committed, Fresh
<1> QED BY <1>2, <1>3, <1>4, <1>5, <1>6, <1>7 DEF LogInv, Struct

\* Every step keeps the invariant, with a log more at most, and only extends the
\* history.
LEMMA NextLog ==
    ASSUME NEW F, TypeInv, TypeInv', VoteInv, VoteInv', StatesMoveOn, LogInv(F),
           [Next]_vars
    PROVE  (\E H : LogInv(H)') /\ IsPrefixOf(chosen, chosen')
<1>1. Struct(F)
  BY DEF LogInv
<1>2. ASSUME QuietStep(F) PROVE (\E H : LogInv(H)') /\ IsPrefixOf(chosen, chosen')
  BY <1>2, QuietSafety
<1>3. CASE UNCHANGED vars
  BY <1>1, <1>2, <1>3, IdleActionsQuiet
<1>4. CASE \E n \in Node : Campaign(n)
  BY <1>1, <1>2, <1>4, CampaignQuiet
<1>5. CASE \E p \in Node, m \in voteReqs : HandleRequestVote(p, m)
  BY <1>1, <1>2, <1>5, HandleRequestVoteQuiet
<1>6. CASE \E p \in Node, m \in voteReqs : RefuseStaleVote(p, m)
  BY <1>1, <1>2, <1>6, RefuseStaleVoteQuiet
<1>7. CASE \E n \in Node : CampaignStepsDown(n)
  BY <1>1, <1>2, <1>7, CampaignStepsDownQuiet
<1>8. CASE \E n \in Node : CampaignWins(n)
  BY <1>8, CampaignWinsSafety
<1>9. CASE \E n \in Node : \/ CampaignEnds(n) \/ RoundIsStale(n)
                           \/ WriteSucceeds(n) \/ WriteGivesUp(n)
  BY <1>1, <1>2, <1>9, IdleActionsQuiet
<1>10. CASE \E n \in Node : StartRound(n)
  BY <1>10, StartRoundSafety
<1>11. CASE \E m \in appends : RefuseStaleAppend(m)
  BY <1>1, <1>2, <1>11, IdleActionsQuiet
<1>12. CASE \E m \in appends : AppendTermNotSaved(m) \/ RefuseAppend(m)
  BY <1>1, <1>2, <1>12, RefusedAppendQuiet
<1>13. CASE \E m \in appends : AcceptAppend(m)
  BY <1>13, AcceptAppendSafety
<1>14. CASE \E n \in Node : RoundStepsDown(n)
  BY <1>1, <1>2, <1>14, RoundStepsDownQuiet
<1>15. CASE \E n \in Node : \E heard \in SUBSET Peers(n) : RoundAdvances(n, heard)
  BY <1>15, RoundAdvancesSafety
<1>16. CASE \E n \in Node, v \in Intent : ClientWrite(n, v)
  BY <1>16, ClientWriteSafety
<1>17. CASE \E n \in Node : Restart(n)
  BY <1>1, <1>2, <1>17, RestartQuiet
<1> QED BY <1>3, <1>4, <1>5, <1>6, <1>7, <1>8, <1>9, <1>10, <1>11, <1>12, <1>13,
           <1>14, <1>15, <1>16, <1>17 DEF Next

\* The inductive invariant of the logs.
RaftInv == TypeInv /\ VoteInv /\ \E F : LogInv(F)

\* Every step keeps it.
LEMMA NextRaftInv ==
    ASSUME RaftInv, [Next]_vars
    PROVE  RaftInv' /\ IsPrefixOf(chosen, chosen')
<1>1. TypeInv /\ VoteInv /\ TypeInv'
  BY NextTypeInv DEF RaftInv
<1>2. VoteInv'
  BY <1>1, NextVotes
<1>3. StatesMoveOn
  BY <1>1, NextStates DEF VoteInv
<1>4. PICK F : LogInv(F)
  BY DEF RaftInv
<1>5. (\E H : LogInv(H)') /\ IsPrefixOf(chosen, chosen')
  BY <1>1, <1>2, <1>3, <1>4, NextLog
<1> QED BY <1>1, <1>2, <1>5 DEF RaftInv

\* The logs of every reachable state come about as the invariant says, for every
\* finite cluster and every bound.
THEOREM LogInvariant == Spec => []RaftInv
<1>1. Init => RaftInv
  BY InitTypeInv, InitVotes, InitLog DEF RaftInv
<1>2. RaftInv /\ [Next]_vars => RaftInv'
  BY NextRaftInv
<1> QED BY <1>1, <1>2, PTL DEF Spec

\* A point of the history is an entry of a log that begins with the history.
LEMMA PointsInFamily ==
    ASSUME NEW F, TypeInv, LogInv(F), NEW j \in Points(F)
    PROVE  /\ j \in 1..Len(chosen) /\ chosen[j].term \in Nat
           /\ Inherited(F, j, chosen[j].term)
           /\ \E a \in F : /\ IsPrefixOf(chosen, a) /\ Has(a, j, chosen[j].term)
                           /\ \A i \in 1..j : a[i] = chosen[i]
<1>1. j \in 1..Len(chosen) /\ Inherited(F, j, chosen[j].term)
  BY DEF Points, Safe
<1>2. chosen \in Seq(LogEntry)
  BY DEF TypeInv, TypeOK
<1>3. PICK a \in F : IsPrefixOf(chosen, a)
  BY DEF LogInv, Committed
<1>4. a \in Seq(LogEntry)
  BY DEF LogInv, Struct, Family
<1>5. Has(a, j, chosen[j].term) /\ \A i \in 1..j : a[i] = chosen[i]
  BY <1>1, <1>2, <1>3, <1>4 DEF IsPrefixOf, Has
<1> QED BY <1>1, <1>2, <1>3, <1>5, EntryTerms

\* Every entry of the history is on the disks of a majority.
LEMMA ChosenOnDisks ==
    ASSUME NEW F, TypeInv, LogInv(F)
    PROVE  ChosenIsDurable
<1>1. chosen \in Seq(LogEntry) /\ Len(chosen) \in Nat
  BY DEF TypeInv, TypeOK
<1>2. PICK Q \in Quorums : \A q \in Q : IsPrefixOf(chosen, disk[q].log)
  <2>1. CASE Len(chosen) = 0
    <3>1. \A q \in Node : disk[q].log \in Seq(LogEntry)
      BY DEF TypeInv, TypeOK, PersistentState
    <3>2. \A q \in Node : IsPrefixOf(chosen, disk[q].log)
      BY <1>1, <2>1, <3>1 DEF IsPrefixOf
    <3> QED BY <3>2, QuorumSizes
  <2>2. CASE Len(chosen) > 0
    <3>1. PICK j \in Points(F) : j = Len(chosen)
      BY <2>2 DEF LogInv, Committed
    <3>2. PICK Q \in Quorums : Safe(F, j, chosen[j].term, Q)
      BY DEF Points
    <3>3. PICK a \in F : Has(a, j, chosen[j].term) /\ \A i \in 1..j : a[i] = chosen[i]
      BY PointsInFamily
    <3>4. ASSUME NEW q \in Q PROVE IsPrefixOf(chosen, disk[q].log)
      <4>1. q \in Node /\ Has(disk[q].log, j, chosen[j].term)
        BY <3>2 DEF Safe, Held, Quorums
      <4>2. Family(F) /\ disk[q].log \in F /\ disk[q].log \in Seq(LogEntry)
        BY <4>1 DEF LogInv, Struct, LogsInv, Fits, Family
      <4>3. \A i \in 1..j : a[i] = disk[q].log[i]
        BY <1>1, <3>1, <3>3, <4>1, <4>2, SameEntry
      <4>4. j <= Len(disk[q].log)
        BY <1>1, <3>1, <4>1, <4>2 DEF Has
      <4> QED BY <3>1, <3>3, <4>3, <4>4 DEF IsPrefixOf
    <3> QED BY <3>4
  <2> QED BY <1>1, <2>1, <2>2
<1>3. PICK S : S = {n \in Node : IsPrefixOf(chosen, disk[n].log)}
  OBVIOUS
<1>4. Q \subseteq S /\ S \subseteq Node /\ Cardinality(Q) >= majority
  BY <1>2, <1>3 DEF Quorums
<1>5. /\ IsFiniteSet(S) /\ Cardinality(S) \in Nat
      /\ Cardinality(Q) \in Nat /\ Cardinality(Q) <= Cardinality(S)
  <2>1. IsFiniteSet(S)
    BY <1>4, NodeFinite, FS_Subset
  <2>2. IsFiniteSet(Q) /\ Cardinality(Q) <= Cardinality(S)
    BY <1>4, <2>1, FS_Subset
  <2> QED BY <2>1, <2>2, FS_CardinalityType
<1>6. majority \in Nat
  <2>1. Cardinality(Node) \in Nat
    BY NodeFinite, FS_CardinalityType
  <2> QED BY <2>1 DEF majority
<1>7. Cardinality(S) >= majority
  BY <1>4, <1>5, <1>6
<1> QED BY <1>3, <1>7 DEF ChosenIsDurable

\* A request no older than its receiver agrees with what the receiver has
\* committed.
LEMMA RequestsAgree ==
    ASSUME NEW F, TypeInv, LogInv(F)
    PROVE  CommittedNeverOverwritten
<1> SUFFICES ASSUME NEW m \in appends, m.term >= mem[m.to].term,
                    NEW k \in 1..Len(m.entries), m.prevIndex + k <= mem[m.to].commit
             PROVE  mem[m.to].log[m.prevIndex + k] = m.entries[k]
  BY DEF CommittedNeverOverwritten, OverwritesCommitted
<1>1. /\ m.to \in Node /\ m.term \in Nat /\ m.prevIndex \in Nat
      /\ m.entries \in Seq(LogEntry)
  BY DEF TypeInv, TypeOK, AppendEntriesRequest
<1>2. mem[m.to].commit \in Nat /\ mem[m.to].term \in Nat
  BY <1>1 DEF TypeInv, TypeOK, PersistentState
<1>3. PICK x \in Nat : x = m.prevIndex + k /\ x > 0 /\ x <= mem[m.to].commit
  BY <1>1
<1>4. Family(F)
  BY DEF LogInv, Struct
<1>5. PICK src \in F : SentFrom(m, src)
  BY DEF LogInv, Committed
<1>6. /\ src \in Seq(LogEntry) /\ last_log_term(src) = m.term
      /\ x \in 1..Len(src) /\ m.entries[k] = src[x]
  <2>1. src \in Seq(LogEntry)
    BY <1>4 DEF Family
  <2>2. /\ Len(src) = m.prevIndex + Len(m.entries) /\ last_log_term(src) = m.term
        /\ \A i \in 1..Len(m.entries) : m.entries[i] = src[m.prevIndex + i]
    BY <1>5 DEF SentFrom
  <2>3. m.entries[k] = src[x] /\ x \in 1..Len(src)
    BY <1>1, <1>3, <2>2
  <2> QED BY <2>1, <2>2, <2>3
<1>7. Knows(mem[m.to].log, mem[m.to].commit, mem[m.to].term, chosen, Points(F))
  BY <1>1 DEF LogInv, Committed
<1>8. PICK j \in Points(F) : mem[m.to].commit <= j /\ chosen[j].term <= mem[m.to].term
  BY <1>2, <1>3, <1>7 DEF Knows
<1>9. mem[m.to].log[x] = chosen[x]
  BY <1>2, <1>3, <1>7 DEF Knows
<1>10. PICK T \in Nat : T = chosen[j].term
  BY PointsInFamily
<1>11. PICK a \in F : /\ Has(a, j, T) /\ \A i \in 1..j : a[i] = chosen[i]
  BY <1>10, PointsInFamily
<1>12. /\ j \in 1..Len(a) /\ a[j].term = T /\ x \in 1..j /\ T <= m.term
       /\ a \in Seq(LogEntry) /\ Inherited(F, j, T) /\ j \in Nat
  <2>1. j \in 1..Len(a) /\ a[j].term = T /\ a \in Seq(LogEntry) /\ j \in Nat
    BY <1>4, <1>11 DEF Has, Family
  <2>2. Inherited(F, j, T)
    BY <1>10, PointsInFamily
  <2>3. x \in 1..j
    BY <1>2, <1>3, <1>8, <2>1
  <2>4. T <= m.term
    BY <1>1, <1>2, <1>8, <1>10
  <2> QED BY <2>1, <2>2, <2>3, <2>4
<1>13. ASSUME NEW i \in Nat, NEW U, Has(a, i, U), Has(src, i, U), x <= i
       PROVE  src[x] = a[x]
  <2>1. \A y \in 1..i : src[y] = a[y]
    BY <1>4, <1>13, SameEntry
  <2> QED BY <1>3, <1>13, <2>1
<1>14. src[x] = a[x]
  <2>1. CASE T < m.term
    <3>1. Has(src, j, T)
      BY <1>6, <1>12, <2>1 DEF Inherited
    <3> QED BY <1>11, <1>12, <1>13, <3>1
  <2>2. CASE T = m.term
    <3>1. PICK L \in 1..Len(src) : L = Len(src) /\ src[L].term = T
      BY <1>6, <2>2, EntryTerms
    <3>2. Uniform(F)
      BY <1>4 DEF Family
    <3>3. CASE L <= j
      <4>1. a[L].term = T /\ L \in 1..Len(a)
        BY <1>6, <1>12, <3>1, <3>2, <3>3 DEF Uniform
      <4>2. Has(a, L, T) /\ Has(src, L, T) /\ L \in Nat /\ x <= L
        BY <1>6, <3>1, <4>1 DEF Has
      <4> QED BY <1>13, <4>2
    <3>4. CASE j <= L
      <4>1. src[j].term = T /\ j \in 1..Len(src)
        BY <1>6, <1>12, <3>1, <3>2, <3>4 DEF Uniform
      <4>2. Has(src, j, T) /\ x <= j
        BY <1>12, <4>1 DEF Has
      <4> QED BY <1>11, <1>12, <1>13, <4>2
    <3> QED BY <1>6, <1>12, <3>1, <3>3, <3>4
  <2> QED BY <1>1, <1>12, <2>1, <2>2
<1> QED BY <1>3, <1>6, <1>9, <1>11, <1>12, <1>14

\* The invariant gives what Raft promises of its logs.
LEMMA LogsAgreeHere ==
    ASSUME NEW F, TypeInv, LogInv(F)
    PROVE  LogsAgree
<1>1. /\ Family(F)
      /\ \A n \in Node : mem[n].log \in F /\ disk[n].log \in F
      /\ \A n \in Node :
            /\ mem[n].log \in Seq(LogEntry) /\ mem[n].commit \in Nat
            /\ mem[n].commit <= Len(mem[n].log)
            /\ disk[n].log \in Seq(LogEntry) /\ disk[n].commit \in Nat
            /\ disk[n].commit <= Len(disk[n].log)
      /\ chosen \in Seq(LogEntry)
  <2>1. Family(F) /\ \A n \in Node : mem[n].log \in F /\ disk[n].log \in F
    BY DEF LogInv, Struct, LogsInv, Fits
  <2>2. chosen \in Seq(LogEntry)
    BY DEF TypeInv, TypeOK
  <2>3. \A n \in Node :
           /\ mem[n].log \in Seq(LogEntry) /\ mem[n].commit \in Nat
           /\ mem[n].commit <= Len(mem[n].log)
           /\ disk[n].log \in Seq(LogEntry) /\ disk[n].commit \in Nat
           /\ disk[n].commit <= Len(disk[n].log)
    BY DEF TypeInv, TypeOK, PersistentState
  <2> QED BY <2>1, <2>2, <2>3
<1>2. LogMatching
  <2>1. ASSUME NEW a \in F, NEW b \in F, NEW i \in 1..Lower(Len(a), Len(b)),
               a[i].term = b[i].term
        PROVE  \A j \in 1..i : a[j] = b[j]
    <3>1. a \in Seq(LogEntry) /\ b \in Seq(LogEntry)
      BY <1>1 DEF Family
    <3>2. i \in 1..Len(a) /\ i <= Len(b)
      BY <3>1 DEF Lower
    <3> QED BY <1>1, <2>1, <3>2 DEF Family, Matching
  <2>2. {mem[n].log : n \in Node} \cup {disk[n].log : n \in Node} \subseteq F
    BY <1>1
  <2> QED BY <2>1, <2>2 DEF LogMatching
<1>3. CommittedPrefixesAgree
  <2>1. ASSUME NEW log \in Seq(LogEntry), NEW c \in Nat, c <= Len(log), NEW t, NEW P,
               Knows(log, c, t, chosen, P)
        PROVE  IsPrefixOf(SubSeq(log, 1, c), chosen)
    BY <1>1, <2>1 DEF Knows, IsPrefixOf
  <2>2. \A n \in Node :
           /\ Knows(mem[n].log, mem[n].commit, mem[n].term, chosen, Points(F))
           /\ Knows(disk[n].log, disk[n].commit, disk[n].term, chosen, Points(F))
    BY DEF LogInv, Committed
  <2>3. \A n \in Node : /\ IsPrefixOf(SubSeq(mem[n].log, 1, mem[n].commit), chosen)
                        /\ IsPrefixOf(SubSeq(disk[n].log, 1, disk[n].commit), chosen)
    BY <1>1, <2>1, <2>2
  <2> QED BY <1>1, <2>3 DEF CommittedPrefixesAgree
<1>4. LeaderHoldsChosen
  BY LeaderHasChosen DEF LeaderHoldsChosen
<1>5. TypeOK
  BY DEF TypeInv
<1> QED BY <1>2, <1>3, <1>4, <1>5, ChosenOnDisks, RequestsAgree DEF LogsAgree

\* The replicas' logs agree as Raft needs them to and what was committed stays,
\* whatever is lost, delayed, reordered or repeated, across restarts and failed
\* saves, for every finite cluster and every bound.
THEOREM LogsAreSafe == Spec => []LogsAgree
<1>1. RaftInv => LogsAgree
  BY LogsAgreeHere DEF RaftInv
<1> QED BY <1>1, LogInvariant, PTL

-----------------------------------------------------------------------------
(* The cluster implements ConfigService.                                     *)

\* The configuration of a node that knows its part of the history is the latest
\* one of that part.
LEMMA LatestKnown ==
    ASSUME NEW s, s.commit \in Nat, NEW h, \A j \in 1..s.commit : s.log[j] = h[j]
    PROVE  apply_committed(s) = Service!Latest(h, s.commit)
<1>1. PICK configs : configs = {i \in 1..s.commit : s.log[i].cmd # Noop}
  OBVIOUS
<1>2. configs = {i \in 1..s.commit : h[i].cmd # Noop}
  BY <1>1
<1>3. CASE configs = {}
  BY <1>1, <1>2, <1>3 DEF apply_committed, Service!Latest
<1>4. CASE configs # {}
  <2> DEFINE last == CHOOSE i \in configs : \A j \in configs : j <= i
  <2>1. /\ apply_committed(s) = [revision |-> last, term |-> s.log[last].term,
                                 cmd |-> s.log[last].cmd]
        /\ Service!Latest(h, s.commit) = [revision |-> last, term |-> h[last].term,
                                          cmd |-> h[last].cmd]
    BY <1>1, <1>2, <1>4 DEF apply_committed, Service!Latest
  <2>2. \E i \in configs : \A j \in configs : j <= i
    <3>1. configs \subseteq 0..s.commit
      BY <1>1
    <3> QED BY <1>4, <3>1, MaxExists
  <2>3. last \in configs
    BY <2>2
  <2> HIDE DEF last
  <2>4. s.log[last] = h[last]
    BY <1>1, <2>3
  <2> QED BY <2>1, <2>4, ZenonT(40)
<1> QED BY <1>3, <1>4

\* Every node, now or after reading its file, serves the latest configuration of
\* the history it has seen.
HistoryServed ==
    \A n \in Node : /\ mem[n].commit \in 0..Len(chosen)
                    /\ disk[n].commit \in 0..Len(chosen)
                    /\ applied[n] = Service!Latest(chosen, mem[n].commit)
                    /\ apply_committed(disk[n])
                          = Service!Latest(chosen, disk[n].commit)

\* The invariant says so.
LEMMA ServesHistory == RaftInv /\ AppliedIsCurrent => HistoryServed
<1> SUFFICES ASSUME RaftInv, AppliedIsCurrent PROVE HistoryServed
  OBVIOUS
<1>1. PICK F : LogInv(F)
  BY DEF RaftInv
<1>2. \A n \in Node :
         /\ Knows(mem[n].log, mem[n].commit, mem[n].term, chosen, Points(F))
         /\ Knows(disk[n].log, disk[n].commit, disk[n].term, chosen, Points(F))
  BY <1>1 DEF LogInv, Committed
<1>3. \A n \in Node :
         /\ mem[n].commit <= Len(chosen) /\ disk[n].commit <= Len(chosen)
         /\ \A j \in 1..mem[n].commit : mem[n].log[j] = chosen[j]
         /\ \A j \in 1..disk[n].commit : disk[n].log[j] = chosen[j]
  BY <1>2 DEF Knows
<1>4. /\ \A n \in Node : mem[n].commit \in Nat /\ disk[n].commit \in Nat
      /\ Len(chosen) \in Nat
  BY DEF RaftInv, TypeInv, TypeOK, PersistentState
<1>5. \A n \in Node : /\ apply_committed(mem[n]) = Service!Latest(chosen, mem[n].commit)
                      /\ apply_committed(disk[n]) = Service!Latest(chosen, disk[n].commit)
  BY <1>3, <1>4, LatestKnown
<1> QED BY <1>3, <1>4, <1>5 DEF AppliedIsCurrent, HistoryServed

\* A reachable state of the cluster is one of the service.
LEMMA ClusterMidway ==
    ASSUME RaftInv, AppliedIsCurrent
    PROVE  Service!Midway
<1>1. /\ applied \in [Node -> CommittedConfiguration]
      /\ storageError \in [Node -> BOOLEAN]
  BY DEF RaftInv, TypeInv, TypeOK
<1>2. \A n \in Node : /\ mem[n].commit \in 0..Len(chosen)
                      /\ applied[n] = Service!Latest(chosen, mem[n].commit)
  BY ServesHistory DEF HistoryServed
<1>3. applied = [n \in Node |-> Service!Latest(chosen, mem[n].commit)]
  BY <1>1, <1>2
<1> QED BY <1>1, <1>2, <1>3 DEF Service!Midway

\* A node that moves on learns more of the history.
LEMMA MovesLearns ==
    ASSUME RaftInv, RaftInv', AppliedIsCurrent', IsPrefixOf(chosen, chosen'),
           NEW n \in Node, Moves(n)
    PROVE  Service!Learn(n)
<1>1. PICK s : SetMem(n, s) /\ Keeps(mem[n], s)
  BY DEF Moves
<1>2. /\ mem \in [Node -> PersistentState] /\ mem' \in [Node -> PersistentState]
      /\ applied \in [Node -> CommittedConfiguration]
      /\ applied' \in [Node -> CommittedConfiguration]
      /\ chosen \in Seq(LogEntry) /\ chosen' \in Seq(LogEntry)
  BY DEF RaftInv, TypeInv, TypeOK
<1>3. /\ mem' = [mem EXCEPT ![n] = s] /\ mem'[n] = s
      /\ \A k \in Node \ {n} : mem'[k] = mem[k] /\ applied'[k] = applied[k]
  BY <1>1, <1>2 DEF SetMem
<1>4. \A k \in Node : /\ mem'[k].commit \in 0..Len(chosen')
                      /\ applied'[k] = Service!Latest(chosen', mem'[k].commit)
  <2>1. HistoryServed'
    BY ServesHistory, PTL
  <2> QED BY <2>1 DEF HistoryServed
<1>5. Len(chosen') >= Len(chosen) /\ SubSeq(chosen', 1, Len(chosen)) = chosen
  BY <1>2 DEF IsPrefixOf
<1>6. mem'[n].commit \in mem[n].commit..Len(chosen')
  <2>1. mem[n].commit \in Nat
    BY <1>2 DEF PersistentState
  <2> QED BY <1>1, <1>2, <1>3, <1>4, <2>1 DEF Keeps
<1>7. [k \in Node |-> mem'[k].commit]
         = [[k \in Node |-> mem[k].commit] EXCEPT ![n] = mem'[n].commit]
  <2> DEFINE old == [k \in Node |-> mem[k].commit]
             new == [k \in Node |-> mem'[k].commit]
  <2>1. \A k \in Node : new[k] = [old EXCEPT ![n] = mem'[n].commit][k]
    BY <1>3
  <2> QED BY <2>1
<1>8. applied' = [applied EXCEPT ![n] = Service!Latest(chosen', mem'[n].commit)]
  BY <1>2, <1>3, <1>4
<1>9. storageError' \in {storageError, [storageError EXCEPT ![n] = TRUE]}
  BY DEF Moves
<1> QED BY <1>5, <1>6, <1>7, <1>8, <1>9 DEF Service!Learn, Service!Extends

\* A restart of a node is one of the service.
LEMMA RestartRestarts ==
    ASSUME RaftInv, AppliedIsCurrent, NEW n \in Node, Restart(n)
    PROVE  Service!Restart(n)
<1>1. /\ mem \in [Node -> PersistentState] /\ applied \in [Node -> CommittedConfiguration]
      /\ storageError \in [Node -> BOOLEAN]
  BY DEF RaftInv, TypeInv, TypeOK
<1>2. /\ mem' = [mem EXCEPT ![n] = disk[n]]
      /\ applied' = [applied EXCEPT ![n] = apply_committed(disk[n])]
      /\ storageError' = [storageError EXCEPT ![n] = FALSE]
      /\ chosen' = chosen
  BY DEF Restart, history
<1>3. /\ disk[n].commit \in 0..Len(chosen)
      /\ apply_committed(disk[n]) = Service!Latest(chosen, disk[n].commit)
  BY ServesHistory DEF HistoryServed
<1>4. mem'[n] = disk[n] /\ \A k \in Node \ {n} : mem'[k] = mem[k]
  BY <1>1, <1>2
<1>5. ~storageError[n] => disk[n] = mem[n]
  BY DEF RaftInv, VoteInv, StatesInv
<1>6. [k \in Node |-> mem'[k].commit]
         = [[k \in Node |-> mem[k].commit] EXCEPT ![n] = mem'[n].commit]
  <2> DEFINE old == [k \in Node |-> mem[k].commit]
             new == [k \in Node |-> mem'[k].commit]
  <2>1. \A k \in Node : new[k] = [old EXCEPT ![n] = mem'[n].commit][k]
    BY <1>4
  <2> QED BY <2>1
<1>7. mem'[n].commit \in IF storageError[n] THEN 0..Len(chosen) ELSE {mem[n].commit}
  BY <1>3, <1>4, <1>5
<1>8. applied' = [applied EXCEPT ![n] = Service!Latest(chosen, mem'[n].commit)]
  BY <1>2, <1>3, <1>4
<1> QED BY <1>2, <1>6, <1>7, <1>8 DEF Service!Restart

\* Every step of the cluster is a step of the service, or none.
LEMMA StepRefines ==
    ASSUME RaftInv, RaftInv', AppliedIsCurrent, AppliedIsCurrent', [Next]_vars
    PROVE  [Service!Next]_(Service!vars)
<1>1. CASE ServesOn
  BY <1>1 DEF ServesOn, Service!vars
<1>2. CASE \E n \in Node : Moves(n)
  <2>1. IsPrefixOf(chosen, chosen')
    BY NextRaftInv
  <2> QED BY <1>2, <2>1, MovesLearns DEF Service!Next
<1>3. CASE \E n \in Node : Restart(n)
  BY <1>3, RestartRestarts DEF Service!Next
<1> QED BY <1>1, <1>2, <1>3, NextKeeps DEF RaftInv

\* The cluster implements ConfigService: one append-only committed history, of
\* which each node serves a prefix that only grows, but for a restart of a node
\* whose storage had failed.
THEOREM ClusterImplementsService == Spec => ImplementsConfigService
<1>1. RaftInv /\ AppliedIsCurrent => Service!Midway
  BY ClusterMidway
<1>2. RaftInv /\ RaftInv' /\ AppliedIsCurrent /\ AppliedIsCurrent' /\ [Next]_vars
         => [Service!Next]_(Service!vars)
  BY StepRefines
<1> QED BY <1>1, <1>2, LogInvariant, ServedIsCurrent, PTL
        DEF Spec, ImplementsConfigService, Service!Spec
=============================================================================
