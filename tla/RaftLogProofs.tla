--------------------------- MODULE RaftLogProofs ---------------------------
(***************************************************************************)
(* How logs come about: the structural half of Raft's log safety, for      *)
(* every finite cluster and every bound.                                   *)
(*                                                                         *)
(* F stands for the family of all logs that any node has ever held.  Every *)
(* request was cut from a member of F, a follower that accepts one ends    *)
(* with the log it had or with that member, and only a leader's own append *)
(* adds a member.  So the family keeps, for ever, what replication makes   *)
(* of it: entries of one term at one index have one history, the entries   *)
(* of a term are contiguous and at the same places in every log, and a     *)
(* leader has every entry of its term.                                     *)
(***************************************************************************)
EXTENDS RaftProofs

\* log holds an entry of term T at index i.
Has(log, i, T) == i \in 1..Len(log) /\ log[i].term = T

Matching(F) ==
    \A a, b \in F : \A i \in 1..Len(a) :
        i <= Len(b) /\ a[i].term = b[i].term => \A j \in 1..i : a[j] = b[j]

\* A log with an entry of some term has one wherever an earlier entry of that
\* term is found in any log.
Uniform(F) ==
    \A a, b \in F : \A i \in 1..Len(a), j \in 1..Len(b) :
        a[i].term = b[j].term /\ i <= j => b[i].term = a[i].term

Sorted(F) ==
    \A a \in F : \A i, j \in 1..Len(a) : i <= j => a[i].term <= a[j].term

Family(F) ==
    F \subseteq Seq(LogEntry) /\ Matching(F) /\ Uniform(F) /\ Sorted(F)

\* Every log of the family that goes beyond term T has the entry (i, T).
Inherited(F, i, T) == \A a \in F : last_log_term(a) > T => Has(a, i, T)

\* m was cut from log by replicate_round.
SentFrom(m, log) ==
    /\ Len(log) = m.prevIndex + Len(m.entries)
    /\ m.prevTerm = log_term(log, m.prevIndex)
    /\ \A k \in 1..Len(m.entries) : m.entries[k] = log[m.prevIndex + k]
    /\ last_log_term(log) = m.term

-----------------------------------------------------------------------------
(* Facts about logs.                                                         *)

\* The term of an entry, and of the last one.
LEMMA EntryTerms ==
    ASSUME NEW a \in Seq(LogEntry)
    PROVE  /\ Len(a) \in Nat
           /\ \A i \in 1..Len(a) : /\ a[i].term \in Nat /\ a[i].term > 0
                                   /\ log_term(a, i) = a[i].term
           /\ last_log_term(a) \in Nat
           /\ Len(a) > 0 => last_log_term(a) = a[Len(a)].term
           /\ Len(a) = 0 => last_log_term(a) = 0
<1>1. Len(a) \in Nat
  OBVIOUS
<1>2. \A i \in 1..Len(a) : a[i] \in LogEntry
  OBVIOUS
<1>3. \A i \in 1..Len(a) : a[i].term \in Nat /\ a[i].term > 0
  BY <1>2 DEF LogEntry
<1>4. \A i \in 1..Len(a) : log_term(a, i) = a[i].term
  BY <1>1 DEF log_term
<1> QED BY <1>1, <1>3, <1>4, LastLogTermType DEF last_log_term, log_term

\* No entry is of a later term than the last.
LEMMA SortedLast ==
    ASSUME NEW F, Family(F), NEW a \in F, NEW i \in 1..Len(a)
    PROVE  a[i].term <= last_log_term(a)
<1>1. a \in Seq(LogEntry)
  BY DEF Family
<1>2. Len(a) \in 1..Len(a) /\ i <= Len(a) /\ last_log_term(a) = a[Len(a)].term
  BY <1>1, EntryTerms
<1> QED BY <1>2 DEF Family, Sorted

\* Logs that share the term of an entry share everything before it.
LEMMA SameEntry ==
    ASSUME NEW F, Family(F), NEW a \in F, NEW b \in F,
           NEW i \in Nat, NEW T, Has(a, i, T), Has(b, i, T)
    PROVE  \A j \in 1..i : a[j] = b[j]
<1>1. i \in 1..Len(a) /\ i <= Len(b) /\ a[i].term = b[i].term
  BY DEF Has, Family
<1> QED BY <1>1 DEF Family, Matching

\* A candidate whose log is at least as up to date as that of a voter has every
\* entry of the voter that later terms inherit.
LEMMA UpToDateHas ==
    ASSUME NEW F, Family(F), NEW a \in F, NEW b \in F,
           candidate_log_is_at_least_as_up_to_date(Len(a), last_log_term(a), b),
           NEW i \in Nat, NEW T \in Nat, Inherited(F, i, T), Has(b, i, T)
    PROVE  Has(a, i, T)
<1>1. a \in Seq(LogEntry) /\ b \in Seq(LogEntry)
  BY DEF Family
<1>2. i \in 1..Len(b) /\ b[i].term = T
  BY DEF Has
<1>3. T > 0 /\ T <= last_log_term(b)
  BY <1>1, <1>2, EntryTerms, SortedLast
<1>4. CASE last_log_term(a) > T
  BY <1>4 DEF Inherited
<1>5. CASE ~(last_log_term(a) > T)
  <2>1. /\ last_log_term(a) \in Nat /\ last_log_term(b) \in Nat
        /\ Len(a) \in Nat /\ Len(b) \in Nat
    BY <1>1, EntryTerms
  <2>2. last_log_term(a) = T /\ Len(a) >= Len(b)
    BY <1>3, <1>5, <2>1 DEF candidate_log_is_at_least_as_up_to_date
  <2>3. Len(a) > 0 /\ i <= Len(a)
    BY <1>2, <2>1, <2>2
  <2>4. Len(a) \in 1..Len(a) /\ a[Len(a)].term = T
    BY <1>1, <2>1, <2>2, <2>3, EntryTerms
  <2>5. a[i].term = b[i].term
    BY <1>2, <2>3, <2>4 DEF Family, Uniform
  <2> QED BY <1>2, <2>1, <2>3, <2>5 DEF Has
<1> QED BY <1>4, <1>5

\* Appending to a log.
LEMMA AppendedLog ==
    ASSUME NEW log \in Seq(LogEntry), NEW e \in LogEntry
    PROVE  /\ Append(log, e) \in Seq(LogEntry)
           /\ Len(Append(log, e)) = Len(log) + 1
           /\ \A i \in 1..Len(log) : Append(log, e)[i] = log[i]
           /\ Append(log, e)[Len(log) + 1] = e
           /\ last_log_term(Append(log, e)) = e.term
           /\ IsPrefixOf(log, Append(log, e))
           /\ \A i, T : Has(log, i, T) => Has(Append(log, e), i, T)
<1> DEFINE new == Append(log, e)
<1>1. /\ new \in Seq(LogEntry) /\ Len(new) = Len(log) + 1 /\ Len(log) \in Nat
      /\ \A i \in 1..Len(log) : new[i] = log[i]
      /\ new[Len(log) + 1] = e
  OBVIOUS
<1> HIDE DEF new
<1>2. last_log_term(new) = e.term
  BY <1>1, EntryTerms
<1>3. IsPrefixOf(log, new)
  BY <1>1 DEF IsPrefixOf
<1>4. \A i, T : Has(log, i, T) => Has(new, i, T)
  BY <1>1 DEF Has
<1> QED BY <1>1, <1>2, <1>3, <1>4 DEF new

\* A prefix has fewer entries.
LEMMA PrefixHas ==
    ASSUME NEW a \in Seq(LogEntry), NEW b \in Seq(LogEntry), IsPrefixOf(a, b),
           NEW i, NEW T, Has(a, i, T)
    PROVE  Has(b, i, T)
BY DEF IsPrefixOf, Has

\* Being a prefix is transitive.
LEMMA PrefixTransitive ==
    ASSUME NEW a \in Seq(LogEntry), NEW b \in Seq(LogEntry), NEW c \in Seq(LogEntry),
           IsPrefixOf(a, b), IsPrefixOf(b, c)
    PROVE  IsPrefixOf(a, c)
BY DEF IsPrefixOf

\* Two prefixes of a log, the shorter of the longer.
LEMMA PrefixesNest ==
    ASSUME NEW a \in Seq(LogEntry), NEW b \in Seq(LogEntry), NEW c \in Seq(LogEntry),
           IsPrefixOf(a, c), IsPrefixOf(b, c), Len(a) <= Len(b)
    PROVE  IsPrefixOf(a, b)
BY DEF IsPrefixOf

\* A leader's append keeps the family, when the leader has every entry of its
\* term and none of a later one.
LEMMA FamilyGrows ==
    ASSUME NEW F, Family(F), NEW log \in F, NEW e \in LogEntry,
           last_log_term(log) <= e.term,
           \A a \in F : \A i \in 1..Len(a) :
              a[i].term = e.term => i <= Len(log) /\ log[i] = a[i]
    PROVE  Family(F \cup {Append(log, e)})
<1> DEFINE new == Append(log, e)
           k == Len(log) + 1
<1>1. log \in Seq(LogEntry) /\ \A a \in F : a \in Seq(LogEntry)
  BY DEF Family
<1>2. /\ new \in Seq(LogEntry) /\ Len(new) = k /\ k \in Nat
      /\ \A i \in 1..Len(log) : new[i] = log[i]
      /\ new[k] = e
  BY <1>1, AppendedLog
<1>3. e.term \in Nat
  BY DEF LogEntry
<1>4. \A a \in F : Len(a) \in Nat /\ \A i \in 1..Len(a) : a[i].term \in Nat
  BY <1>1, EntryTerms
<1> HIDE DEF new
<1>5. \A i \in 1..k : i = k \/ (i \in 1..Len(log) /\ new[i] = log[i])
  BY <1>2, <1>4
<1>6. \A a \in F : \A i \in 1..Len(a) : ~(i >= k /\ a[i].term = e.term)
  BY <1>2, <1>4
<1>7. Matching(F \cup {new})
  <2>1. ASSUME NEW b \in F, NEW i \in 1..k, i <= Len(b), new[i].term = b[i].term
        PROVE  \A j \in 1..i : new[j] = b[j]
    <3>1. i \in 1..Len(b)
      BY <1>4, <2>1
    <3>2. i # k
      BY <1>2, <1>6, <2>1, <3>1
    <3>3. i \in 1..Len(log) /\ new[i] = log[i]
      BY <1>5, <3>2
    <3>4. \A j \in 1..i : log[j] = b[j]
      BY <2>1, <3>1, <3>3 DEF Family, Matching
    <3> QED BY <1>2, <1>4, <3>3, <3>4
  <2>2. \A a, b \in F : \A i \in 1..Len(a) :
           i <= Len(b) /\ a[i].term = b[i].term => \A j \in 1..i : a[j] = b[j]
    BY DEF Family, Matching
  <2>3. \A a \in F : \A i \in 1..Len(a) :
           i <= k /\ a[i].term = new[i].term => \A j \in 1..i : a[j] = new[j]
    BY <1>4, <2>1
  <2> QED BY <1>2, <2>1, <2>2, <2>3 DEF Matching
<1>8. Uniform(F \cup {new})
  <2>1. \A a, b \in F : \A i \in 1..Len(a), j \in 1..Len(b) :
           a[i].term = b[j].term /\ i <= j => b[i].term = a[i].term
    BY DEF Family, Uniform
  <2>2. ASSUME NEW b \in F, NEW i \in 1..k, NEW j \in 1..Len(b),
               new[i].term = b[j].term, i <= j
        PROVE  b[i].term = new[i].term
    <3>1. i # k
      BY <1>2, <1>6, <2>2
    <3> QED BY <1>5, <2>1, <2>2, <3>1
  <2>3. ASSUME NEW a \in F, NEW i \in 1..Len(a), NEW j \in 1..k,
               a[i].term = new[j].term, i <= j
        PROVE  new[i].term = a[i].term
    <3>1. CASE j = k
      BY <1>2, <2>3, <3>1
    <3>2. CASE j \in 1..Len(log) /\ new[j] = log[j]
      <4>1. log[i].term = a[i].term
        BY <2>1, <2>3, <3>2
      <4>2. i \in 1..Len(log)
        BY <1>4, <2>3, <3>2
      <4> QED BY <1>2, <4>1, <4>2
    <3> QED BY <1>5, <3>1, <3>2
  <2>4. ASSUME NEW i \in 1..k, NEW j \in 1..k, new[i].term = new[j].term, i <= j
        PROVE  new[i].term = new[i].term
    OBVIOUS
  <2> QED BY <1>2, <2>1, <2>2, <2>3, <2>4 DEF Uniform
<1>9. Sorted(F \cup {new})
  <2>1. \A i \in 1..Len(log) : log[i].term <= e.term
    BY <1>1, <1>3, <1>4, EntryTerms, SortedLast
  <2>2. ASSUME NEW i \in 1..k, NEW j \in 1..k, i <= j
        PROVE  new[i].term <= new[j].term
    <3>1. CASE j = k
      BY <1>2, <1>3, <1>5, <2>1, <3>1
    <3>2. CASE j # k
      <4>1. i \in 1..Len(log) /\ j \in 1..Len(log)
        BY <1>2, <1>4, <2>2, <3>2
      <4> QED BY <1>2, <2>2, <4>1 DEF Family, Sorted
    <3> QED BY <3>1, <3>2
  <2> QED BY <1>2, <2>2 DEF Family, Sorted
<1> QED BY <1>1, <1>2, <1>7, <1>8, <1>9 DEF Family, new

\* Two logs of the family of the same length and last term are the same, so a
\* request was cut from one log only.
LEMMA SentFromOne ==
    ASSUME NEW F, Family(F), NEW a \in F, NEW b \in F, NEW m,
           SentFrom(m, a), SentFrom(m, b)
    PROVE  a = b
<1>1. a \in Seq(LogEntry) /\ b \in Seq(LogEntry)
  BY DEF Family
<1>2. Len(a) = Len(b) /\ last_log_term(a) = last_log_term(b)
  BY DEF SentFrom
<1>3. CASE Len(a) = 0
  <2>1. \A j \in 1..Len(a) : a[j] = b[j]
    BY <1>3
  <2> QED BY <1>1, <1>2, <2>1
<1>4. CASE Len(a) > 0
  <2>1. Len(a) \in 1..Len(a) /\ a[Len(a)].term = b[Len(b)].term
    BY <1>1, <1>2, <1>4, EntryTerms
  <2>2. \A j \in 1..Len(a) : a[j] = b[j]
    BY <1>2, <2>1 DEF Family, Matching
  <2> QED BY <1>1, <1>2, <2>2
<1> QED BY <1>1, <1>3, <1>4, EntryTerms

\* What the two checks and the merge loop of handle_append_entries make of a
\* log: it stays, or becomes the one the request was cut from; it has all of
\* that one; and it loses no entry of the request's term.
LEMMA MergedLog ==
    ASSUME NEW F, Family(F), NEW log \in F, NEW src \in F,
           NEW m \in AppendEntriesRequest, m.term > 0, SentFrom(m, src),
           previous_matches(log, m.prevIndex, m.prevTerm)
    PROVE  LET merged == MergeEntries(log, m.prevIndex, m.entries)
           IN /\ merged \in {log, src}
              /\ IsPrefixOf(src, merged)
              /\ \A i \in Nat : Has(log, i, m.term) => Has(merged, i, m.term)
<1> DEFINE prev == m.prevIndex
           merged == MergeEntries(log, prev, m.entries)
           cut == SubSeq(log, 1, prev) \o m.entries
<1>1. /\ log \in Seq(LogEntry) /\ src \in Seq(LogEntry)
      /\ m.entries \in Seq(LogEntry) /\ prev \in Nat /\ m.term \in Nat
      /\ Len(log) \in Nat /\ Len(src) \in Nat /\ Len(m.entries) \in Nat
  BY DEF Family, AppendEntriesRequest
<1>2. /\ Len(src) = prev + Len(m.entries) /\ last_log_term(src) = m.term
      /\ log_term(src, prev) = log_term(log, prev)
      /\ \A k \in 1..Len(m.entries) : m.entries[k] = src[prev + k]
  BY DEF SentFrom, previous_matches
<1>3. prev <= Len(log) /\ \A j \in 1..prev : log[j] = src[j]
  <2>1. CASE prev = 0
    BY <1>1, <2>1
  <2>2. CASE prev > 0
    <3> HIDE DEF prev
    <3>0. prev \in 1..Len(src)
      BY <1>1, <1>2, <2>2
    <3>1. src[prev].term > 0 /\ log_term(src, prev) = src[prev].term
      BY <1>1, <3>0, EntryTerms
    <3>2. prev <= Len(log)
      BY <1>1, <1>2, <2>2, <3>0, <3>1, EntryTerms DEF log_term
    <3>3. prev \in 1..Len(log) /\ log_term(log, prev) = log[prev].term
      BY <1>1, <2>2, <3>2, EntryTerms
    <3>4. Has(log, prev, src[prev].term) /\ Has(src, prev, src[prev].term)
      BY <1>2, <3>0, <3>1, <3>3 DEF Has
    <3> QED BY <1>1, <3>2, <3>4, SameEntry
  <2> QED BY <1>1, <2>1, <2>2
<1>4. Len(src) > 0 /\ Has(src, Len(src), m.term)
  BY <1>1, <1>2, EntryTerms DEF Has
<1>5. ASSUME \A k \in 1..Len(m.entries) :
                prev + k <= Len(log) /\ log[prev + k] = m.entries[k]
      PROVE  merged = log /\ IsPrefixOf(src, log)
  <2>1. merged = log
    BY <1>1, <1>5 DEF MergeEntries
  <2>2. Len(src) <= Len(log)
    <3>1. CASE Len(m.entries) = 0
      BY <1>1, <1>2, <1>3, <3>1
    <3>2. CASE Len(m.entries) > 0
      <4>1. Len(m.entries) \in 1..Len(m.entries)
        BY <1>1, <3>2
      <4> QED BY <1>2, <1>5, <4>1
    <3> QED BY <1>1, <3>1, <3>2
  <2>3. ASSUME NEW j \in 1..Len(src) PROVE src[j] = log[j]
    <3>1. CASE j <= prev
      BY <1>1, <1>3, <3>1
    <3>2. CASE j > prev
      <4>1. j - prev \in 1..Len(m.entries) /\ prev + (j - prev) = j
        BY <1>1, <1>2, <3>2
      <4> QED BY <1>2, <1>5, <4>1
    <3> QED BY <1>1, <3>1, <3>2
  <2> QED BY <2>1, <2>2, <2>3 DEF IsPrefixOf
<1>6. ASSUME NEW k \in 1..Len(m.entries),
             prev + k > Len(log) \/ log[prev + k] # m.entries[k]
      PROVE  merged = src
  <2>1. merged = cut
    BY <1>1, <1>6 DEF MergeEntries
  <2>2. /\ SubSeq(log, 1, prev) \in Seq(LogEntry) /\ Len(SubSeq(log, 1, prev)) = prev
        /\ \A i \in 1..prev : SubSeq(log, 1, prev)[i] = log[i]
    BY <1>1, <1>3
  <2>3. cut \in Seq(LogEntry) /\ Len(cut) = Len(src)
    BY <1>1, <1>2, <2>2
  <2>4. ASSUME NEW j \in 1..Len(src) PROVE cut[j] = src[j]
    <3>1. CASE j <= prev
      BY <1>1, <1>3, <2>2, <3>1
    <3>2. CASE j > prev
      <4>1. j - prev \in 1..Len(m.entries) /\ prev + (j - prev) = j
        BY <1>1, <1>2, <3>2
      <4>2. cut[j] = m.entries[j - prev]
        BY <1>1, <2>2, <2>3, <3>2, <4>1
      <4>3. m.entries[j - prev] = src[prev + (j - prev)]
        BY <1>2, <4>1
      <4> QED BY <4>1, <4>2, <4>3
    <3> HIDE DEF cut, prev
    <3> QED BY <1>1, <3>1, <3>2
  <2> HIDE DEF cut
  <2> QED BY <1>1, <2>1, <2>3, <2>4
<1>7. ASSUME NEW i \in Nat, Has(log, i, m.term), merged = src
      PROVE  Has(src, i, m.term) \/ merged = log
  <2>1. i \in 1..Len(log) /\ log[i].term = m.term
    BY <1>7 DEF Has
  <2>2. Len(src) \in 1..Len(src) /\ src[Len(src)].term = m.term
    BY <1>1, <1>4 DEF Has
  <2>3. CASE i <= Len(src)
    <3>1. src[i].term = log[i].term
      BY <2>1, <2>2, <2>3 DEF Family, Uniform
    <3> QED BY <1>1, <2>1, <2>3, <3>1 DEF Has
  <2>4. CASE i > Len(src)
    <3>1. log[Len(src)].term = src[Len(src)].term
      BY <1>1, <2>1, <2>2, <2>4 DEF Family, Uniform
    <3>2. Len(src) <= Len(log)
      BY <1>1, <2>1, <2>4
    <3>3. \A j \in 1..Len(src) : src[j] = log[j]
      BY <2>2, <3>1, <3>2 DEF Family, Matching
    <3>4. \A k \in 1..Len(m.entries) :
             prev + k <= Len(log) /\ log[prev + k] = m.entries[k]
      <4> TAKE k \in 1..Len(m.entries)
      <4>1. prev + k \in 1..Len(src)
        BY <1>1, <1>2
      <4> QED BY <1>1, <1>2, <3>2, <3>3, <4>1
    <3> QED BY <1>1, <3>4 DEF MergeEntries
  <2> QED BY <1>1, <2>3, <2>4
<1>8. IsPrefixOf(src, src)
  BY <1>1 DEF IsPrefixOf
<1>9. merged = src \/ (merged = log /\ IsPrefixOf(src, merged))
  <2>1. \/ \E k \in 1..Len(m.entries) :
              prev + k > Len(log) \/ log[prev + k] # m.entries[k]
        \/ \A k \in 1..Len(m.entries) :
              prev + k <= Len(log) /\ log[prev + k] = m.entries[k]
    <3> HIDE DEF prev
    <3> QED BY <1>1
  <2>2. CASE \A k \in 1..Len(m.entries) :
                prev + k <= Len(log) /\ log[prev + k] = m.entries[k]
    BY <1>5, <2>2
  <2>3. CASE \E k \in 1..Len(m.entries) :
                prev + k > Len(log) \/ log[prev + k] # m.entries[k]
    BY <1>6, <2>3
  <2> HIDE DEF merged
  <2> QED BY <2>1, <2>2, <2>3
<1> HIDE DEF merged
<1>10. /\ merged \in {log, src} /\ IsPrefixOf(src, merged)
       /\ \A i \in Nat : Has(log, i, m.term) => Has(merged, i, m.term)
  BY <1>7, <1>8, <1>9
<1> QED BY <1>10 DEF merged

-----------------------------------------------------------------------------
(* The structural invariant.                                                 *)

\* A state file, or the memory: its log is in the family and no later than its
\* term, and what it has committed is in the history.
Fits(F, s) == /\ s.log \in F
              /\ last_log_term(s.log) <= s.term
              /\ s.commit <= Len(chosen)

LogsInv(F) == \A n \in Node : Fits(F, mem[n]) /\ Fits(F, disk[n])

\* Entries exist only of terms some node was elected in.
Created(F) ==
    \A a \in F : \A i \in 1..Len(a) : \E e \in elected : e.term = a[i].term

\* A campaign that has won is over, and its node voted for itself.
Elections ==
    \A e \in elected : /\ e.term # 0 /\ camp[e.node] # e.term
                       /\ e.node \in e.voters

\* n waits for votes and may still win.
Live(n) == role[n] = "Candidate" /\ camp[n] # 0 /\ camp[n] = mem[n].term

\* What a live candidate has asked for is true of its log, also on disk, and
\* only answers to the campaign in flight are kept.
Candidates ==
    /\ \A n \in Node : Live(n) => mem[n].log = disk[n].log
    /\ \A m \in voteReqs :
          /\ m.term # 0 /\ m.term <= disk[m.cand].term
          /\ Live(m.cand) /\ camp[m.cand] = m.term
                => /\ m.lastIndex = Len(mem[m.cand].log)
                   /\ m.lastTerm = last_log_term(mem[m.cand].log)
    /\ \A r \in voteReplies : r.reqTerm # 0 /\ r.reqTerm = camp[r.cand]

\* A leader was elected in its term, has every entry of it, last of all its
\* own, and its file is at most behind.
LeaderLogs(F) ==
    \A n \in Node : role[n] = "Leader" =>
        /\ \E e \in elected : e.term = mem[n].term /\ e.node = n
        /\ last_log_term(mem[n].log) = mem[n].term
        /\ IsPrefixOf(disk[n].log, mem[n].log)
        /\ \A a \in F : \A i \in 1..Len(a) :
              a[i].term = mem[n].term
                 => i <= Len(mem[n].log) /\ mem[n].log[i] = a[i]

\* The match index that an answer the round may hear would give peer p.
Answered(n, p) ==
    /\ repl[n].term = mem[n].term
    /\ repl[n].res[p].success

\* A leader's indexes stay within its log, and what peers match within its file.
LeaderIndexes ==
    \A n \in Node : role[n] = "Leader" => \A p \in Peers(n) :
        /\ nextIndex[n][p] <= Len(mem[n].log) + 1
        /\ matchIndex[n][p] <= Len(disk[n].log)
        /\ Answered(n, p) => repl[n].res[p].match <= Len(disk[n].log)

\* A round belongs to a term its node was elected in, and so do its requests.
RoundTerms ==
    \A n \in Node : repl[n].term # 0 =>
        /\ \E e \in elected : e.term = repl[n].term /\ e.node = n
        /\ \A p \in Peers(n) : repl[n].req[p].term = repl[n].term

\* Every request was cut from a log of the family by an elected leader; while
\* the sender leads that term, the log is a prefix of the sender's file.
Sent(F) ==
    \A m \in appends :
        /\ m.commit <= Len(chosen)
        /\ \E e \in elected : e.term = m.term /\ e.node = m.leader
        /\ \E src \in F :
              /\ SentFrom(m, src)
              /\ role[m.leader] = "Leader" /\ mem[m.leader].term = m.term
                    => IsPrefixOf(src, disk[m.leader].log)

Struct(F) ==
    /\ Family(F)
    /\ LogsInv(F)
    /\ Created(F)
    /\ Elections
    /\ Candidates
    /\ LeaderLogs(F)
    /\ LeaderIndexes
    /\ RoundTerms
    /\ Sent(F)

-----------------------------------------------------------------------------
(* Quiet steps: those that write no log and commit nothing.                  *)

\* The new state s of k has the log and the commit index k had in memory or on
\* disk, and no earlier term.
Stems(s, k) ==
    \E t \in {mem[k], disk[k]} :
        s.log = t.log /\ s.commit = t.commit /\ t.term <= s.term

LeadsOn(k) ==
    /\ role[k] = "Leader"
    /\ mem'[k].term = mem[k].term
    /\ mem'[k].log = mem[k].log
    /\ disk'[k].log = disk[k].log
    /\ nextIndex'[k] = nextIndex[k] /\ matchIndex'[k] = matchIndex[k]

\* The round of k is over, or goes on without a new success.
RoundKept(k) ==
    \/ repl'[k].term = 0
    \/ /\ repl'[k].term = repl[k].term
       /\ repl'[k].req = repl[k].req
       /\ \A p \in Peers(k) : repl'[k].res[p].success
                                 => repl'[k].res[p] = repl[k].res[p]

Quiet ==
    /\ UNCHANGED <<appends, elected, chosen>>
    /\ \A k \in Node : Stems(mem'[k], k) /\ Stems(disk'[k], k)
    /\ \A k \in Node : role'[k] = "Leader" => LeadsOn(k)
    /\ \A k \in Node : RoundKept(k)

\* Whoever is a live candidate was one before, with the same log.
CampaignsOn ==
    /\ voteReqs' = voteReqs
    /\ \A k \in Node : Live(k)' => /\ Live(k) /\ camp'[k] = camp[k]
                                    /\ mem'[k].log = mem[k].log
                                    /\ disk'[k].log = disk[k].log
    /\ \A r \in voteReplies' : r.reqTerm # 0 /\ r.reqTerm = camp'[r.cand]

\* A vote that a live candidate may count was there before, or is given to a
\* log at least as up to date as the voter's.
GrantsChecked ==
    \A r \in voteReplies' : r.granted /\ Live(r.cand)' =>
        /\ mem'[r.cand].log = mem[r.cand].log
        /\ \/ r \in voteReplies /\ Live(r.cand)
           \/ candidate_log_is_at_least_as_up_to_date(
                 Len(mem[r.cand].log), last_log_term(mem[r.cand].log),
                 mem[r.from].log)

\* Quiet steps keep the structure.
LEMMA QuietStruct ==
    ASSUME NEW F, TypeInv, TypeInv', Struct(F), Quiet, Elections', Candidates'
    PROVE  Struct(F)'
<1>1. UNCHANGED <<appends, elected, chosen>>
  BY DEF Quiet
<1>2. ASSUME NEW k \in Node, NEW s, s.term \in Nat, Stems(s, k)
      PROVE  Fits(F, s)
  <2>1. PICK t \in {mem[k], disk[k]} :
           s.log = t.log /\ s.commit = t.commit /\ t.term <= s.term
    BY <1>2 DEF Stems
  <2>2. Fits(F, t) /\ t.term \in Nat /\ t.log \in Seq(LogEntry)
    <3>1. /\ Fits(F, mem[k]) /\ mem[k] \in PersistentState
          /\ Fits(F, disk[k]) /\ disk[k] \in PersistentState
      BY DEF Struct, LogsInv, TypeInv, TypeOK
    <3>2. Fits(F, t) /\ t \in PersistentState
      BY <2>1, <3>1
    <3> QED BY <3>2 DEF PersistentState
  <2>3. last_log_term(t.log) \in Nat
    BY <2>2, EntryTerms
  <2> QED BY <1>2, <2>1, <2>2, <2>3 DEF Fits
<1>3. LogsInv(F)'
  <2>1. \A k \in Node : mem'[k].term \in Nat /\ disk'[k].term \in Nat
    BY DEF TypeInv, TypeOK, PersistentState
  <2>2. \A k \in Node : Fits(F, mem'[k]) /\ Fits(F, disk'[k])
    BY <1>2, <2>1 DEF Quiet
  <2> QED BY <1>1, <2>2 DEF LogsInv, Fits
<1>4. Created(F)'
  BY <1>1 DEF Struct, Created
<1>5. LeaderLogs(F)'
  BY <1>1 DEF Struct, LeaderLogs, Quiet, LeadsOn
<1>6. LeaderIndexes'
  <2> SUFFICES ASSUME NEW n \in Node, role'[n] = "Leader", NEW q \in Peers(n)
               PROVE  /\ nextIndex'[n][q] <= Len(mem'[n].log) + 1
                      /\ matchIndex'[n][q] <= Len(disk'[n].log)
                      /\ Answered(n, q)' => repl'[n].res[q].match <= Len(disk'[n].log)
    BY DEF LeaderIndexes
  <2>1. LeadsOn(n) /\ RoundKept(n)
    BY DEF Quiet
  <2>2. mem'[n].term > 0 /\ mem'[n].term \in Nat
    BY DEF TypeInv, TypeOK, PersistentState
  <2>3. Answered(n, q)' => Answered(n, q) /\ repl'[n].res[q] = repl[n].res[q]
    BY <2>1, <2>2 DEF Answered, RoundKept, LeadsOn
  <2> QED BY <2>1, <2>3 DEF Struct, LeaderIndexes, LeadsOn
<1>7. RoundTerms'
  BY <1>1 DEF Struct, RoundTerms, Quiet, RoundKept
<1>8. Sent(F)'
  <2>1. \A m \in appends : m.leader \in Node
    BY DEF TypeInv, TypeOK, AppendEntriesRequest
  <2> QED BY <1>1, <2>1 DEF Struct, Sent, Quiet, LeadsOn
<1> QED BY <1>3, <1>4, <1>5, <1>6, <1>7, <1>8 DEF Struct

\* The terms of the state files only grow.
LEMMA DiskTermsGrow ==
    ASSUME TypeInv, TypeInv', StatesMoveOn
    PROVE  \A k \in Node : /\ disk[k].term \in Nat /\ disk'[k].term \in Nat
                           /\ disk[k].term <= disk'[k].term
<1>1. \A k \in Node : disk[k].term \in Nat /\ disk'[k].term \in Nat
  BY DEF TypeInv, TypeOK, PersistentState
<1> QED BY <1>1 DEF StatesMoveOn, Later

\* The candidates stay what they are when none is new.
LEMMA CandidatesKept ==
    ASSUME TypeInv, TypeInv', Candidates, StatesMoveOn, CampaignsOn
    PROVE  Candidates'
<1>1. \A k \in Node : disk[k].term \in Nat /\ disk'[k].term \in Nat
                      /\ disk[k].term <= disk'[k].term
  BY DiskTermsGrow
<1>2. \A m \in voteReqs : m.cand \in Node /\ m.term \in Nat
  BY DEF TypeInv, TypeOK, RequestVoteRequest
<1> QED BY <1>1, <1>2 DEF Candidates, CampaignsOn

\* Votes are checked when none is new.
LEMMA GrantsKept ==
    ASSUME TypeInv', CampaignsOn, \A r \in voteReplies' : r \in voteReplies \/ ~r.granted
    PROVE  GrantsChecked
<1>1. \A r \in voteReplies' : r.cand \in Node
  BY DEF TypeInv, TypeOK, RequestVoteResponse
<1> QED BY <1>1 DEF GrantsChecked, CampaignsOn

\* Elections stay over when none is won and no campaign starts.
LEMMA ElectionsKept ==
    ASSUME TypeInv, Elections, elected' = elected,
           \A c \in Node : camp'[c] = camp[c] \/ camp'[c] = 0
    PROVE  Elections'
<1>1. \A e \in elected : e.node \in Node
  BY DEF TypeInv, TypeOK
<1> QED BY <1>1 DEF Elections

\* The campaign in flight and its answers stay, or those of n go.
CampaignsMayEnd(n) ==
    \/ camp' = camp /\ voteReplies' = voteReplies
    \/ camp' = [camp EXCEPT ![n] = 0] /\ ForgetReplies(n)

\* No candidate is new, and none that stays live has changed.
LEMMA NoNewCandidate ==
    ASSUME TypeInv, TypeInv', StatesMoveOn, Candidates, Elections,
           NEW n, CampaignsMayEnd(n), voteReqs' = voteReqs,
           \A k \in Node : Live(k)' => /\ role'[k] = role[k]
                                       /\ mem'[k].term = mem[k].term
                                       /\ mem'[k].log = mem[k].log
                                       /\ disk'[k].log = disk[k].log
    PROVE  /\ Candidates' /\ GrantsChecked /\ voteReplies' \subseteq voteReplies
           /\ elected' = elected => Elections'
<1>1. /\ \A c \in Node : camp'[c] = camp[c] \/ camp'[c] = 0
      /\ voteReplies' \subseteq voteReplies
      /\ \A r \in voteReplies' : camp'[r.cand] = camp[r.cand]
  <2>1. \A r \in voteReplies : r.cand \in Node
    BY DEF TypeInv, TypeOK, RequestVoteResponse
  <2> QED BY <2>1 DEF CampaignsMayEnd, ForgetReplies, TypeInv, TypeOK
<1>2. CampaignsOn
  BY <1>1 DEF CampaignsOn, Live, Candidates
<1> QED BY <1>1, <1>2, CandidatesKept, GrantsKept, ElectionsKept

\* The effect of a node's step on the states.
LEMMA NodeStepFrame ==
    ASSUME TypeInv, NEW n \in Node, NEW s, s.commit \in Nat, SetMem(n, s),
           NEW a, Saves(n, a, s)
    PROVE  /\ mem'[n] = s
           /\ disk'[n] \in {disk[n], a, s}
           /\ \A k \in Node \ {n} : mem'[k] = mem[k] /\ disk'[k] = disk[k]
           /\ s.commit <= Len(chosen) => chosen' = chosen
<1>1. mem' = [mem EXCEPT ![n] = s]
  BY DEF SetMem
<1>2. disk' = disk \/ \E d \in {a, s} : disk' = [disk EXCEPT ![n] = d]
  BY DEF Saves, NotSaved, SaveOk, SaveFails
<1>3. s.commit <= Len(chosen) => chosen' = chosen
  <2>1. ASSUME s.commit <= Len(chosen), s.commit > Len(chosen) PROVE FALSE
    BY <2>1 DEF TypeInv, TypeOK
  <2> QED BY <2>1 DEF SetMem
<1>4. mem'[n] = s /\ \A k \in Node \ {n} : mem'[k] = mem[k]
  BY <1>1 DEF TypeInv, TypeOK
<1>5. disk'[n] \in {disk[n], a, s} /\ \A k \in Node \ {n} : disk'[k] = disk[k]
  BY <1>2 DEF TypeInv, TypeOK
<1> QED BY <1>3, <1>4, <1>5

\* n does not lead after the step, and the others lead as before.
OthersLead(n) ==
    /\ role'[n] # "Leader"
    /\ \A k \in Node \ {n} : /\ role'[k] = role[k]
                              /\ nextIndex'[k] = nextIndex[k]
                              /\ matchIndex'[k] = matchIndex[k]

\* A step that changes neither log nor commit index of a node is quiet.
LEMMA ObservingQuiet ==
    ASSUME NEW F, TypeInv, LogsInv(F), NEW n \in Node, NEW s, SetMem(n, s),
           Saves(n, disk[n], s), s.log = mem[n].log, s.commit = mem[n].commit,
           s.term >= mem[n].term, UNCHANGED <<appends, elected>>,
           \A k \in Node : RoundKept(k),
           \/ OthersLead(n)
           \/ /\ UNCHANGED <<role, nextIndex, matchIndex>>
              /\ s.term = mem[n].term /\ disk[n].log = mem[n].log
    PROVE  /\ Quiet
           /\ mem'[n] = s /\ disk'[n] \in {disk[n], s}
           /\ \A k \in Node \ {n} : mem'[k] = mem[k] /\ disk'[k] = disk[k]
<1>1. /\ mem'[n] = s
      /\ disk'[n] \in {disk[n], s}
      /\ \A k \in Node \ {n} : mem'[k] = mem[k] /\ disk'[k] = disk[k]
      /\ s.commit <= Len(chosen) => chosen' = chosen
  <2>1. s.commit \in Nat
    BY DEF TypeInv, TypeOK, PersistentState
  <2> QED BY <2>1, NodeStepFrame
<1>2. chosen' = chosen
  BY <1>1 DEF LogsInv, Fits
<1>3. \A k \in Node : mem[k].term \in Nat /\ disk[k].term \in Nat
  BY StatesTyped
<1>4. \A k \in Node : Stems(mem[k], k) /\ Stems(disk[k], k)
  BY <1>3 DEF Stems
<1>5. Stems(s, n)
  BY <1>3 DEF Stems
<1>6. \A k \in Node : Stems(mem'[k], k) /\ Stems(disk'[k], k)
  BY <1>1, <1>4, <1>5
<1>7. ASSUME NEW k \in Node, role'[k] = "Leader" PROVE LeadsOn(k)
  BY <1>1, <1>7 DEF LeadsOn, OthersLead
<1> QED BY <1>1, <1>2, <1>6, <1>7 DEF Quiet

\* A step that leaves states and roles alone is quiet.
LEMMA IdleQuiet ==
    ASSUME TypeInv, \A k \in Node : RoundKept(k),
           UNCHANGED <<mem, disk, role, nextIndex, matchIndex, appends, elected,
                       chosen>>
    PROVE  Quiet
BY StatesTyped DEF Quiet, Stems, LeadsOn

\* Rounds that no success reaches.
LEMMA RoundsKept ==
    ASSUME TypeInv
    PROVE  /\ repl' = repl => \A k \in Node : RoundKept(k)
           /\ \A n \in Node : repl' = [repl EXCEPT ![n] = NoRound(n)]
                 => \A k \in Node : RoundKept(k)
           /\ \A m \in appends : \A t : Answer(m, [term |-> t, success |-> FALSE, match |-> 0])
                 => \A k \in Node : RoundKept(k)
<1>1. repl' = repl => \A k \in Node : RoundKept(k)
  BY DEF RoundKept
<1>2. ASSUME NEW n \in Node, repl' = [repl EXCEPT ![n] = NoRound(n)], NEW k \in Node
      PROVE  RoundKept(k)
  <2>1. repl \in [Node -> [term : Nat, req : [Node -> AppendEntriesRequest],
                          res : [Node -> AppendEntriesResponse]]]
    BY DEF TypeInv, TypeOK
  <2>2. CASE k = n
    BY <1>2, <2>1, <2>2 DEF RoundKept, NoRound
  <2>3. CASE k # n
    BY <1>2, <2>1, <2>3 DEF RoundKept
  <2> QED BY <2>2, <2>3
<1>3. ASSUME NEW m \in appends, NEW t,
             Answer(m, [term |-> t, success |-> FALSE, match |-> 0]), NEW k \in Node
      PROVE  RoundKept(k)
  <2> DEFINE response == [term |-> t, success |-> FALSE, match |-> 0]
  <2>1. ~response.success
    OBVIOUS
  <2>2. repl' = repl \/ repl' = [repl EXCEPT ![m.leader].res[m.to] = response]
    BY <1>3 DEF Answer
  <2> HIDE DEF response
  <2>3. /\ m.leader \in Node /\ m.to \in Node
        /\ repl[k].res \in [Node -> AppendEntriesResponse]
        /\ repl[k] \in [term : Nat, req : [Node -> AppendEntriesRequest],
                        res : [Node -> AppendEntriesResponse]]
    BY DEF TypeInv, TypeOK, AppendEntriesRequest
  <2>4. CASE repl'[k] = repl[k]
    BY <2>4 DEF RoundKept
  <2>5. CASE repl'[k] = [repl[k] EXCEPT !.res[m.to] = response]
    <3>1. /\ repl'[k].term = repl[k].term /\ repl'[k].req = repl[k].req
          /\ repl'[k].res = [repl[k].res EXCEPT ![m.to] = response]
      BY <2>3, <2>5
    <3> QED BY <2>1, <2>3, <3>1 DEF RoundKept, Peers
  <2>6. repl \in [Node -> [term : Nat, req : [Node -> AppendEntriesRequest],
                          res : [Node -> AppendEntriesResponse]]]
    BY DEF TypeInv, TypeOK
  <2> QED BY <2>2, <2>3, <2>4, <2>5, <2>6
<1> QED BY <1>1, <1>2, <1>3

-----------------------------------------------------------------------------
(* The quiet actions.                                                        *)

QuietStep(F) == Quiet /\ GrantsChecked /\ Struct(F)'

\* Steps that change no state file, memory or role.
LEMMA IdleStep ==
    ASSUME NEW F, TypeInv, TypeInv', StatesMoveOn, Struct(F),
           \A k \in Node : RoundKept(k),
           UNCHANGED <<mem, disk, role, nextIndex, matchIndex, appends, elected,
                       chosen, voteReqs>>,
           NEW n, CampaignsMayEnd(n)
    PROVE  QuietStep(F)
<1>1. Quiet
  BY IdleQuiet
<1>2. Candidates' /\ GrantsChecked /\ Elections'
  BY NoNewCandidate DEF Struct
<1> QED BY <1>1, <1>2, QuietStruct DEF QuietStep

\* A node that observes a term and follows, its campaign perhaps over.
LEMMA FollowStep ==
    ASSUME NEW F, TypeInv, TypeInv', StatesMoveOn, Struct(F),
           NEW n \in Node, NEW t \in Nat, SetMem(n, ObserveTerm(mem[n], t)),
           Saves(n, disk[n], ObserveTerm(mem[n], t)),
           role'[n] = "Follower", OthersLead(n), \A k \in Node : RoundKept(k),
           UNCHANGED <<appends, elected, voteReqs>>, CampaignsMayEnd(n)
    PROVE  QuietStep(F)
<1> DEFINE s == ObserveTerm(mem[n], t)
<1>1. /\ WellFormed(s) /\ s.log = mem[n].log /\ s.commit = mem[n].commit
      /\ s.term = Higher(mem[n].term, t)
  BY StatesWellFormed, ObserveTermWellFormed
<1>2. s.term >= mem[n].term
  BY <1>1, StatesTyped DEF Higher
<1>3. SetMem(n, s) /\ Saves(n, disk[n], s)
  OBVIOUS
<1> HIDE DEF s
<1>4. /\ Quiet
      /\ \A k \in Node \ {n} : mem'[k] = mem[k] /\ disk'[k] = disk[k]
  BY <1>1, <1>2, <1>3, ObservingQuiet DEF Struct
<1>5. Candidates' /\ GrantsChecked /\ Elections'
  BY <1>4, NoNewCandidate DEF Struct, OthersLead, Live
<1> QED BY <1>4, <1>5, QuietStruct DEF QuietStep

\* become_follower.
LEMMA VolatileFollowerLeads ==
    ASSUME TypeInv, NEW n \in Node, VolatileFollower(n)
    PROVE  role'[n] = "Follower" /\ OthersLead(n)
BY DEF VolatileFollower, OthersLead, TypeInv, TypeOK

\* Recognising a leader.
LEMMA FollowLeaderLeads ==
    ASSUME TypeInv, NEW m \in appends, FollowLeader(m)
    PROVE  m.to \in Node /\ role'[m.to] = "Follower" /\ OthersLead(m.to)
<1>1. m.to \in Node
  BY DEF TypeInv, TypeOK, AppendEntriesRequest
<1>2. CASE VolatileFollower(m.to)
  BY <1>1, <1>2, VolatileFollowerLeads
<1>3. CASE role' = [role EXCEPT ![m.to] = "Follower"] /\ UNCHANGED <<nextIndex, matchIndex>>
  BY <1>1, <1>3 DEF OthersLead, TypeInv, TypeOK
<1> QED BY <1>1, <1>2, <1>3 DEF FollowLeader

\* campaign() that hears a higher term is quiet.
LEMMA CampaignStepsDownQuiet ==
    ASSUME NEW F, TypeInv, TypeInv', StatesMoveOn, Struct(F), NEW n \in Node,
           CampaignStepsDown(n)
    PROVE  QuietStep(F)
<1>1. PICK r \in VoteRepliesTo(n) :
         LET s == ObserveTerm(mem[n], r.term)
         IN SetMem(n, s) /\ (SaveOk(n, s) \/ SaveFails(n, {disk[n], s}))
  BY DEF CampaignStepsDown
<1>2. r.term \in Nat
  BY DEF VoteRepliesTo, TypeInv, TypeOK, RequestVoteResponse
<1>3. VolatileFollower(n) /\ UNCHANGED <<repl, appends, elected, voteReqs>>
      /\ CampaignsMayEnd(n)
  BY DEF CampaignStepsDown, CampaignsMayEnd
<1>4. role'[n] = "Follower" /\ OthersLead(n) /\ \A k \in Node : RoundKept(k)
  BY <1>3, VolatileFollowerLeads, RoundsKept
<1> QED BY <1>1, <1>2, <1>3, <1>4, FollowStep DEF Saves

\* replicate_round() that hears a higher term is quiet.
LEMMA RoundStepsDownQuiet ==
    ASSUME NEW F, TypeInv, TypeInv', StatesMoveOn, Struct(F), NEW n \in Node,
           RoundStepsDown(n)
    PROVE  QuietStep(F)
<1>1. PICK p \in Peers(n) :
         LET s == ObserveTerm(mem[n], repl[n].res[p].term)
         IN SetMem(n, s) /\ (SaveOk(n, s) \/ SaveFails(n, {disk[n], s}))
  BY DEF RoundStepsDown
<1>2. repl[n].res[p].term \in Nat
  <2>1. repl[n].res \in [Node -> AppendEntriesResponse]
    BY DEF TypeInv, TypeOK
  <2> QED BY <2>1 DEF AppendEntriesResponse, Peers
<1>3. /\ VolatileFollower(n) /\ repl' = [repl EXCEPT ![n] = NoRound(n)]
      /\ UNCHANGED <<appends, elected, voteReqs>> /\ CampaignsMayEnd(n)
  BY DEF RoundStepsDown, CampaignsMayEnd, net
<1>4. role'[n] = "Follower" /\ OthersLead(n) /\ \A k \in Node : RoundKept(k)
  BY <1>3, VolatileFollowerLeads, RoundsKept
<1> QED BY <1>1, <1>2, <1>3, <1>4, FollowStep DEF Saves

\* handle_append_entries that refuses, or cannot save the term, is quiet.
LEMMA RefusedAppendQuiet ==
    ASSUME NEW F, TypeInv, TypeInv', StatesMoveOn, Struct(F), NEW m \in appends,
           AppendTermNotSaved(m) \/ RefuseAppend(m)
    PROVE  QuietStep(F)
<1> DEFINE s == ObserveTerm(mem[m.to], m.term)
<1>1. /\ FollowLeader(m) /\ SetMem(m.to, s) /\ Saves(m.to, disk[m.to], s)
      /\ UNCHANGED <<appends, elected, voteReqs>> /\ CampaignsMayEnd(m.to)
      /\ \/ repl' = repl
         \/ Answer(m, [term |-> s.term, success |-> FALSE, match |-> 0])
  BY DEF AppendTermNotSaved, RefuseAppend, CampaignsMayEnd, net, Saves
<1>2. /\ m.to \in Node /\ m.term \in Nat
      /\ role'[m.to] = "Follower" /\ OthersLead(m.to)
  BY <1>1, FollowLeaderLeads DEF TypeInv, TypeOK, AppendEntriesRequest
<1>3. \A k \in Node : RoundKept(k)
  <2> HIDE DEF s
  <2> QED BY <1>1, RoundsKept
<1> QED BY <1>1, <1>2, <1>3, FollowStep

\* Steps of rounds, campaigns and writes that only drop or answer something.
LEMMA IdleActionsQuiet ==
    ASSUME NEW F, TypeInv, TypeInv', StatesMoveOn, Struct(F),
           \/ UNCHANGED vars
           \/ \E n \in Node : \/ CampaignEnds(n) \/ RoundIsStale(n)
                              \/ WriteSucceeds(n) \/ WriteGivesUp(n)
           \/ \E m \in appends : RefuseStaleAppend(m)
    PROVE  QuietStep(F)
<1>1. CASE UNCHANGED vars
  <2>1. /\ UNCHANGED <<mem, disk, role, nextIndex, matchIndex, appends, elected,
                       chosen, voteReqs>>
        /\ repl' = repl /\ CampaignsMayEnd(0)
    BY <1>1 DEF vars, net, history, CampaignsMayEnd
  <2> QED BY <2>1, RoundsKept, IdleStep
<1>2. ASSUME NEW n \in Node, CampaignEnds(n) PROVE QuietStep(F)
  <2>1. /\ UNCHANGED <<mem, disk, role, nextIndex, matchIndex, appends, elected,
                       chosen, voteReqs>>
        /\ repl' = repl /\ CampaignsMayEnd(n)
    BY <1>2 DEF CampaignEnds, history, CampaignsMayEnd
  <2> QED BY <2>1, RoundsKept, IdleStep
<1>3. ASSUME NEW n \in Node, RoundIsStale(n) PROVE QuietStep(F)
  <2>1. /\ UNCHANGED <<mem, disk, role, nextIndex, matchIndex, appends, elected,
                       chosen, voteReqs>>
        /\ repl' = [repl EXCEPT ![n] = NoRound(n)] /\ CampaignsMayEnd(n)
    BY <1>3 DEF RoundIsStale, net, history, CampaignsMayEnd
  <2> QED BY <2>1, RoundsKept, IdleStep
<1>4. ASSUME NEW n \in Node, WriteSucceeds(n) \/ WriteGivesUp(n) PROVE QuietStep(F)
  <2>1. /\ UNCHANGED <<mem, disk, role, nextIndex, matchIndex, appends, elected,
                       chosen, voteReqs>>
        /\ repl' = repl /\ CampaignsMayEnd(n)
    BY <1>4 DEF WriteSucceeds, WriteGivesUp, net, history, CampaignsMayEnd
  <2> QED BY <2>1, RoundsKept, IdleStep
<1>5. ASSUME NEW m \in appends, RefuseStaleAppend(m) PROVE QuietStep(F)
  <2>1. /\ UNCHANGED <<mem, disk, role, nextIndex, matchIndex, appends, elected,
                       chosen, voteReqs>>
        /\ Answer(m, [term |-> mem[m.to].term, success |-> FALSE, match |-> 0])
        /\ CampaignsMayEnd(0)
    BY <1>5 DEF RefuseStaleAppend, net, history, CampaignsMayEnd
  <2> QED BY <2>1, RoundsKept, IdleStep
<1> QED BY <1>1, <1>2, <1>3, <1>4, <1>5

\* Refusing a stale vote request is quiet.
LEMMA RefuseStaleVoteQuiet ==
    ASSUME NEW F, TypeInv, TypeInv', StatesMoveOn, Struct(F),
           NEW p \in Node, NEW m \in voteReqs, RefuseStaleVote(p, m)
    PROVE  QuietStep(F)
<1> DEFINE reply == [cand |-> m.cand, reqTerm |-> m.term, from |-> p,
                     term |-> mem[p].term, granted |-> FALSE]
<1>1. /\ UNCHANGED <<mem, disk, role, nextIndex, matchIndex, appends, elected,
                     chosen, voteReqs, repl, camp>>
      /\ camp[m.cand] = m.term /\ voteReplies' = voteReplies \cup {reply}
  BY DEF RefuseStaleVote, AnswerVote, history
<1>2. Quiet
  BY <1>1, RoundsKept, IdleQuiet
<1>3. m.term # 0
  BY DEF Struct, Candidates
<1>4. reply.reqTerm = m.term /\ reply.cand = m.cand /\ ~reply.granted
  OBVIOUS
<1> HIDE DEF reply
<1>5. CampaignsOn
  BY <1>1, <1>3, <1>4 DEF CampaignsOn, Live, Struct, Candidates
<1>6. Candidates' /\ GrantsChecked /\ Elections'
  BY <1>1, <1>4, <1>5, CandidatesKept, GrantsKept, ElectionsKept DEF Struct
<1> QED BY <1>2, <1>6, QuietStruct DEF QuietStep

\* handle_request_vote is quiet, and compares the candidate's log before it
\* grants.
LEMMA HandleRequestVoteQuiet ==
    ASSUME NEW F, TypeInv, TypeInv', VoteInv, StatesMoveOn, Struct(F),
           NEW p \in Node, NEW m \in voteReqs, HandleRequestVote(p, m)
    PROVE  QuietStep(F)
<1> DEFINE seen  == ObserveTerm(mem[p], m.term)
           grant == MayGrant(seen, m)
           s     == IF grant THEN [seen EXCEPT !.votedFor = m.cand] ELSE seen
           reply == [cand |-> m.cand, reqTerm |-> m.term, from |-> p,
                     term |-> s.term, granted |-> grant]
<1>1. /\ ~storageError[p] /\ SetMem(p, s) /\ Saves(p, disk[p], s)
      /\ IF m.term > mem[p].term THEN VolatileFollower(p)
         ELSE UNCHANGED <<role, nextIndex, matchIndex>>
      /\ UNCHANGED <<appends, elected, voteReqs, repl, camp>>
      /\ \/ voteReplies' = voteReplies
         \/ camp[m.cand] = m.term /\ voteReplies' = voteReplies \cup {reply}
  BY DEF HandleRequestVote, Saves, AnswerVote
<1>2. m.term \in Nat /\ m.cand \in Node /\ m.term # 0 /\ WellFormed(mem[p])
  BY StatesWellFormed DEF TypeInv, TypeOK, RequestVoteRequest, Struct, Candidates
<1>3. /\ WellFormed(seen) /\ seen.log = mem[p].log /\ seen.commit = mem[p].commit
      /\ seen.term = Higher(mem[p].term, m.term)
  BY <1>2, ObserveTermWellFormed
<1>4. grant => candidate_log_is_at_least_as_up_to_date(m.lastIndex, m.lastTerm,
                                                       mem[p].log)
  BY <1>3 DEF MayGrant
<1>5. reply.reqTerm = m.term /\ reply.cand = m.cand /\ reply.from = p
      /\ reply.granted = grant
  OBVIOUS
<1> HIDE DEF reply, seen, grant
<1>6. /\ s.log = mem[p].log /\ s.commit = mem[p].commit /\ s.term = seen.term
  BY <1>3 DEF WellFormed, PersistentState
<1> HIDE DEF s
<1>7. /\ s.term >= mem[p].term /\ disk[p].log = mem[p].log
      /\ ~(m.term > mem[p].term) => s.term = mem[p].term
  BY <1>1, <1>2, <1>3, <1>6, StatesTyped DEF Higher, VoteInv, StatesInv
<1>8. \/ role'[p] = "Follower" /\ OthersLead(p)
      \/ UNCHANGED <<role, nextIndex, matchIndex>> /\ s.term = mem[p].term
  BY <1>1, <1>7, VolatileFollowerLeads
<1>9. \A k \in Node : RoundKept(k)
  BY <1>1, RoundsKept
<1>10. /\ Quiet
       /\ mem'[p] = s /\ disk'[p] \in {disk[p], s}
       /\ \A k \in Node \ {p} : mem'[k] = mem[k] /\ disk'[k] = disk[k]
  BY <1>1, <1>6, <1>7, <1>8, <1>9, ObservingQuiet DEF Struct
<1>11. CampaignsOn
  <2>1. \A k \in Node \ {p} : role'[k] = role[k]
    BY <1>8 DEF OthersLead
  <2>2. ASSUME NEW k \in Node, Live(k)'
        PROVE  /\ Live(k) /\ camp'[k] = camp[k] /\ mem'[k].log = mem[k].log
               /\ disk'[k].log = disk[k].log
    <3>1. CASE k = p
      BY <1>1, <1>6, <1>7, <1>8, <1>10, <2>2, <3>1 DEF Live
    <3>2. CASE k # p
      BY <1>1, <1>10, <2>1, <2>2, <3>2 DEF Live
    <3> QED BY <3>1, <3>2
  <2>3. \A r \in voteReplies' : r.reqTerm # 0 /\ r.reqTerm = camp'[r.cand]
    BY <1>1, <1>2, <1>5 DEF Struct, Candidates
  <2> QED BY <1>1, <2>2, <2>3 DEF CampaignsOn
<1>12. GrantsChecked
  <2> SUFFICES ASSUME NEW r \in voteReplies', r.granted, Live(r.cand)'
               PROVE  /\ mem'[r.cand].log = mem[r.cand].log
                      /\ \/ r \in voteReplies /\ Live(r.cand)
                         \/ candidate_log_is_at_least_as_up_to_date(
                               Len(mem[r.cand].log), last_log_term(mem[r.cand].log),
                               mem[r.from].log)
    BY DEF GrantsChecked
  <2>1. r.cand \in Node
    BY DEF TypeInv, TypeOK, RequestVoteResponse
  <2>2. Live(r.cand) /\ mem'[r.cand].log = mem[r.cand].log
    BY <1>11, <2>1 DEF CampaignsOn
  <2>3. CASE r \in voteReplies
    BY <2>2, <2>3
  <2>4. CASE r = reply /\ camp[m.cand] = m.term
    <3>1. r.cand = m.cand /\ r.from = p /\ grant
      BY <1>5, <2>4
    <3>2. /\ m.lastIndex = Len(mem[m.cand].log)
          /\ m.lastTerm = last_log_term(mem[m.cand].log)
      BY <2>2, <2>4, <3>1 DEF Struct, Candidates
    <3> QED BY <1>4, <2>2, <3>1, <3>2
  <2> QED BY <1>1, <2>3, <2>4
<1>13. Candidates' /\ Elections'
  BY <1>1, <1>11, CandidatesKept, ElectionsKept DEF Struct
<1> QED BY <1>10, <1>12, <1>13, QuietStruct DEF QuietStep

\* campaign() up to the vote requests is quiet: its term and its requests are new.
LEMMA CampaignQuiet ==
    ASSUME NEW F, TypeInv, TypeInv', VoteInv, StatesMoveOn, Struct(F),
           NEW n \in Node, Campaign(n)
    PROVE  QuietStep(F)
<1> DEFINE s == [mem[n] EXCEPT !.term = @ + 1, !.votedFor = n]
           m == [term |-> s.term, cand |-> n, lastIndex |-> Len(s.log),
                 lastTerm |-> last_log_term(s.log)]
<1>1. /\ camp[n] = 0 /\ ~storageError[n]
      /\ SetMem(n, s)
      /\ role' = [role EXCEPT ![n] = "Candidate"]
      /\ \/ /\ SaveOk(n, s) /\ camp' = [camp EXCEPT ![n] = s.term]
            /\ voteReqs' = voteReqs \cup {m}
         \/ /\ SaveFails(n, {disk[n], s}) /\ UNCHANGED <<camp, voteReqs>>
      /\ UNCHANGED <<nextIndex, matchIndex, repl, voteReplies, appends, elected>>
  BY DEF Campaign
<1>2. s.log = mem[n].log /\ s.commit = mem[n].commit /\ s.term = mem[n].term + 1
  BY DEF TypeInv, TypeOK, PersistentState
<1>3. m.term = s.term /\ m.cand = n /\ m.lastIndex = Len(s.log)
      /\ m.lastTerm = last_log_term(s.log)
  OBVIOUS
<1> HIDE DEF s, m
<1>4. /\ mem[n].term \in Nat /\ s.term \in Nat /\ s.term > 0
      /\ disk[n].term \in Nat /\ disk[n].term < s.term
  <2>1. Later(disk[n], mem[n])
    BY DEF VoteInv, StatesInv
  <2> QED BY <1>2, <2>1, StatesTyped DEF Later
<1>5. OthersLead(n) /\ role'[n] = "Candidate"
  BY <1>1 DEF OthersLead, TypeInv, TypeOK
<1>6. Saves(n, disk[n], s)
  BY <1>1 DEF Saves
<1>7. \A k \in Node : RoundKept(k)
  BY <1>1, RoundsKept
<1>8. /\ Quiet
      /\ mem'[n] = s /\ disk'[n] \in {disk[n], s}
      /\ \A k \in Node \ {n} : mem'[k] = mem[k] /\ disk'[k] = disk[k]
  BY <1>1, <1>2, <1>4, <1>5, <1>6, <1>7, ObservingQuiet DEF Struct
<1>9. disk[n].log = mem[n].log
  BY <1>1 DEF VoteInv, StatesInv
<1>10. \A k \in Node \ {n} : /\ camp'[k] = camp[k] /\ role'[k] = role[k]
                             /\ Live(k)' <=> Live(k)
  <2>1. \A k \in Node \ {n} : role'[k] = role[k]
    BY <1>5 DEF OthersLead
  <2>2. \A k \in Node \ {n} : camp'[k] = camp[k]
    <3>1. camp' = [camp EXCEPT ![n] = s.term] \/ camp' = camp
      BY <1>1
    <3>2. DOMAIN camp = Node
      BY DEF TypeInv, TypeOK
    <3> QED BY <3>1, <3>2
  <2>3. \A k \in Node \ {n} : mem'[k] = mem[k]
    BY <1>8
  <2> QED BY <2>1, <2>2, <2>3 DEF Live
<1>11. \A r \in voteReplies : r.cand \in Node \ {n}
  BY <1>1 DEF Struct, Candidates, TypeInv, TypeOK, RequestVoteResponse
<1>12. \A k \in Node : disk[k].term \in Nat /\ disk'[k].term \in Nat
                       /\ disk[k].term <= disk'[k].term
  BY DiskTermsGrow
<1>13. \A q \in voteReqs : q.cand \in Node /\ q.term \in Nat
  BY DEF TypeInv, TypeOK, RequestVoteRequest
<1>14. camp' = camp => ~Live(n)'
  BY <1>1 DEF Live
<1>15. Candidates'
  <2>1. ASSUME NEW k \in Node, Live(k)' PROVE mem'[k].log = disk'[k].log
    <3>1. CASE k = n
      BY <1>2, <1>8, <1>9, <3>1
    <3>2. CASE k # n
      BY <1>8, <1>10, <2>1, <3>2 DEF Struct, Candidates
    <3> QED BY <3>1, <3>2
  <2>2. ASSUME NEW q \in voteReqs
        PROVE  /\ q.term # 0 /\ q.term <= disk'[q.cand].term
               /\ Live(q.cand)' /\ camp'[q.cand] = q.term
                     => /\ q.lastIndex = Len(mem'[q.cand].log)
                        /\ q.lastTerm = last_log_term(mem'[q.cand].log)
    <3>1. q.term # 0 /\ q.term <= disk[q.cand].term
      BY DEF Struct, Candidates
    <3>2. q.term <= disk'[q.cand].term
      BY <1>12, <1>13, <3>1
    <3>3. CASE q.cand = n
      <4>1. Live(n)' => camp'[n] = s.term
        BY <1>1, <1>14 DEF TypeInv, TypeOK
      <4> QED BY <1>4, <1>13, <3>1, <3>2, <3>3, <4>1
    <3>4. CASE q.cand # n
      BY <1>8, <1>10, <1>13, <3>1, <3>2, <3>4 DEF Struct, Candidates
    <3> QED BY <3>3, <3>4
  <2>3. CASE voteReqs' = voteReqs
    BY <1>1, <1>10, <1>11, <2>1, <2>2, <2>3 DEF Candidates, Struct
  <2>4. CASE SaveOk(n, s) /\ voteReqs' = voteReqs \cup {m}
    <3>1. disk'[n] = s
      BY <2>4 DEF SaveOk, TypeInv, TypeOK
    <3>2. /\ m.term # 0 /\ m.term <= disk'[m.cand].term
          /\ m.lastIndex = Len(mem'[m.cand].log)
          /\ m.lastTerm = last_log_term(mem'[m.cand].log)
      BY <1>3, <1>4, <1>8, <3>1
    <3> QED BY <1>1, <1>10, <1>11, <2>1, <2>2, <2>4, <3>2 DEF Candidates, Struct
  <2> QED BY <1>1, <2>3, <2>4
<1>16. GrantsChecked
  BY <1>1, <1>8, <1>10, <1>11 DEF GrantsChecked
<1>17. Elections'
  <2> SUFFICES ASSUME NEW e \in elected PROVE camp'[e.node] # e.term
    BY <1>1 DEF Elections, Struct
  <2>1. e.term \in Nat /\ e.node \in Node /\ e.node \in e.voters /\ e.term # 0
        /\ camp[e.node] # e.term
    BY DEF Struct, Elections, TypeInv, TypeOK
  <2>2. CASE e.node = n
    <3>1. Vote(e.term, n, n)
      BY <2>1, <2>2 DEF Vote
    <3>2. Remembers(disk[n], e.term, n)
      BY <2>1, <3>1 DEF VoteInv, VotesRemembered
    <3>3. e.term < s.term
      BY <1>4, <2>1, <3>2 DEF Remembers
    <3>4. camp'[n] \in {0, s.term}
      BY <1>1 DEF TypeInv, TypeOK
    <3> QED BY <1>4, <2>1, <2>2, <3>3, <3>4
  <2>3. CASE e.node # n
    BY <1>10, <2>1, <2>3
  <2> QED BY <2>2, <2>3
<1> QED BY <1>8, <1>15, <1>16, <1>17, QuietStruct DEF QuietStep

\* A restart is quiet.
LEMMA RestartQuiet ==
    ASSUME NEW F, TypeInv, TypeInv', StatesMoveOn, Struct(F), NEW n \in Node,
           Restart(n)
    PROVE  QuietStep(F)
<1>1. /\ mem' = [mem EXCEPT ![n] = disk[n]]
      /\ VolatileFollower(n) /\ CampaignsMayEnd(n)
      /\ repl' = [repl EXCEPT ![n] = NoRound(n)]
      /\ UNCHANGED <<disk, voteReqs, appends, elected, chosen>>
  BY DEF Restart, CampaignsMayEnd, history
<1>2. mem'[n] = disk[n] /\ \A k \in Node \ {n} : mem'[k] = mem[k]
  BY <1>1 DEF TypeInv, TypeOK
<1>3. role'[n] = "Follower" /\ OthersLead(n)
  BY <1>1, VolatileFollowerLeads
<1>4. \A k \in Node : RoundKept(k)
  BY <1>1, RoundsKept
<1>5. \A k \in Node : Stems(mem'[k], k) /\ Stems(disk'[k], k)
  BY <1>1, <1>2, StatesTyped DEF Stems
<1>6. \A k \in Node : role'[k] = "Leader" => LeadsOn(k)
  BY <1>1, <1>2, <1>3 DEF OthersLead, LeadsOn
<1>7. Quiet
  BY <1>1, <1>4, <1>5, <1>6 DEF Quiet
<1>8. Candidates' /\ GrantsChecked /\ Elections'
  BY <1>1, <1>2, <1>3, NoNewCandidate DEF Struct, OthersLead, Live
<1> QED BY <1>7, <1>8, QuietStruct DEF QuietStep

-----------------------------------------------------------------------------
(* The actions that send, append, merge or commit.                           *)

\* The request replicate_round builds is cut from the leader's log.
LEMMA AppendRequestSent ==
    ASSUME NEW F, TypeInv, Struct(F), NEW n \in Node, role[n] = "Leader",
           NEW p \in Peers(n)
    PROVE  LET m == AppendRequest(n, p)
           IN /\ m.term = mem[n].term /\ m.leader = n /\ m.to = p
              /\ m.commit = mem[n].commit
              /\ SentFrom(m, mem[n].log)
<1> DEFINE log == mem[n].log
           next == IF nextIndex[n][p] = 0 THEN Len(log) + 1 ELSE nextIndex[n][p]
           entries == SubSeq(log, next, Len(log))
           m == AppendRequest(n, p)
<1>1. log \in Seq(LogEntry) /\ Len(log) \in Nat
  BY DEF TypeInv, TypeOK, PersistentState
<1>2. next \in 1..(Len(log) + 1)
  <2>1. p \in Node /\ nextIndex[n] \in [Node -> Nat]
    BY DEF TypeInv, TypeOK, Peers
  <2>2. nextIndex[n][p] \in Nat /\ nextIndex[n][p] <= Len(log) + 1
    BY <2>1 DEF Struct, LeaderIndexes
  <2> HIDE DEF log
  <2> QED BY <1>1, <2>2
<1>3. /\ m.term = mem[n].term /\ m.leader = n /\ m.to = p /\ m.commit = mem[n].commit
      /\ m.prevIndex = next - 1 /\ m.prevTerm = Higher(log_term(log, next - 1), 0)
      /\ m.entries = entries
  BY DEF AppendRequest
<1>4. last_log_term(log) = mem[n].term
  BY DEF Struct, LeaderLogs
<1> HIDE DEF log, next
<1>5. /\ Len(entries) = Len(log) - (next - 1)
      /\ \A k \in 1..Len(entries) : entries[k] = log[(next - 1) + k]
  BY <1>1, <1>2
<1>6. log_term(log, next - 1) \in Nat
  <2>1. CASE next = 1
    BY <2>1 DEF log_term
  <2>2. CASE next > 1
    <3>1. next - 1 \in 1..Len(log)
      BY <1>1, <1>2, <2>2
    <3> QED BY <1>1, <3>1, EntryTerms
  <2> QED BY <1>2, <2>1, <2>2
<1>7. Higher(log_term(log, next - 1), 0) = log_term(log, next - 1)
  BY <1>6 DEF Higher
<1> HIDE DEF m, entries
<1>8. SentFrom(m, log)
  BY <1>1, <1>2, <1>3, <1>4, <1>5, <1>7 DEF SentFrom
<1> QED BY <1>3, <1>8 DEF m, log

\* Starting a round keeps the structure.
LEMMA StartRoundStruct ==
    ASSUME NEW F, TypeInv, TypeInv', VoteInv, Struct(F), NEW n \in Node, StartRound(n)
    PROVE  /\ Struct(F)' /\ GrantsChecked
           /\ \A m \in appends' : m \in appends \/
                 \E p \in Peers(n) : m = AppendRequest(n, p)
<1> DEFINE req == [p \in Node |-> IF p = n THEN NoRequest(n, n) ELSE AppendRequest(n, p)]
           round == [term |-> mem[n].term, req |-> req, res |-> [p \in Node |-> NoAnswer]]
<1>1. /\ role[n] = "Leader" /\ ~storageError[n]
      /\ repl' = [repl EXCEPT ![n] = round]
      /\ appends' = appends \cup {req[p] : p \in Peers(n)}
      /\ UNCHANGED <<mem, disk, role, nextIndex, matchIndex, camp, voteReqs,
                     voteReplies, elected, chosen>>
  BY DEF StartRound, history
<1>2. mem[n].log = disk[n].log /\ mem[n].log \in Seq(LogEntry)
  BY <1>1 DEF VoteInv, StatesInv, TypeInv, TypeOK, PersistentState
<1>3. \A p \in Peers(n) : req[p] = AppendRequest(n, p)
  BY DEF Peers
<1>4. /\ round.term = mem[n].term /\ round.req = req
      /\ \A p \in Peers(n) : ~round.res[p].success
  BY DEF NoAnswer, Peers
<1> HIDE DEF req, round
<1>5. \A m \in appends' : m \in appends \/ \E p \in Peers(n) : m = AppendRequest(n, p)
  BY <1>1, <1>3
<1>6. repl'[n] = round /\ \A k \in Node \ {n} : repl'[k] = repl[k]
  BY <1>1 DEF TypeInv, TypeOK
<1>7. PICK e \in elected : e.term = mem[n].term /\ e.node = n
  BY <1>1 DEF Struct, LeaderLogs
<1>8. /\ LogsInv(F)' /\ Created(F)' /\ Elections' /\ LeaderLogs(F)'
  BY <1>1 DEF Struct, LogsInv, Fits, Created, Elections, LeaderLogs
<1>9. Candidates' /\ GrantsChecked
  BY <1>1 DEF Struct, Candidates, Live, GrantsChecked
<1>10. LeaderIndexes'
  <2> SUFFICES ASSUME NEW k \in Node, role[k] = "Leader", NEW q \in Peers(k)
               PROVE  Answered(k, q)' => /\ Answered(k, q)
                                         /\ repl'[k].res[q] = repl[k].res[q]
    BY <1>1 DEF Struct, LeaderIndexes
  <2>1. CASE k = n
    BY <1>4, <1>6, <2>1 DEF Answered
  <2>2. CASE k # n
    BY <1>1, <1>6, <2>2 DEF Answered
  <2> QED BY <2>1, <2>2
<1>11. RoundTerms'
  <2>1. \A p \in Peers(n) : AppendRequest(n, p).term = mem[n].term
    BY <1>1, AppendRequestSent
  <2>2. /\ \E f \in elected' : f.term = repl'[n].term /\ f.node = n
        /\ \A p \in Peers(n) : repl'[n].req[p].term = repl'[n].term
    BY <1>1, <1>3, <1>4, <1>6, <1>7, <2>1
  <2>3. \A k \in Node \ {n} : repl'[k].term # 0 =>
           /\ \E f \in elected' : f.term = repl'[k].term /\ f.node = k
           /\ \A p \in Peers(k) : repl'[k].req[p].term = repl'[k].term
    BY <1>1, <1>6 DEF Struct, RoundTerms
  <2> QED BY <2>2, <2>3 DEF RoundTerms
<1>12. Sent(F)'
  <2>1. ASSUME NEW p \in Peers(n), NEW m, m = AppendRequest(n, p)
        PROVE  /\ m.commit <= Len(chosen)
               /\ \E f \in elected : f.term = m.term /\ f.node = m.leader
               /\ \E src \in F : SentFrom(m, src) /\ IsPrefixOf(src, disk[m.leader].log)
    <3>1. /\ m.term = mem[n].term /\ m.leader = n
          /\ m.commit = mem[n].commit /\ SentFrom(m, mem[n].log)
      BY <1>1, <2>1, AppendRequestSent
    <3>2. mem[n].log \in F /\ mem[n].commit <= Len(chosen)
      BY DEF Struct, LogsInv, Fits
    <3>3. IsPrefixOf(mem[n].log, disk[n].log)
      BY <1>2 DEF IsPrefixOf
    <3> QED BY <1>7, <3>1, <3>2, <3>3
  <2> QED BY <1>1, <1>5, <2>1 DEF Struct, Sent
<1> QED BY <1>5, <1>8, <1>9, <1>10, <1>11, <1>12 DEF Struct

\* What appending an entry of its term to its log does for n, the leader.
Appends(n, e, s) ==
    /\ SetMem(n, s) /\ Saves(n, disk[n], s)
    /\ s.log = Append(mem[n].log, e)
    /\ s.commit = mem[n].commit /\ s.term = mem[n].term
    /\ e.term = mem[n].term /\ mem[n].log = disk[n].log
    /\ role'[n] = "Leader"
    /\ \E f \in elected' : f.term = mem[n].term /\ f.node = n
    /\ \A k \in Node \ {n} : /\ role'[k] = role[k]
                              /\ nextIndex'[k] = nextIndex[k]
                              /\ matchIndex'[k] = matchIndex[k]
    /\ elected \subseteq elected'
    /\ UNCHANGED <<repl, appends, voteReqs>>
    /\ CampaignsMayEnd(n)

\* The indexes a leader has when its log grows.
IndexesWithin(n) ==
    \A p \in Peers(n) :
        /\ nextIndex'[n][p] <= Len(mem[n].log) + 2
        /\ matchIndex'[n][p] <= Len(disk[n].log)
        /\ Answered(n, p)' => repl'[n].res[p].match <= Len(disk[n].log)

\* Nobody but n has entries of the term of n in any log, beyond those of n; and
\* requests of that term were cut from what n has on disk.
Alone(F, n) ==
    /\ \A a \in F : \A i \in 1..Len(a) :
          a[i].term = mem[n].term => i <= Len(mem[n].log) /\ mem[n].log[i] = a[i]
    /\ \A m \in appends : m.leader = n /\ m.term = mem[n].term =>
          \E src \in F : SentFrom(m, src) /\ IsPrefixOf(src, disk[n].log)

\* A leader's append keeps the structure, with one more log in the family.
LEMMA AppendsStruct ==
    ASSUME NEW F, TypeInv, TypeInv', StatesMoveOn, Struct(F), ElectionSafety',
           NEW n \in Node, NEW e \in LogEntry, NEW s, Appends(n, e, s),
           IndexesWithin(n), Alone(F, n), Elections',
           NEW H, H = F \cup {s.log}
    PROVE  /\ Struct(H)' /\ GrantsChecked /\ chosen' = chosen
           /\ mem'[n] = s /\ disk'[n] \in {disk[n], s}
           /\ \A k \in Node \ {n} : mem'[k] = mem[k] /\ disk'[k] = disk[k]
<1> DEFINE log == mem[n].log
           T == mem[n].term
<1>a. /\ s.log = Append(log, e) /\ s.commit = mem[n].commit /\ s.term = T
      /\ e.term = T /\ disk[n].log = log
  BY DEF Appends
<1>1. /\ log \in F /\ log \in Seq(LogEntry) /\ T \in Nat /\ last_log_term(log) <= T
      /\ s.commit \in Nat /\ s.commit <= Len(chosen) /\ Len(log) \in Nat
  <2>1. log \in F /\ last_log_term(log) <= T /\ mem[n].commit <= Len(chosen)
    BY DEF Struct, LogsInv, Fits
  <2>2. log \in Seq(LogEntry) /\ T \in Nat /\ mem[n].commit \in Nat
    BY DEF TypeInv, TypeOK, PersistentState
  <2> QED BY <1>a, <2>1, <2>2
<1>2. /\ s.log \in Seq(LogEntry) /\ Len(s.log) = Len(log) + 1
      /\ \A i \in 1..Len(log) : s.log[i] = log[i]
      /\ s.log[Len(log) + 1] = e /\ last_log_term(s.log) = T
      /\ IsPrefixOf(log, s.log)
  BY <1>1, AppendedLog DEF Appends
<1>3. /\ mem'[n] = s /\ disk'[n] \in {disk[n], s} /\ chosen' = chosen
      /\ \A k \in Node \ {n} : mem'[k] = mem[k] /\ disk'[k] = disk[k]
  BY <1>1, NodeStepFrame DEF Appends
<1>4. Family(H)
  <2>1. H = F \cup {Append(log, e)} /\ Family(F)
    BY <1>a DEF Struct
  <2>2. \A a \in F : \A i \in 1..Len(a) :
           a[i].term = e.term => i <= Len(log) /\ log[i] = a[i]
    BY <1>a DEF Alone
  <2>3. log \in F /\ last_log_term(log) <= e.term
    BY <1>a, <1>1
  <2> HIDE DEF log, T
  <2>4. Family(F \cup {Append(log, e)})
    BY <2>1, <2>2, <2>3, FamilyGrows
  <2> QED BY <2>1, <2>4
<1>5. F \subseteq H /\ s.log \in H
  OBVIOUS
<1>6. LogsInv(H)'
  <2>1. \A k \in Node : Fits(H, mem[k]) /\ Fits(H, disk[k])
    BY <1>5 DEF Struct, LogsInv, Fits
  <2>2. Fits(H, s)
    BY <1>1, <1>2, <1>5 DEF Fits, Appends
  <2>3. \A k \in Node : Fits(H, mem'[k]) /\ Fits(H, disk'[k])
    BY <1>3, <2>1, <2>2
  <2> QED BY <1>3, <2>3 DEF LogsInv, Fits
<1>7. Created(H)'
  <2>1. \A a \in F : \A i \in 1..Len(a) : \E f \in elected' : f.term = a[i].term
    BY DEF Struct, Created, Appends
  <2>2. ASSUME NEW i \in 1..Len(s.log) PROVE \E f \in elected' : f.term = s.log[i].term
    <3>1. CASE i \in 1..Len(log)
      BY <1>1, <1>2, <2>1, <3>1
    <3>2. CASE i = Len(log) + 1
      BY <1>2, <3>2 DEF Appends
    <3> QED BY <1>1, <1>2, <3>1, <3>2
  <2> QED BY <2>1, <2>2 DEF Created
<1>8. Candidates' /\ GrantsChecked
  BY <1>3, NoNewCandidate DEF Struct, Appends, Live
<1>9. IsPrefixOf(disk'[n].log, s.log) /\ IsPrefixOf(disk[n].log, disk'[n].log)
  <2>1. IsPrefixOf(log, log) /\ IsPrefixOf(s.log, s.log)
    BY <1>1, <1>2 DEF IsPrefixOf
  <2> HIDE DEF log
  <2> QED BY <1>a, <1>2, <1>3, <2>1
<1>10. LeaderLogs(H)'
  <2>1. /\ \E f \in elected' : f.term = mem'[n].term /\ f.node = n
        /\ last_log_term(mem'[n].log) = mem'[n].term
        /\ IsPrefixOf(disk'[n].log, mem'[n].log)
    BY <1>2, <1>3, <1>9 DEF Appends
  <2>2. ASSUME NEW a \in H, NEW i \in 1..Len(a), a[i].term = mem'[n].term
        PROVE  i <= Len(mem'[n].log) /\ mem'[n].log[i] = a[i]
    <3>1. CASE a = s.log
      BY <1>2, <1>3, <3>1
    <3>2. CASE a \in F
      <4>1. i <= Len(log) /\ log[i] = a[i]
        BY <1>3, <2>2, <3>2 DEF Alone, Appends
      <4>2. a \in Seq(LogEntry)
        BY <3>2 DEF Struct, Family
      <4>3. i \in 1..Len(log) /\ i <= Len(s.log)
        BY <1>1, <1>2, <4>1, <4>2
      <4> QED BY <1>2, <1>3, <4>1, <4>3
    <3> QED BY <3>1, <3>2
  <2>3. ASSUME NEW k \in Node \ {n}, role'[k] = "Leader"
        PROVE  /\ \E f \in elected' : f.term = mem'[k].term /\ f.node = k
               /\ last_log_term(mem'[k].log) = mem'[k].term
               /\ IsPrefixOf(disk'[k].log, mem'[k].log)
               /\ \A a \in H : \A i \in 1..Len(a) :
                     a[i].term = mem'[k].term
                        => i <= Len(mem'[k].log) /\ mem'[k].log[i] = a[i]
    <3>1. role[k] = "Leader" /\ mem'[k] = mem[k] /\ disk'[k] = disk[k]
      BY <1>3, <2>3 DEF Appends
    <3>2. /\ \E f \in elected' : f.term = mem[k].term /\ f.node = k
          /\ last_log_term(mem[k].log) = mem[k].term
          /\ IsPrefixOf(disk[k].log, mem[k].log)
          /\ \A a \in F : \A i \in 1..Len(a) :
                a[i].term = mem[k].term => i <= Len(mem[k].log) /\ mem[k].log[i] = a[i]
      BY <3>1 DEF Struct, LeaderLogs, Appends
    <3>3. mem[k].term # T
      BY <2>3, <3>2 DEF ElectionSafety, Appends
    <3>4. ASSUME NEW i \in 1..Len(s.log), s.log[i].term = mem[k].term
          PROVE  i <= Len(mem[k].log) /\ mem[k].log[i] = s.log[i]
      <4>1. i \in 1..Len(log) /\ s.log[i] = log[i]
        BY <1>1, <1>2, <3>3, <3>4 DEF Appends
      <4> QED BY <1>1, <3>2, <3>4, <4>1
    <3> QED BY <3>1, <3>2, <3>4
  <2> QED BY <2>1, <2>2, <2>3 DEF LeaderLogs
<1>11. LeaderIndexes'
  <2>1. \A p \in Peers(n) :
           /\ nextIndex'[n][p] <= Len(mem'[n].log) + 1
           /\ matchIndex'[n][p] <= Len(disk'[n].log)
           /\ Answered(n, p)' => repl'[n].res[p].match <= Len(disk'[n].log)
    <3>1. Len(mem'[n].log) + 1 = Len(log) + 2
      BY <1>1, <1>2, <1>3
    <3>2. disk'[n].log = disk[n].log \/ Len(disk'[n].log) = Len(disk[n].log) + 1
      BY <1>2, <1>3 DEF Appends
    <3>3. Len(disk[n].log) \in Nat /\ disk[n].log = log
      BY <1>1 DEF Appends
    <3>4. \A p \in Peers(n) : matchIndex'[n][p] \in Nat /\ repl'[n].res[p].match \in Nat
      <4>1. matchIndex'[n] \in [Node -> Nat] /\ repl'[n].res \in [Node -> AppendEntriesResponse]
        BY DEF TypeInv, TypeOK
      <4> QED BY <4>1 DEF AppendEntriesResponse, Peers
    <3> QED BY <3>1, <3>2, <3>3, <3>4 DEF IndexesWithin
  <2>2. ASSUME NEW k \in Node \ {n}, role'[k] = "Leader", NEW p \in Peers(k)
        PROVE  /\ nextIndex'[k][p] <= Len(mem'[k].log) + 1
               /\ matchIndex'[k][p] <= Len(disk'[k].log)
               /\ Answered(k, p)' => repl'[k].res[p].match <= Len(disk'[k].log)
    BY <1>3, <2>2 DEF Appends, Answered, Struct, LeaderIndexes
  <2> QED BY <2>1, <2>2 DEF LeaderIndexes
<1>12. RoundTerms'
  BY DEF Struct, RoundTerms, Appends
<1>13. Sent(H)'
  <2> SUFFICES ASSUME NEW m \in appends
               PROVE  /\ m.commit <= Len(chosen)
                      /\ \E f \in elected' : f.term = m.term /\ f.node = m.leader
                      /\ \E src \in H :
                            /\ SentFrom(m, src)
                            /\ role'[m.leader] = "Leader" /\ mem'[m.leader].term = m.term
                                  => IsPrefixOf(src, disk'[m.leader].log)
    BY <1>3 DEF Sent, Appends
  <2>1. /\ m.commit <= Len(chosen)
        /\ \E f \in elected' : f.term = m.term /\ f.node = m.leader
        /\ m.leader \in Node
    BY DEF Struct, Sent, Appends, TypeInv, TypeOK, AppendEntriesRequest
  <2>2. CASE m.leader = n /\ m.term = T
    <3>1. PICK src \in F : SentFrom(m, src) /\ IsPrefixOf(src, disk[n].log)
      BY <2>2 DEF Alone
    <3>2. src \in Seq(LogEntry) /\ disk[n].log \in Seq(LogEntry) /\ disk'[n].log \in Seq(LogEntry)
      BY DEF Struct, Family, TypeInv, TypeOK, PersistentState
    <3>3. IsPrefixOf(src, disk'[n].log)
      BY <1>9, <3>1, <3>2, PrefixTransitive
    <3> QED BY <1>5, <2>1, <2>2, <3>1, <3>3
  <2>3. CASE m.leader = n /\ m.term # T
    BY <1>3, <1>5, <2>1, <2>3 DEF Struct, Sent, Appends
  <2>4. CASE m.leader # n
    BY <1>3, <1>5, <2>1, <2>4 DEF Struct, Sent, Appends
  <2> QED BY <2>2, <2>3, <2>4
<1> QED BY <1>3, <1>4, <1>6, <1>7, <1>8, <1>10, <1>11, <1>12, <1>13 DEF Struct

\* s is the state of n with entry e appended by an elected leader.
LeaderAppends(F, n, e, s) ==
    /\ e \in LogEntry /\ Appends(n, e, s)
    /\ IndexesWithin(n) /\ Alone(F, n) /\ Elections'

\* One leader per term, after the step.
LEMMA OneLeaderNext == TypeInv' /\ VoteInv' => ElectionSafety'
BY OneLeaderPerTerm, PTL

\* A new leader's no-op: nothing of its term was there before.
LEMMA CampaignWinsAppends ==
    ASSUME NEW F, TypeInv, TypeInv', VoteInv, VoteInv', Struct(F),
           NEW n \in Node, CampaignWins(n)
    PROVE  \E s : /\ LeaderAppends(F, n, LeaderNoop(n), s)
                  /\ Live(n) /\ camp[n] = mem[n].term
                  /\ Cardinality(GrantedBy(n)) >= majority
                  /\ elected' = elected \cup {[term |-> camp[n], node |-> n,
                                               voters |-> GrantedBy(n)]}
<1> DEFINE e == LeaderNoop(n)
           s == [mem[n] EXCEPT !.log = Append(@, e)]
           won == [term |-> camp[n], node |-> n, voters |-> GrantedBy(n)]
<1>1. /\ camp[n] # 0 /\ role[n] = "Candidate" /\ mem[n].term = camp[n]
      /\ Cardinality(GrantedBy(n)) >= majority
      /\ SetMem(n, s)
      /\ role' = [role EXCEPT ![n] = "Leader"]
      /\ elected' = elected \cup {won}
      /\ nextIndex' = [nextIndex EXCEPT ![n] =
                          [p \in Node |-> IF p = n THEN 0 ELSE Len(s.log) + 1]]
      /\ matchIndex' = [matchIndex EXCEPT ![n] = NoIndexes]
      /\ Saves(n, disk[n], s)
      /\ CampaignsMayEnd(n)
      /\ camp' = [camp EXCEPT ![n] = 0]
      /\ UNCHANGED <<repl, appends, voteReqs>>
  BY DEF CampaignWins, Saves, CampaignsMayEnd
<1>2. /\ mem[n] \in PersistentState /\ mem[n].term \in Nat
      /\ mem[n].log \in Seq(LogEntry) /\ Len(mem[n].log) \in Nat
  <2>1. mem[n] \in PersistentState
    BY DEF TypeInv, TypeOK
  <2> QED BY <2>1 DEF PersistentState
<1>3. e \in LogEntry /\ e.term = mem[n].term
  BY <1>1, <1>2 DEF LeaderNoop, LogEntry, Command
<1> HIDE DEF e
<1>4. /\ s.log = Append(mem[n].log, e) /\ s.term = mem[n].term
      /\ s.commit = mem[n].commit
  BY <1>2 DEF PersistentState
<1>5. Len(s.log) = Len(mem[n].log) + 1
  BY <1>2, <1>3, <1>4, AppendedLog
<1> HIDE DEF s
<1>6. Live(n) /\ mem[n].log = disk[n].log
  BY <1>1 DEF Live, Struct, Candidates
<1>7. won.term = mem[n].term /\ won.node = n /\ won.voters = GrantedBy(n)
      /\ n \in won.voters
  BY <1>1 DEF GrantedBy
<1> HIDE DEF won
<1>8. \A f \in elected : f.term # mem[n].term
  <2> SUFFICES ASSUME NEW f \in elected, f.term = mem[n].term PROVE FALSE
    OBVIOUS
  <2>1. ElectionSafety'
    BY OneLeaderNext
  <2>2. f.node = n
    BY <1>1, <1>7, <2>1 DEF ElectionSafety
  <2> QED BY <1>1, <2>2 DEF Struct, Elections
<1>9. /\ role'[n] = "Leader"
      /\ \A k \in Node \ {n} : /\ role'[k] = role[k]
                                /\ nextIndex'[k] = nextIndex[k]
                                /\ matchIndex'[k] = matchIndex[k]
  BY <1>1 DEF TypeInv, TypeOK
<1>10. Appends(n, e, s)
  BY <1>1, <1>3, <1>4, <1>6, <1>7, <1>9 DEF Appends
<1>11. IndexesWithin(n)
  <2> SUFFICES ASSUME NEW p \in Peers(n)
               PROVE  /\ nextIndex'[n][p] <= Len(mem[n].log) + 2
                      /\ matchIndex'[n][p] <= Len(disk[n].log)
                      /\ ~Answered(n, p)'
    BY DEF IndexesWithin
  <2>1. p \in Node /\ p # n
    BY DEF Peers
  <2>2. nextIndex'[n][p] = Len(s.log) + 1 /\ matchIndex'[n][p] = 0
    BY <1>1, <2>1 DEF NoIndexes, TypeInv, TypeOK
  <2>3. repl[n].term # mem[n].term
    BY <1>1, <1>8 DEF Struct, RoundTerms
  <2>4. mem'[n].term = mem[n].term /\ repl' = repl
    BY <1>1, <1>4 DEF SetMem, TypeInv, TypeOK
  <2> QED BY <1>2, <1>5, <1>6, <2>2, <2>3, <2>4 DEF Answered
<1>12. Alone(F, n)
  <2>1. \A a \in F : \A i \in 1..Len(a) : a[i].term # mem[n].term
    BY <1>8 DEF Struct, Created
  <2>2. \A m \in appends : m.term # mem[n].term
    BY <1>8 DEF Struct, Sent
  <2> QED BY <2>1, <2>2 DEF Alone
<1>13. Elections'
  <2>1. ASSUME NEW f \in elected
        PROVE  f.term # 0 /\ camp'[f.node] # f.term /\ f.node \in f.voters
    <3>1. f.term # 0 /\ camp[f.node] # f.term /\ f.node \in f.voters /\ f.node \in Node
      BY DEF Struct, Elections, TypeInv, TypeOK
    <3>2. camp'[f.node] = camp[f.node] \/ camp'[f.node] = 0
      BY <1>1, <3>1 DEF TypeInv, TypeOK
    <3> QED BY <3>1, <3>2
  <2>2. won.term # 0 /\ camp'[won.node] # won.term /\ won.node \in won.voters
    BY <1>1, <1>7 DEF TypeInv, TypeOK
  <2> QED BY <1>1, <2>1, <2>2 DEF Elections
<1>14. LeaderAppends(F, n, e, s)
  BY <1>3, <1>10, <1>11, <1>12, <1>13 DEF LeaderAppends
<1> QED BY <1>1, <1>6, <1>14 DEF e, won

\* A leader's client write.
LEMMA ClientWriteAppends ==
    ASSUME NEW F, TypeInv, TypeInv', VoteInv, Struct(F),
           NEW n \in Node, NEW v \in Intent, ClientWrite(n, v)
    PROVE  \E e, s : /\ LeaderAppends(F, n, e, s)
                     /\ role[n] = "Leader" /\ mem[n].log = disk[n].log
<1> DEFINE e == [term |-> mem[n].term, cmd |-> v]
           s == [mem[n] EXCEPT !.log = Append(@, e)]
<1>1. /\ ~storageError[n] /\ role[n] = "Leader" /\ SetMem(n, s)
      /\ Saves(n, disk[n], s)
      /\ UNCHANGED <<role, nextIndex, matchIndex, camp, repl, voteReqs, appends,
                     voteReplies, elected>>
  BY DEF ClientWrite, Saves, net
<1>2. /\ mem[n] \in PersistentState /\ mem[n].term \in Nat /\ mem[n].term > 0
      /\ mem[n].log \in Seq(LogEntry) /\ Len(mem[n].log) \in Nat
  <2>1. mem[n] \in PersistentState /\ mem[n].term > 0
    BY <1>1 DEF TypeInv, TypeOK
  <2> QED BY <2>1 DEF PersistentState
<1>3. e \in LogEntry /\ e.term = mem[n].term
  BY <1>2 DEF LogEntry, Command
<1> HIDE DEF e
<1>4. /\ s.log = Append(mem[n].log, e) /\ s.term = mem[n].term
      /\ s.commit = mem[n].commit
  BY <1>2 DEF PersistentState
<1> HIDE DEF s
<1>5. mem[n].log = disk[n].log
  BY <1>1 DEF VoteInv, StatesInv
<1>6. /\ \E f \in elected : f.term = mem[n].term /\ f.node = n
      /\ \A a \in F : \A i \in 1..Len(a) :
            a[i].term = mem[n].term => i <= Len(mem[n].log) /\ mem[n].log[i] = a[i]
  BY <1>1 DEF Struct, LeaderLogs
<1>7. Appends(n, e, s)
  BY <1>1, <1>3, <1>4, <1>5, <1>6 DEF Appends, CampaignsMayEnd
<1>8. IndexesWithin(n)
  <2> SUFFICES ASSUME NEW p \in Peers(n)
               PROVE  /\ nextIndex[n][p] <= Len(mem[n].log) + 2
                      /\ matchIndex[n][p] <= Len(disk[n].log)
                      /\ Answered(n, p)' => repl[n].res[p].match <= Len(disk[n].log)
    BY <1>1 DEF IndexesWithin
  <2>1. mem'[n].term = mem[n].term /\ repl' = repl
    BY <1>1, <1>4 DEF SetMem, TypeInv, TypeOK
  <2>2. nextIndex[n][p] \in Nat
    <3>1. nextIndex[n] \in [Node -> Nat]
      BY DEF TypeInv, TypeOK
    <3> QED BY <3>1 DEF Peers
  <2> QED BY <1>1, <1>2, <2>1, <2>2 DEF Answered, Struct, LeaderIndexes
<1>9. Alone(F, n)
  <2>1. \A m \in appends : m.leader = n /\ m.term = mem[n].term =>
           \E src \in F : SentFrom(m, src) /\ IsPrefixOf(src, disk[n].log)
    BY <1>1 DEF Struct, Sent
  <2> QED BY <1>6, <2>1 DEF Alone
<1>10. Elections'
  BY <1>1 DEF Struct, Elections
<1>11. LeaderAppends(F, n, e, s)
  BY <1>3, <1>7, <1>8, <1>9, <1>10 DEF LeaderAppends
<1> QED BY <1>1, <1>5, <1>11

\* What accepting m does to the follower's state: it is now in the term of m,
\* with its own log or that of src, which m was cut from; its file is there
\* too, or behind with the old log.
Accepts(m, src) ==
    LET s == mem'[m.to]
        d == disk'[m.to]
    IN /\ m.to \in Node /\ m.term \in Nat /\ m.term > 0
       /\ mem[m.to] = disk[m.to] /\ mem[m.to].term <= m.term /\ s.term = m.term
       /\ SentFrom(m, src)
       /\ s.log \in {mem[m.to].log, src} /\ IsPrefixOf(src, s.log)
       /\ \A i \in Nat : Has(mem[m.to].log, i, m.term) => Has(s.log, i, m.term)
       /\ s.commit = Higher(mem[m.to].commit, Lower(m.commit, Len(s.log)))
       /\ \A i \in 1..mem[m.to].commit : s.log[i] = mem[m.to].log[i]
       /\ \/ d = s
          \/ /\ d.log = mem[m.to].log /\ d.commit = mem[m.to].commit
             /\ mem[m.to].term <= d.term /\ d.term <= m.term
       /\ \A k \in Node \ {m.to} : mem'[k] = mem[k] /\ disk'[k] = disk[k]
       /\ UNCHANGED <<chosen, appends, elected>>
       /\ role'[m.to] = "Follower" /\ OthersLead(m.to)

\* The answer that m was accepted, given once it is on disk.
Confirms(m) ==
    \/ repl' = repl
    \/ /\ disk'[m.to] = mem'[m.to] /\ Awaited(m)
       /\ \E t : repl' = [repl EXCEPT ![m.leader].res[m.to] =
                    [term |-> t, success |-> TRUE,
                     match |-> m.prevIndex + Len(m.entries)]]

\* handle_append_entries that accepts.
LEMMA AcceptAppendAccepts ==
    ASSUME NEW F, TypeInv, TypeInv', VoteInv, Struct(F), NEW m \in appends,
           AcceptAppend(m)
    PROVE  Confirms(m) /\ \E src \in F : Accepts(m, src)
<1> DEFINE q == m.to
           seen == ObserveTerm(mem[q], m.term)
           s == Accepted(m)
           old == mem[q]
<1>1. /\ ~storageError[q] /\ m.term >= mem[q].term
      /\ previous_matches(seen.log, m.prevIndex, m.prevTerm)
      /\ ~OverwritesCommitted(seen, m)
      /\ SetMem(q, s) /\ FollowLeader(m)
      /\ UNCHANGED <<appends, elected>>
      /\ \/ /\ SaveOk(q, s) \/ (NotSaved /\ s = mem[q])
            /\ Answer(m, [term |-> s.term, success |-> TRUE,
                          match |-> m.prevIndex + Len(m.entries)])
         \/ SaveFails(q, {seen, s}) /\ repl' = repl
  BY DEF AcceptAppend, net
<1>2. q \in Node /\ m.term \in Nat /\ m \in AppendEntriesRequest
  BY DEF TypeInv, TypeOK, AppendEntriesRequest
<1>3. mem[q] = disk[q]
  BY <1>1, <1>2 DEF VoteInv, StatesInv
<1>4. WellFormed(mem[q]) /\ mem[q].term \in Nat
  BY <1>2, StatesWellFormed, StatesTyped
<1>5. /\ seen.log = mem[q].log /\ seen.commit = mem[q].commit
      /\ seen.term = m.term
  <2>1. Higher(mem[q].term, m.term) = m.term
    BY <1>1, <1>2, <1>4 DEF Higher
  <2> QED BY <1>2, <1>4, <2>1, ObserveTermWellFormed
<1>6. /\ WellFormed(s) /\ s.term = m.term
      /\ s.log = MergeEntries(mem[q].log, m.prevIndex, m.entries)
      /\ s.commit = Higher(mem[q].commit, Lower(m.commit, Len(s.log)))
      /\ \A i \in 1..mem[q].commit : s.log[i] = mem[q].log[i]
  <2>1. Higher(mem[q].term, m.term) = m.term
    BY <1>1, <1>2, <1>4 DEF Higher
  <2> QED BY <1>1, <2>1, AcceptedWellFormed
<1> HIDE DEF seen, s, q
<1>7. PICK src \in F : SentFrom(m, src)
  BY DEF Struct, Sent
<1>8. m.term > 0
  BY <1>2 DEF Struct, Sent, Elections
<1>9. mem[q].log \in F /\ mem[q].commit <= Len(chosen) /\ m.commit <= Len(chosen)
      /\ Family(F)
  BY <1>2 DEF Struct, LogsInv, Fits, Sent
<1>10. /\ s.log \in {mem[q].log, src} /\ IsPrefixOf(src, s.log)
       /\ \A i \in Nat : Has(mem[q].log, i, m.term) => Has(s.log, i, m.term)
  BY <1>1, <1>2, <1>5, <1>6, <1>7, <1>8, <1>9, MergedLog
<1>11. s.commit \in Nat /\ s.commit <= Len(chosen)
  <2>1. /\ mem[q].commit \in Nat /\ m.commit \in Nat /\ Len(s.log) \in Nat
        /\ Len(chosen) \in Nat
    <3>1. mem[q].commit \in Nat /\ s.log \in Seq(LogEntry)
      BY <1>4, <1>6 DEF WellFormed, PersistentState
    <3>2. m.commit \in Nat /\ chosen \in Seq(LogEntry)
      BY <1>2 DEF AppendEntriesRequest, TypeInv, TypeOK
    <3> QED BY <3>1, <3>2
  <2> QED BY <1>6, <1>9, <2>1 DEF Higher, Lower
<1>12. Saves(q, seen, s)
  BY <1>1 DEF Saves
<1>13. /\ mem'[q] = s
       /\ \A k \in Node \ {q} : mem'[k] = mem[k] /\ disk'[k] = disk[k]
       /\ chosen' = chosen
  BY <1>1, <1>2, <1>11, <1>12, NodeStepFrame
<1>14. /\ disk'[q] = s \/ disk'[q] = seen
       /\ repl' # repl => disk'[q] = s /\ Awaited(m)
  BY <1>1, <1>2, <1>3 DEF SaveOk, NotSaved, SaveFails, Answer, TypeInv, TypeOK
<1>15. Confirms(m)
  BY <1>1, <1>13, <1>14 DEF Confirms, Answer, q
<1>16. role'[q] = "Follower" /\ OthersLead(q)
  BY <1>1, FollowLeaderLeads DEF q
<1>17. Accepts(m, src)
  BY <1>1, <1>2, <1>3, <1>4, <1>5, <1>6, <1>7, <1>8, <1>10, <1>13, <1>14, <1>16
     DEF Accepts, q
<1> QED BY <1>7, <1>15, <1>17

\* Whoever is still awaited by a leader of its term gets an answer that counts
\* no further than what the leader has on disk.
LEMMA ConfirmedRound ==
    ASSUME NEW F, TypeInv, Struct(F), NEW m \in appends, Confirms(m),
           NEW src \in F, SentFrom(m, src), m.to \in Node,
           NEW k \in Node, k # m.to
    PROVE  /\ repl'[k].term = repl[k].term /\ repl'[k].req = repl[k].req
           /\ \A p \in Peers(k) :
                 \/ repl'[k].res[p] = repl[k].res[p]
                 \/ /\ k = m.leader /\ p = m.to /\ repl[k].term = m.term
                    /\ disk'[p] = mem'[p]
                    /\ repl'[k].res[p].match = Len(src)
<1>1. CASE repl' = repl
  BY <1>1
<1>2. ASSUME NEW t, Awaited(m), disk'[m.to] = mem'[m.to],
             repl' = [repl EXCEPT ![m.leader].res[m.to] =
                        [term |-> t, success |-> TRUE,
                         match |-> m.prevIndex + Len(m.entries)]]
      PROVE  /\ repl'[k].term = repl[k].term /\ repl'[k].req = repl[k].req
             /\ \A p \in Peers(k) :
                   \/ repl'[k].res[p] = repl[k].res[p]
                   \/ /\ k = m.leader /\ p = m.to /\ repl[k].term = m.term
                      /\ disk'[p] = mem'[p]
                      /\ repl'[k].res[p].match = Len(src)
  <2> DEFINE response == [term |-> t, success |-> TRUE,
                          match |-> m.prevIndex + Len(m.entries)]
  <2>1. response.match = Len(src)
    BY DEF SentFrom
  <2>2. repl' = [repl EXCEPT ![m.leader].res[m.to] = response]
    BY <1>2
  <2> HIDE DEF response
  <2>3. /\ m.leader \in Node
        /\ repl \in [Node -> [term : Nat, req : [Node -> AppendEntriesRequest],
                              res : [Node -> AppendEntriesResponse]]]
        /\ repl[k] \in [term : Nat, req : [Node -> AppendEntriesRequest],
                        res : [Node -> AppendEntriesResponse]]
        /\ repl[k].res \in [Node -> AppendEntriesResponse]
    BY DEF TypeInv, TypeOK, AppendEntriesRequest
  <2>4. CASE k # m.leader
    BY <2>2, <2>3, <2>4
  <2>5. CASE k = m.leader
    <3>1. repl'[k] = [repl[k] EXCEPT !.res[m.to] = response]
      BY <2>2, <2>3, <2>5
    <3>2. /\ repl'[k].term = repl[k].term /\ repl'[k].req = repl[k].req
          /\ repl'[k].res = [repl[k].res EXCEPT ![m.to] = response]
      BY <2>3, <3>1
    <3>3. repl[k].term = m.term
      BY <1>2, <2>5 DEF Awaited, Struct, RoundTerms, Peers
    <3> QED BY <1>2, <2>1, <2>3, <2>5, <3>2, <3>3 DEF Peers
  <2> QED BY <2>4, <2>5
<1> QED BY <1>1, <1>2 DEF Confirms

\* Accepting keeps the structure.
LEMMA AcceptAppendStruct ==
    ASSUME NEW F, TypeInv, TypeInv', StatesMoveOn, Struct(F), NEW m \in appends,
           AcceptAppend(m), Confirms(m), NEW src \in F, Accepts(m, src)
    PROVE  Struct(F)' /\ GrantsChecked
<1> DEFINE q == m.to
<1>1. /\ q \in Node /\ UNCHANGED <<chosen, appends, elected>>
      /\ role'[q] = "Follower" /\ OthersLead(q) /\ SentFrom(m, src)
      /\ \A k \in Node \ {q} : mem'[k] = mem[k] /\ disk'[k] = disk[k]
  BY DEF Accepts
<1>2. /\ UNCHANGED <<camp, voteReqs, voteReplies>>
  BY DEF AcceptAppend, net
<1>3. Candidates' /\ GrantsChecked /\ Elections'
  <2>1. CampaignsMayEnd(q)
    BY <1>2 DEF CampaignsMayEnd
  <2>2. \A k \in Node : Live(k)' => /\ k # q /\ role'[k] = role[k]
    BY <1>1 DEF OthersLead, Live
  <2> QED BY <1>1, <1>2, <2>1, <2>2, NoNewCandidate DEF Struct
<1>4. LogsInv(F)'
  <2>1. \A k \in Node : Fits(F, mem[k]) /\ Fits(F, disk[k])
    BY DEF Struct, LogsInv
  <2>2. /\ mem[q].log \in Seq(LogEntry) /\ mem[q].term \in Nat
        /\ mem[q].commit \in Nat /\ m.commit \in Nat /\ Len(chosen) \in Nat
        /\ disk'[q].term \in Nat /\ last_log_term(mem[q].log) \in Nat
        /\ mem'[q].log \in Seq(LogEntry) /\ Len(mem'[q].log) \in Nat
    <3>1. mem[q] \in PersistentState /\ disk'[q] \in PersistentState
          /\ mem'[q] \in PersistentState /\ m \in AppendEntriesRequest
          /\ chosen \in Seq(LogEntry)
      BY <1>1 DEF TypeInv, TypeOK
    <3> QED BY <3>1, EntryTerms DEF PersistentState, AppendEntriesRequest
  <2>3. m.commit <= Len(chosen) /\ last_log_term(src) = m.term
    BY <1>1 DEF Struct, Sent, SentFrom
  <2>4. Fits(F, mem'[q])
    <3>1. mem'[q].log \in F /\ last_log_term(mem'[q].log) <= mem'[q].term
      BY <1>1, <2>1, <2>2, <2>3 DEF Fits, Accepts
    <3>2. mem'[q].commit <= Len(chosen)
      BY <1>1, <2>1, <2>2, <2>3 DEF Fits, Accepts, Higher, Lower
    <3> QED BY <3>1, <3>2 DEF Fits
  <2>5. Fits(F, disk'[q])
    BY <1>1, <2>1, <2>2, <2>4 DEF Fits, Accepts
  <2>6. \A k \in Node : Fits(F, mem'[k]) /\ Fits(F, disk'[k])
    BY <1>1, <2>1, <2>4, <2>5
  <2> QED BY <1>1, <2>6 DEF LogsInv, Fits
<1>5. Created(F)'
  BY <1>1 DEF Struct, Created
<1>6. \A k \in Node : role'[k] = "Leader" =>
         /\ k # q /\ role[k] = "Leader" /\ mem'[k] = mem[k] /\ disk'[k] = disk[k]
         /\ nextIndex'[k] = nextIndex[k] /\ matchIndex'[k] = matchIndex[k]
  BY <1>1 DEF OthersLead
<1>7. LeaderLogs(F)'
  BY <1>1, <1>6 DEF Struct, LeaderLogs
<1>8. LeaderIndexes'
  <2> SUFFICES ASSUME NEW k \in Node, role'[k] = "Leader", NEW p \in Peers(k),
                      Answered(k, p)'
               PROVE  repl'[k].res[p].match <= Len(disk[k].log)
    BY <1>6 DEF Struct, LeaderIndexes
  <2>1. /\ repl'[k].term = repl[k].term
        /\ \/ repl'[k].res[p] = repl[k].res[p]
           \/ /\ k = m.leader /\ repl[k].term = m.term
              /\ repl'[k].res[p].match = Len(src)
    BY <1>1, <1>6, ConfirmedRound
  <2>2. CASE repl'[k].res[p] = repl[k].res[p]
    BY <1>6, <2>1, <2>2 DEF Answered, Struct, LeaderIndexes
  <2>3. CASE /\ k = m.leader /\ repl[k].term = m.term
             /\ repl'[k].res[p].match = Len(src)
    <3>1. mem[k].term = m.term
      BY <1>6, <2>1, <2>3 DEF Answered
    <3>2. PICK b \in F : SentFrom(m, b) /\ IsPrefixOf(b, disk[k].log)
      BY <1>6, <2>3, <3>1 DEF Struct, Sent
    <3>3. b = src
      BY <1>1, <3>2, SentFromOne DEF Struct
    <3> QED BY <2>3, <3>2, <3>3 DEF IsPrefixOf
  <2> QED BY <2>1, <2>2, <2>3
<1>9. RoundTerms'
  <2> SUFFICES ASSUME NEW k \in Node
               PROVE  repl'[k].term = repl[k].term /\ repl'[k].req = repl[k].req
    BY <1>1 DEF Struct, RoundTerms
  <2>1. CASE repl' = repl
    BY <2>1
  <2>2. ASSUME NEW r, repl' = [repl EXCEPT ![m.leader].res[m.to] = r]
        PROVE  repl'[k].term = repl[k].term /\ repl'[k].req = repl[k].req
    <3>1. m.leader \in Node
      BY DEF TypeInv, TypeOK, AppendEntriesRequest
    <3>2. /\ repl \in [Node -> [term : Nat, req : [Node -> AppendEntriesRequest],
                                res : [Node -> AppendEntriesResponse]]]
          /\ repl[k] \in [term : Nat, req : [Node -> AppendEntriesRequest],
                          res : [Node -> AppendEntriesResponse]]
      BY DEF TypeInv, TypeOK
    <3> QED BY <2>2, <3>1, <3>2
  <2> QED BY <2>1, <2>2 DEF Confirms
<1>10. Sent(F)'
  <2>1. \A r \in appends : r.leader \in Node
    BY DEF TypeInv, TypeOK, AppendEntriesRequest
  <2> QED BY <1>1, <1>6, <2>1 DEF Struct, Sent
<1> QED BY <1>3, <1>4, <1>5, <1>7, <1>8, <1>9, <1>10 DEF Struct

\* What the answers of a round do to the leader n: its indexes follow them, its
\* commit index moves to c, and its log stays.
Advances(n, heard, match, c) ==
    LET s == mem'[n]
    IN /\ role[n] = "Leader" /\ mem[n].term = repl[n].term
       /\ s.log = mem[n].log /\ s.term = mem[n].term /\ s.commit = c
       /\ c \in Nat /\ mem[n].commit <= c /\ c <= Len(mem[n].log)
       /\ disk'[n] \in {disk[n], s}
       /\ \A k \in Node \ {n} : mem'[k] = mem[k] /\ disk'[k] = disk[k]
       /\ c = highest_committable_index(mem[n], match, n)
       /\ matchIndex'[n] = match
       /\ \A p \in Peers(n) :
             \/ match[p] = matchIndex[n][p]
             \/ p \in heard /\ repl[n].res[p].success /\ match[p] = repl[n].res[p].match
       /\ \A p \in Peers(n) :
             \/ nextIndex'[n][p] = nextIndex[n][p]
             \/ nextIndex'[n][p] = match[p] + 1 /\ repl[n].res[p].success
             \/ nextIndex'[n][p] = BackOff(nextIndex[n][p])
       /\ \A k \in Node \ {n} : /\ nextIndex'[k] = nextIndex[k]
                                 /\ matchIndex'[k] = matchIndex[k]
                                 /\ repl'[k] = repl[k]
       /\ repl'[n] = NoRound(n)
       /\ chosen' = IF c > Len(chosen) THEN SubSeq(mem[n].log, 1, c) ELSE chosen
       /\ UNCHANGED <<role, camp, voteReqs, voteReplies, appends, elected>>

\* replicate_round() that applies the answers.
LEMMA RoundAdvancesAdvances ==
    ASSUME TypeInv, NEW n \in Node, NEW heard \in SUBSET Peers(n),
           RoundAdvances(n, heard)
    PROVE  \E match, c : Advances(n, heard, match, c)
<1> DEFINE res(p) == repl[n].res[p]
           match == [p \in Node |-> IF p \in heard /\ res(p).success
                                    THEN res(p).match ELSE matchIndex[n][p]]
           next == [p \in Node |-> IF p \notin heard THEN nextIndex[n][p]
                                   ELSE IF res(p).success THEN res(p).match + 1
                                   ELSE BackOff(nextIndex[n][p])]
           c == highest_committable_index(mem[n], match, n)
           s == [mem[n] EXCEPT !.commit = c]
<1>1. /\ role[n] = "Leader" /\ mem[n].term = repl[n].term
      /\ matchIndex' = [matchIndex EXCEPT ![n] = match]
      /\ nextIndex' = [nextIndex EXCEPT ![n] = next]
      /\ SetMem(n, s)
      /\ Saves(n, disk[n], s)
      /\ repl' = [repl EXCEPT ![n] = NoRound(n)]
      /\ UNCHANGED <<role, camp, voteReqs, voteReplies, appends, elected>>
  BY DEF RoundAdvances, LeadsRound, Saves, net
<1>2. WellFormed(mem[n])
  BY StatesWellFormed
<1>3. \A p \in Peers(n) :
         \/ match[p] = matchIndex[n][p]
         \/ p \in heard /\ repl[n].res[p].success /\ match[p] = repl[n].res[p].match
  BY DEF Peers
<1>4. \A p \in Peers(n) :
         \/ next[p] = nextIndex[n][p]
         \/ next[p] = match[p] + 1 /\ repl[n].res[p].success
         \/ next[p] = BackOff(nextIndex[n][p])
  BY DEF Peers
<1> HIDE DEF match, next
<1>5. c \in Nat /\ mem[n].commit <= c /\ c <= Len(mem[n].log)
  BY <1>2, HighestCommittableType DEF WellFormed
<1>6. c = highest_committable_index(mem[n], match, n)
  OBVIOUS
<1> HIDE DEF c
<1>7. s.log = mem[n].log /\ s.term = mem[n].term /\ s.commit = c
  BY <1>2, <1>5, CommitWellFormed
<1> HIDE DEF s
<1>8. /\ mem'[n] = s /\ disk'[n] \in {disk[n], s}
      /\ \A k \in Node \ {n} : mem'[k] = mem[k] /\ disk'[k] = disk[k]
  BY <1>1, <1>5, <1>7, NodeStepFrame
<1>9. chosen' = IF c > Len(chosen) THEN SubSeq(mem[n].log, 1, c) ELSE chosen
  BY <1>1, <1>7 DEF SetMem
<1>10. /\ matchIndex'[n] = match /\ nextIndex'[n] = next /\ repl'[n] = NoRound(n)
       /\ \A k \in Node \ {n} : /\ nextIndex'[k] = nextIndex[k]
                                 /\ matchIndex'[k] = matchIndex[k]
                                 /\ repl'[k] = repl[k]
  BY <1>1 DEF TypeInv, TypeOK
<1>11. Advances(n, heard, match, c)
  BY <1>1, <1>3, <1>4, <1>5, <1>6, <1>7, <1>8, <1>9, <1>10 DEF Advances
<1> QED BY <1>11

\* Applying the answers keeps the structure.
LEMMA AdvancesStruct ==
    ASSUME NEW F, TypeInv, TypeInv', StatesMoveOn, Struct(F), NEW n \in Node,
           NEW heard \in SUBSET Peers(n), NEW match, NEW c,
           Advances(n, heard, match, c)
    PROVE  /\ Struct(F)' /\ GrantsChecked
           /\ \A p \in Peers(n) : match[p] \in Nat /\ match[p] <= Len(disk[n].log)
           /\ Len(chosen) <= Len(chosen') /\ c <= Len(chosen')
<1>1. /\ role[n] = "Leader" /\ mem[n].term = repl[n].term
      /\ mem'[n].log = mem[n].log /\ mem'[n].term = mem[n].term /\ mem'[n].commit = c
      /\ disk'[n] \in {disk[n], mem'[n]}
      /\ \A k \in Node \ {n} : mem'[k] = mem[k] /\ disk'[k] = disk[k]
      /\ \A k \in Node \ {n} : /\ nextIndex'[k] = nextIndex[k]
                                /\ matchIndex'[k] = matchIndex[k]
                                /\ repl'[k] = repl[k]
      /\ repl'[n] = NoRound(n) /\ matchIndex'[n] = match
      /\ UNCHANGED <<role, camp, voteReqs, voteReplies, appends, elected>>
  BY DEF Advances
<1>2. /\ mem[n].log \in Seq(LogEntry) /\ Len(mem[n].log) \in Nat
      /\ disk[n].log \in Seq(LogEntry) /\ Len(disk[n].log) \in Nat
      /\ mem[n].term \in Nat /\ chosen \in Seq(LogEntry) /\ Len(chosen) \in Nat
      /\ disk'[n].term \in Nat /\ disk'[n].log \in Seq(LogEntry)
  <2>1. mem[n] \in PersistentState /\ disk[n] \in PersistentState
        /\ disk'[n] \in PersistentState
    BY DEF TypeInv, TypeOK
  <2>2. chosen \in Seq(LogEntry) /\ Len(chosen) \in Nat
    BY DEF TypeInv, TypeOK
  <2>3. \A s \in PersistentState : /\ s.log \in Seq(LogEntry) /\ Len(s.log) \in Nat
                                   /\ s.term \in Nat
    BY DEF PersistentState
  <2> QED BY <2>1, <2>2, <2>3
<1>3. c \in Nat /\ c <= Len(mem[n].log)
  BY DEF Advances
<1>4. Len(chosen) <= Len(chosen') /\ c <= Len(chosen') /\ Len(chosen') \in Nat
  <2>1. CASE c > Len(chosen)
    <3>1. chosen' = SubSeq(mem[n].log, 1, c)
      BY <2>1 DEF Advances
    <3>2. Len(chosen') = c
      BY <1>2, <1>3, <3>1
    <3> QED BY <1>2, <1>3, <2>1, <3>2
  <2>2. CASE ~(c > Len(chosen))
    BY <1>2, <1>3, <2>2 DEF Advances
  <2> QED BY <2>1, <2>2
<1>5. IsPrefixOf(disk[n].log, mem[n].log)
  BY <1>1 DEF Struct, LeaderLogs
<1>6. IsPrefixOf(disk[n].log, disk'[n].log) /\ IsPrefixOf(disk'[n].log, mem[n].log)
  <2>1. IsPrefixOf(disk[n].log, disk[n].log) /\ IsPrefixOf(mem[n].log, mem[n].log)
    BY <1>2 DEF IsPrefixOf
  <2> QED BY <1>1, <1>5, <2>1
<1>7. \A p \in Peers(n) : match[p] \in Nat /\ match[p] <= Len(disk[n].log)
  <2> SUFFICES ASSUME NEW p \in Peers(n)
               PROVE  match[p] \in Nat /\ match[p] <= Len(disk[n].log)
    OBVIOUS
  <2>1. matchIndex[n][p] \in Nat /\ repl[n].res[p].match \in Nat
    <3>1. matchIndex[n] \in [Node -> Nat] /\ repl[n].res \in [Node -> AppendEntriesResponse]
      BY DEF TypeInv, TypeOK
    <3> QED BY <3>1 DEF AppendEntriesResponse, Peers
  <2>2. \/ match[p] = matchIndex[n][p]
        \/ repl[n].res[p].success /\ match[p] = repl[n].res[p].match
    BY DEF Advances
  <2> QED BY <1>1, <2>1, <2>2 DEF Struct, LeaderIndexes, Answered
<1>8. Candidates' /\ GrantsChecked /\ Elections'
  <2>1. CampaignsMayEnd(n)
    BY <1>1 DEF CampaignsMayEnd
  <2>2. \A k \in Node : Live(k)' => k # n
    BY <1>1 DEF Live
  <2> QED BY <1>1, <2>1, <2>2, NoNewCandidate DEF Struct
<1>9. LogsInv(F)'
  <2>1. \A k \in Node : Fits(F, mem[k]) /\ Fits(F, disk[k])
    BY DEF Struct, LogsInv
  <2>2. \A k \in Node : mem[k].commit \in Nat /\ disk[k].commit \in Nat
    BY DEF TypeInv, TypeOK, PersistentState
  <2>3. /\ \A k \in Node : /\ mem'[k].log \in F
                           /\ last_log_term(mem'[k].log) <= mem'[k].term
                           /\ disk'[k].log \in F
                           /\ last_log_term(disk'[k].log) <= disk'[k].term
    BY <1>1, <2>1 DEF Fits
  <2>4. /\ \A k \in Node : mem'[k].commit = c \/ mem'[k].commit = mem[k].commit
        /\ \A k \in Node : disk'[k].commit = c \/ disk'[k].commit = disk[k].commit
    BY <1>1
  <2>5. \A k \in Node : mem'[k].commit <= Len(chosen') /\ disk'[k].commit <= Len(chosen')
    <3>1. \A k \in Node : mem[k].commit <= Len(chosen) /\ disk[k].commit <= Len(chosen)
      BY <2>1 DEF Fits
    <3> QED BY <1>2, <1>4, <2>2, <2>4, <3>1, SMTT(30)
  <2> QED BY <2>3, <2>5 DEF LogsInv, Fits
<1>10. Created(F)'
  BY <1>1 DEF Struct, Created
<1>11. LeaderLogs(F)'
  <2>1. \A k \in Node : /\ mem'[k].log = mem[k].log /\ mem'[k].term = mem[k].term
                        /\ role'[k] = role[k]
    BY <1>1
  <2>2. \A k \in Node : role[k] = "Leader" => IsPrefixOf(disk'[k].log, mem[k].log)
    BY <1>1, <1>6 DEF Struct, LeaderLogs
  <2> QED BY <1>1, <2>1, <2>2 DEF Struct, LeaderLogs
<1>12. LeaderIndexes'
  <2>1. ASSUME NEW p \in Peers(n)
        PROVE  /\ nextIndex'[n][p] <= Len(mem'[n].log) + 1
               /\ matchIndex'[n][p] <= Len(disk'[n].log)
               /\ ~Answered(n, p)'
    <3>1. ~Answered(n, p)'
      <4>1. p \in Node
        BY DEF Peers
      <4>2. repl'[n].res[p] = NoAnswer
        BY <1>1, <4>1 DEF NoRound
      <4> QED BY <4>2 DEF Answered, NoAnswer
    <3>2. Len(disk[n].log) <= Len(disk'[n].log) /\ Len(disk[n].log) <= Len(mem[n].log)
          /\ Len(disk'[n].log) \in Nat
      BY <1>2, <1>5, <1>6 DEF IsPrefixOf
    <3>3. nextIndex[n][p] \in Nat /\ nextIndex[n][p] <= Len(mem[n].log) + 1
      <4>1. nextIndex[n] \in [Node -> Nat]
        BY DEF TypeInv, TypeOK
      <4> QED BY <1>1, <4>1 DEF Struct, LeaderIndexes, Peers
    <3>4. BackOff(nextIndex[n][p]) <= Len(mem[n].log) + 1
      BY <1>2, <3>3 DEF BackOff, Higher
    <3>5. match[p] \in Nat /\ match[p] <= Len(disk[n].log)
      BY <1>7
    <3>6. nextIndex'[n][p] <= Len(mem[n].log) + 1
      <4>1. \/ nextIndex'[n][p] = nextIndex[n][p]
            \/ nextIndex'[n][p] = match[p] + 1
            \/ nextIndex'[n][p] = BackOff(nextIndex[n][p])
        BY DEF Advances
      <4>2. match[p] + 1 <= Len(mem[n].log) + 1
        BY <1>2, <3>2, <3>5
      <4> QED BY <3>3, <3>4, <4>1, <4>2
    <3> QED BY <1>1, <1>2, <3>1, <3>2, <3>5, <3>6
  <2>2. ASSUME NEW k \in Node \ {n}, role'[k] = "Leader", NEW p \in Peers(k)
        PROVE  /\ nextIndex'[k][p] <= Len(mem'[k].log) + 1
               /\ matchIndex'[k][p] <= Len(disk'[k].log)
               /\ Answered(k, p)' => repl'[k].res[p].match <= Len(disk'[k].log)
    BY <1>1, <2>2 DEF Answered, Struct, LeaderIndexes
  <2> QED BY <2>1, <2>2 DEF LeaderIndexes
<1>13. RoundTerms'
  <2>1. repl'[n].term = 0
    BY <1>1 DEF NoRound
  <2> QED BY <1>1, <2>1 DEF Struct, RoundTerms
<1>14. Sent(F)'
  <2> SUFFICES ASSUME NEW m \in appends
               PROVE  /\ m.commit <= Len(chosen')
                      /\ \E f \in elected : f.term = m.term /\ f.node = m.leader
                      /\ \E src \in F :
                            /\ SentFrom(m, src)
                            /\ role[m.leader] = "Leader" /\ mem'[m.leader].term = m.term
                                  => IsPrefixOf(src, disk'[m.leader].log)
    BY <1>1 DEF Sent
  <2>1. m.commit \in Nat /\ m.leader \in Node
    BY DEF TypeInv, TypeOK, AppendEntriesRequest
  <2>2. m.commit <= Len(chosen) /\ \E f \in elected : f.term = m.term /\ f.node = m.leader
    BY DEF Struct, Sent
  <2>3. PICK src \in F : /\ SentFrom(m, src)
                         /\ role[m.leader] = "Leader" /\ mem[m.leader].term = m.term
                               => IsPrefixOf(src, disk[m.leader].log)
    BY DEF Struct, Sent
  <2>4. src \in Seq(LogEntry)
    BY DEF Struct, Family
  <2>5. CASE m.leader = n
    <3>1. role[n] = "Leader" /\ mem[n].term = m.term => IsPrefixOf(src, disk'[n].log)
      BY <1>2, <1>6, <2>3, <2>4, <2>5, PrefixTransitive
    <3> QED BY <1>1, <1>2, <1>4, <2>1, <2>2, <2>3, <2>5, <3>1
  <2>6. CASE m.leader # n
    <3>1. mem'[m.leader] = mem[m.leader] /\ disk'[m.leader] = disk[m.leader]
      BY <1>1, <2>1, <2>6
    <3>2. m.commit <= Len(chosen')
      BY <1>2, <1>4, <2>1, <2>2
    <3> QED BY <2>2, <2>3, <3>1, <3>2
  <2> QED BY <2>5, <2>6
<1> QED BY <1>4, <1>7, <1>8, <1>9, <1>10, <1>11, <1>12, <1>13, <1>14 DEF Struct
=============================================================================
