---------------------------- MODULE ServingProofs ----------------------------
(***************************************************************************)
(* Proofs about the parts a completion passes: Scheduler, for every set of *)
(* sessions, batch size, capacity of the channel and number of tokens;     *)
(* GatewayRequests, for every set of clients, finite set of workers, limit *)
(* per worker, waiting room and retry budget; CircuitBreaker, for every    *)
(* number of concurrent attempts, window and time; and PagedCache, for     *)
(* every set of sessions, number and size of pages, and directory.         *)
(***************************************************************************)
EXTENDS Scheduler, GatewayRequests, CircuitBreaker, PagedCache, FiniteSetTheorems,
        SequenceTheorems, WellFoundedInduction, TLAPS

-----------------------------------------------------------------------------
(* The invariant.                                                            *)

\* The submissions that the shared counter counts.
Counted == {r \in Session : status[r] \in {"sending", "queued"}}

\* The task takes a session only when it has a slot for it, and waits only
\* when its batch is empty.
HandInv ==
    /\ taken # NoSession => pc \in {"wait", "fill"} /\ Len(active) < max_batch_size
    /\ pc = "wait" => active = << >>

SchedulerInv == SchedulerHolds /\ HandInv /\ IsFiniteSet(Counted)

-----------------------------------------------------------------------------
(* Sequences without repetition.                                             *)

LEMMA MembersOf ==
    ASSUME NEW S, NEW s \in Seq(S)
    PROVE  /\ DOMAIN s = 1..Len(s) /\ Len(s) \in Nat
           /\ Members(s) \subseteq S
           /\ \A i \in 1..Len(s) : s[i] \in S /\ s[i] \in Members(s)
           /\ \A x : x \in Members(s) => \E i \in 1..Len(s) : x = s[i]
BY DEF Members

LEMMA AppendedIs ==
    ASSUME NEW S, NEW s \in Seq(S), NEW x \in S, Distinct(s), x \notin Members(s)
    PROVE  /\ Append(s, x) \in Seq(S) /\ Len(Append(s, x)) = Len(s) + 1
           /\ Members(Append(s, x)) = Members(s) \cup {x}
           /\ Distinct(Append(s, x))
<1> DEFINE t == Append(s, x)
<1>1. /\ t \in Seq(S) /\ Len(t) = Len(s) + 1 /\ DOMAIN t = 1..(Len(s) + 1)
      /\ \A i \in 1..Len(s) : t[i] = s[i]
      /\ t[Len(s) + 1] = x
  OBVIOUS
<1> HIDE DEF t
<1>2. DOMAIN s = 1..Len(s) /\ Len(s) \in Nat /\ \A i \in 1..Len(s) : s[i] # x
  BY MembersOf
<1>3. Members(t) = Members(s) \cup {x}
  <2>1. \A y : y \in Members(t) => y \in Members(s) \cup {x}
    BY <1>1, <1>2 DEF Members
  <2>2. \A y : y \in Members(s) => y \in Members(t)
    BY <1>1, <1>2 DEF Members
  <2>3. x \in Members(t)
    BY <1>1, <1>2 DEF Members
  <2> QED BY <2>1, <2>2, <2>3
<1>4. Distinct(t)
  BY <1>1, <1>2 DEF Distinct
<1> QED BY <1>1, <1>3, <1>4 DEF t

LEMMA TailIs ==
    ASSUME NEW S, NEW s \in Seq(S), s # << >>, Distinct(s)
    PROVE  /\ Tail(s) \in Seq(S) /\ Len(Tail(s)) = Len(s) - 1 /\ Head(s) \in S
           /\ Members(s) = Members(Tail(s)) \cup {Head(s)}
           /\ Head(s) \notin Members(Tail(s))
           /\ Distinct(Tail(s))
<1> DEFINE t == Tail(s)
<1>1. /\ t \in Seq(S) /\ Len(t) = Len(s) - 1 /\ DOMAIN t = 1..(Len(s) - 1)
      /\ \A i \in 1..(Len(s) - 1) : t[i] = s[i + 1]
      /\ Head(s) = s[1] /\ Len(s) >= 1 /\ Len(s) \in Nat /\ s[1] \in S
  BY HeadTailProperties, EmptySeq
<1> HIDE DEF t
<1>2. DOMAIN s = 1..Len(s)
  OBVIOUS
<1>3. \A i \in 1..(Len(s) - 1) : i + 1 \in 1..Len(s) /\ i + 1 # 1
  BY <1>1
<1>4. \A y : y \in Members(t) => y \in Members(s)
  BY <1>1, <1>2, <1>3 DEF Members
<1>5. \A y : y \in Members(s) => y \in Members(t) \cup {s[1]}
  <2>1. SUFFICES ASSUME NEW i \in 1..Len(s), i # 1 PROVE s[i] \in Members(t)
    BY <1>2 DEF Members
  <2>2. i - 1 \in 1..(Len(s) - 1) /\ (i - 1) + 1 = i
    BY <1>1, <2>1
  <2> QED BY <1>1, <2>2 DEF Members
<1>6. s[1] \in Members(s)
  BY <1>1, <1>2 DEF Members
<1>7. s[1] \notin Members(t)
  <2>1. SUFFICES ASSUME NEW i \in 1..(Len(s) - 1), s[i + 1] = s[1] PROVE FALSE
    BY <1>1 DEF Members
  <2>2. i + 1 \in DOMAIN s /\ 1 \in DOMAIN s /\ i + 1 # 1
    BY <1>1, <1>2, <1>3
  <2> QED BY <2>1, <2>2 DEF Distinct
<1>8. Distinct(t)
  <2>1. SUFFICES ASSUME NEW i \in 1..(Len(s) - 1), NEW j \in 1..(Len(s) - 1),
                        s[i + 1] = s[j + 1]
                 PROVE  i = j
    BY <1>1 DEF Distinct
  <2>2. i + 1 = j + 1
    BY <1>2, <1>3, <2>1 DEF Distinct
  <2> QED BY <2>2
<1>9. Members(s) = Members(t) \cup {s[1]}
  BY <1>4, <1>5, <1>6
<1> QED BY <1>1, <1>7, <1>8, <1>9 DEF t

\* swap_remove takes out one element and keeps every other one.
LEMMA SwapRemoveIs ==
    ASSUME NEW S, NEW s \in Seq(S), NEW i \in 1..Len(s), Distinct(s)
    PROVE  /\ swap_remove(s, i) \in Seq(S) /\ Len(swap_remove(s, i)) = Len(s) - 1
           /\ \A j \in 1..(Len(s) - 1) :
                 swap_remove(s, i)[j] = IF j = i THEN s[Len(s)] ELSE s[j]
           /\ Members(swap_remove(s, i)) = Members(s) \ {s[i]}
           /\ Distinct(swap_remove(s, i))
<1> DEFINE n == Len(s) - 1
           t == swap_remove(s, i)
<1>1. n \in Nat /\ Len(s) = n + 1 /\ DOMAIN s = 1..(n + 1) /\ i \in 1..(n + 1)
  OBVIOUS
<1>2. /\ DOMAIN t = 1..n
      /\ \A j \in 1..n : t[j] = IF j = i THEN s[n + 1] ELSE s[j]
      /\ t = [j \in 1..n |-> t[j]]
  BY <1>1 DEF swap_remove
<1>3. \A j \in 1..n : t[j] \in S
  BY <1>1, <1>2
<1>4. t \in [1..n -> S]
  BY <1>2, <1>3
<1> HIDE DEF n, t
<1>5. t \in Seq(S) /\ Len(t) = n
  BY <1>1, <1>2, <1>4
<1>6. Members(t) = Members(s) \ {s[i]}
  <2>1. ASSUME NEW y \in Members(t) PROVE y \in Members(s) \ {s[i]}
    <3>1. PICK j \in 1..n : y = t[j]
      BY <1>2, <2>1 DEF Members
    <3>2. CASE j = i
      <4>1. y = s[n + 1] /\ n + 1 \in 1..(n + 1) /\ n + 1 # i
        BY <1>1, <1>2, <3>1, <3>2
      <4> QED BY <1>1, <4>1 DEF Members, Distinct
    <3>3. CASE j # i
      <4>1. y = s[j] /\ j \in 1..(n + 1)
        BY <1>1, <1>2, <3>1, <3>3
      <4> QED BY <1>1, <3>3, <4>1 DEF Members, Distinct
    <3> QED BY <3>2, <3>3
  <2>2. ASSUME NEW j \in 1..(n + 1), s[j] # s[i] PROVE s[j] \in Members(t)
    <3>1. CASE j = n + 1
      <4>1. i \in 1..n /\ t[i] = s[j]
        BY <1>1, <1>2, <2>2, <3>1
      <4> QED BY <1>2, <4>1 DEF Members
    <3>2. CASE j # n + 1
      <4>1. j \in 1..n /\ t[j] = s[j]
        BY <1>1, <1>2, <2>2, <3>2
      <4> QED BY <1>2, <4>1 DEF Members
    <3> QED BY <3>1, <3>2
  <2>3. \A y \in Members(s) : y # s[i] => y \in Members(t)
    BY <1>1, <2>2 DEF Members
  <2> QED BY <2>1, <2>3
<1>7. Distinct(t)
  <2>1. SUFFICES ASSUME NEW j \in 1..n, NEW k \in 1..n, t[j] = t[k] PROVE j = k
    BY <1>2 DEF Distinct
  <2> DEFINE from(m) == IF m = i THEN n + 1 ELSE m
  <2>2. /\ from(j) \in 1..(n + 1) /\ from(k) \in 1..(n + 1)
        /\ t[j] = s[from(j)] /\ t[k] = s[from(k)]
    BY <1>1, <1>2
  <2>3. from(j) = from(k)
    <3> HIDE DEF from
    <3> QED BY <1>1, <2>1, <2>2 DEF Distinct
  <2> QED BY <1>1, <2>3
<1>8. \A j \in 1..n : t[j] = IF j = i THEN s[Len(s)] ELSE s[j]
  BY <1>1, <1>2
<1> QED BY <1>5, <1>6, <1>7, <1>8 DEF n, t


-----------------------------------------------------------------------------
(* Handlers.                                                                 *)

LEMMA SchedulerInitial ==
    ASSUME SchedulerInit
    PROVE  SchedulerInv
<1> USE DEF SchedulerInit
<1>1. << >> \in Seq(Session) /\ Len(<< >>) = 0 /\ Members(<< >>) = {} /\ Distinct(<< >>)
  BY DEF Members, Distinct
<1>2. SchedulerTypeOK
  BY <1>1, SchedulerConfigIsValid, TokensType DEF SchedulerTypeOK, Status
<1>3. OnePlace
  BY <1>1, SessionType DEF OnePlace
<1>4. Counted = {}
  BY DEF Counted
<1>5. IsFiniteSet(Counted) /\ QueuedCounts
  BY <1>4, FS_EmptySet DEF QueuedCounts, Counted
<1>6. OneStepPerBatch /\ FreedSlotsAreFilled
  BY DEF OneStepPerBatch, FreedSlotsAreFilled
<1>7. HandInv
  BY DEF HandInv
<1> QED BY <1>2, <1>3, <1>5, <1>6, <1>7 DEF SchedulerInv, SchedulerHolds

\* The counter follows the set that it counts.
LEMMA CountUp ==
    ASSUME IsFiniteSet(Counted), QueuedCounts, NEW r \in Session, r \notin Counted,
           Counted' = Counted \cup {r}, queued' = queued + 1
    PROVE  IsFiniteSet(Counted') /\ QueuedCounts' /\ queued' \in Nat
<1>1. queued = Cardinality(Counted)
  BY DEF QueuedCounts, Counted
<1>2. IsFiniteSet(Counted') /\ Cardinality(Counted') = queued'
  BY <1>1, FS_AddElement
<1>3. Cardinality(Counted') \in Nat
  BY <1>2, FS_CardinalityType
<1> QED BY <1>2, <1>3 DEF QueuedCounts, Counted

LEMMA CountDown ==
    ASSUME IsFiniteSet(Counted), QueuedCounts, NEW r \in Session, r \in Counted,
           Counted' = Counted \ {r}, queued' = queued - 1
    PROVE  IsFiniteSet(Counted') /\ QueuedCounts' /\ queued' \in Nat
<1>1. queued = Cardinality(Counted)
  BY DEF QueuedCounts, Counted
<1>2. IsFiniteSet(Counted') /\ Cardinality(Counted') = queued'
  BY <1>1, FS_RemoveElement
<1>3. Cardinality(Counted') \in Nat
  BY <1>2, FS_CardinalityType
<1> QED BY <1>2, <1>3 DEF QueuedCounts, Counted

LEMMA CountStays ==
    ASSUME IsFiniteSet(Counted), QueuedCounts, Counted' = Counted, queued' = queued
    PROVE  IsFiniteSet(Counted') /\ QueuedCounts'
BY DEF QueuedCounts, Counted

\* What SetStatus does.
LEMMA StatusSet ==
    ASSUME SchedulerTypeOK, NEW r \in Session, NEW s \in Status, SetStatus(r, s)
    PROVE  /\ status' \in [Session -> Status] /\ status'[r] = s
           /\ \A q \in Session : q # r => status'[q] = status[q]
BY DEF SchedulerTypeOK, SetStatus

LEMMA SubmitCountsKeeps ==
    ASSUME SchedulerInv, NEW r \in Session, SubmitCounts(r)
    PROVE  SchedulerInv'
<1> USE DEF SchedulerInv, SchedulerHolds
<1>1. /\ status[r] = "new" /\ queued' = queued + 1
      /\ UNCHANGED <<gone, queue, taken, batch, late>>
  BY DEF SubmitCounts
<1>2. /\ status' \in [Session -> Status] /\ status'[r] = "sending"
      /\ \A q \in Session : q # r => status'[q] = status[q]
  BY StatusSet DEF SubmitCounts, Status
<1>3. r \notin Counted /\ Counted' = Counted \cup {r}
  BY <1>1, <1>2 DEF Counted
<1>4. IsFiniteSet(Counted') /\ QueuedCounts' /\ queued' \in Nat
  BY <1>1, <1>3, CountUp
<1>5. SchedulerTypeOK'
  BY <1>1, <1>2, <1>4 DEF SchedulerTypeOK, batch
<1>6. OnePlace'
  <2>1. Members(queue)' = Members(queue) /\ Members(active)' = Members(active)
    BY <1>1 DEF batch, Members
  <2>2. Distinct(queue)' /\ Distinct(active)'
    BY <1>1 DEF batch, OnePlace, Distinct
  <2> QED BY <1>1, <1>2, <2>1, <2>2 DEF OnePlace
<1>7. OneStepPerBatch' /\ FreedSlotsAreFilled' /\ HandInv'
  BY <1>1 DEF batch, OneStepPerBatch, FreedSlotsAreFilled, HandInv, Members
<1> QED BY <1>4, <1>5, <1>6, <1>7

LEMMA SubmitSendsKeeps ==
    ASSUME SchedulerInv, NEW r \in Session, SubmitSends(r)
    PROVE  SchedulerInv'
<1> USE DEF SchedulerInv, SchedulerHolds
<1>1. /\ status[r] = "sending" /\ Len(queue) < queue_capacity
      /\ queue' = Append(queue, r) /\ late' = late \cup {r}
      /\ UNCHANGED <<gone, queued, taken, batch>>
  BY DEF SubmitSends
<1>2. /\ status' \in [Session -> Status] /\ status'[r] = "queued"
      /\ \A q \in Session : q # r => status'[q] = status[q]
  BY StatusSet DEF SubmitSends, Status
<1>3. Counted' = Counted
  BY <1>1, <1>2 DEF Counted
<1>4. IsFiniteSet(Counted') /\ QueuedCounts'
  BY <1>1, <1>3, CountStays
<1>5. r \notin Members(queue) /\ r # taken /\ r \notin Members(active)
  BY <1>1 DEF OnePlace
<1>6. /\ queue' \in Seq(Session) /\ Len(queue') = Len(queue) + 1
      /\ Members(queue') = Members(queue) \cup {r} /\ Distinct(queue')
  BY <1>1, <1>5, AppendedIs DEF SchedulerTypeOK, OnePlace
<1>7. Len(queue') <= queue_capacity
  BY <1>1, <1>6, MembersOf, SchedulerConfigIsValid DEF SchedulerTypeOK
<1>8. SchedulerTypeOK'
  BY <1>1, <1>2, <1>6, <1>7 DEF SchedulerTypeOK, batch
<1>9. OnePlace'
  <2>1. Members(active') = Members(active) /\ Distinct(active')
    BY <1>1 DEF batch, OnePlace
  <2> QED BY <1>1, <1>2, <1>5, <1>6, <2>1 DEF OnePlace
<1>10. OneStepPerBatch' /\ HandInv'
  BY <1>1 DEF batch, OneStepPerBatch, HandInv
<1>11. FreedSlotsAreFilled'
  BY <1>1, <1>6 DEF batch, FreedSlotsAreFilled
<1> QED BY <1>4, <1>8, <1>9, <1>10, <1>11

LEMMA SubmitRefusedKeeps ==
    ASSUME SchedulerInv, NEW r \in Session, SubmitRefused(r)
    PROVE  SchedulerInv'
<1> USE DEF SchedulerInv, SchedulerHolds
<1>1. /\ status[r] = "sending" /\ queued' = queued - 1
      /\ UNCHANGED <<gone, queue, taken, batch, late>>
  BY DEF SubmitRefused, Uncount
<1>2. /\ status' \in [Session -> Status] /\ status'[r] = "refused"
      /\ \A q \in Session : q # r => status'[q] = status[q]
  BY StatusSet DEF SubmitRefused, Status
<1>3. r \in Counted /\ Counted' = Counted \ {r}
  BY <1>1, <1>2 DEF Counted
<1>4. IsFiniteSet(Counted') /\ QueuedCounts' /\ queued' \in Nat
  BY <1>1, <1>3, CountDown
<1>5. SchedulerTypeOK'
  BY <1>1, <1>2, <1>4 DEF SchedulerTypeOK, batch
<1>6. OnePlace'
  <2>1. Members(queue)' = Members(queue) /\ Members(active)' = Members(active)
    BY <1>1 DEF batch, Members
  <2>2. Distinct(queue)' /\ Distinct(active)'
    BY <1>1 DEF batch, OnePlace, Distinct
  <2> QED BY <1>1, <1>2, <2>1, <2>2 DEF OnePlace
<1>7. OneStepPerBatch' /\ FreedSlotsAreFilled' /\ HandInv'
  BY <1>1 DEF batch, OneStepPerBatch, FreedSlotsAreFilled, HandInv, Members
<1> QED BY <1>4, <1>5, <1>6, <1>7

\* Steps that only change gone, late, the task's place and its walk.
LEMMA PlacesStay ==
    ASSUME OnePlace, QueuedCounts, IsFiniteSet(Counted),
           UNCHANGED <<status, queue, queued, taken, active>>
    PROVE  OnePlace' /\ QueuedCounts' /\ IsFiniteSet(Counted')
<1>1. Members(queue)' = Members(queue) /\ Members(active)' = Members(active)
  BY DEF Members
<1>2. Distinct(queue)' /\ Distinct(active)'
  BY DEF OnePlace, Distinct
<1>3. OnePlace'
  BY <1>1, <1>2 DEF OnePlace
<1>4. Counted' = Counted
  BY DEF Counted
<1> QED BY <1>3, <1>4, CountStays

LEMMA LeaveKeeps ==
    ASSUME SchedulerInv, NEW r \in Session, Leave(r)
    PROVE  SchedulerInv'
<1> USE DEF SchedulerInv, SchedulerHolds
<1>1. gone' = gone \cup {r} /\ UNCHANGED <<status, queue, queued, taken, batch, late>>
  BY DEF Leave
<1>2. OnePlace' /\ QueuedCounts' /\ IsFiniteSet(Counted')
  BY <1>1, PlacesStay DEF batch
<1>3. SchedulerTypeOK'
  BY <1>1 DEF SchedulerTypeOK, batch
<1>4. OneStepPerBatch' /\ FreedSlotsAreFilled' /\ HandInv'
  BY <1>1 DEF batch, OneStepPerBatch, FreedSlotsAreFilled, HandInv, Members
<1> QED BY <1>2, <1>3, <1>4

-----------------------------------------------------------------------------
(* The task.                                                                 *)

LEMMA TakeKeeps ==
    ASSUME SchedulerInv, Take
    PROVE  SchedulerInv'
<1> USE DEF SchedulerInv, SchedulerHolds
<1>1. /\ pc = "wait" \/ (pc = "fill" /\ Len(active) < max_batch_size)
      /\ taken = NoSession /\ queue # << >> /\ taken' = Head(queue) /\ queue' = Tail(queue)
      /\ UNCHANGED <<status, gone, queued, batch, late>>
  BY DEF Take, SlotFree
<1>2. /\ queue' \in Seq(Session) /\ Len(queue') = Len(queue) - 1 /\ taken' \in Session
      /\ Members(queue) = Members(queue') \cup {taken'}
      /\ taken' \notin Members(queue') /\ Distinct(queue')
  BY <1>1, TailIs DEF SchedulerTypeOK, OnePlace
<1>3. Len(queue') <= queue_capacity
  BY <1>2, MembersOf, SchedulerConfigIsValid DEF SchedulerTypeOK
<1>4. SchedulerTypeOK'
  BY <1>1, <1>2, <1>3 DEF SchedulerTypeOK, batch
<1>5. OnePlace'
  <2>1. Members(active') = Members(active) /\ Distinct(active')
    BY <1>1 DEF batch, OnePlace
  <2>2. \A r \in Session : r # taken
    BY <1>1, SessionType
  <2> QED BY <1>1, <1>2, <2>1, <2>2 DEF OnePlace
<1>6. Counted' = Counted
  BY <1>1 DEF Counted
<1>7. IsFiniteSet(Counted') /\ QueuedCounts'
  BY <1>1, <1>6, CountStays
<1>8. OneStepPerBatch' /\ FreedSlotsAreFilled'
  BY <1>1 DEF batch, OneStepPerBatch, FreedSlotsAreFilled
<1>9. HandInv'
  <2>1. pc = "wait" => Len(active) = 0
    BY DEF HandInv
  <2> QED BY <1>1, <2>1, SchedulerConfigIsValid DEF batch, HandInv
<1> QED BY <1>4, <1>5, <1>7, <1>8, <1>9

LEMMA AdmitKeeps ==
    ASSUME SchedulerInv, Admit
    PROVE  SchedulerInv'
<1> USE DEF SchedulerInv, SchedulerHolds
<1>1. /\ taken # NoSession /\ queued' = queued - 1 /\ SetStatus(taken, "active")
      /\ active' = Append(active, taken) /\ taken' = NoSession /\ pc' = "fill"
      /\ UNCHANGED <<gone, queue, emitted, index, stepped, late>>
  BY DEF Admit
<1>2. taken \in Session
  BY <1>1 DEF SchedulerTypeOK
<1>3. /\ status' \in [Session -> Status] /\ status'[taken] = "active"
      /\ \A q \in Session : q # taken => status'[q] = status[q]
  BY <1>1, <1>2, StatusSet DEF Status
<1>4. /\ status[taken] = "queued" /\ taken \notin Members(active)
      /\ taken \notin Members(queue)
  BY <1>2 DEF OnePlace
<1>5. taken \in Counted /\ Counted' = Counted \ {taken}
  BY <1>2, <1>3, <1>4 DEF Counted
<1>6. IsFiniteSet(Counted') /\ QueuedCounts' /\ queued' \in Nat
  BY <1>1, <1>2, <1>5, CountDown
<1>7. /\ active' \in Seq(Session) /\ Len(active') = Len(active) + 1
      /\ Members(active') = Members(active) \cup {taken} /\ Distinct(active')
  BY <1>1, <1>2, <1>4, AppendedIs DEF SchedulerTypeOK, OnePlace
<1>8. Len(active') <= max_batch_size
  BY <1>1, <1>7, MembersOf, SchedulerConfigIsValid DEF SchedulerTypeOK, HandInv
<1>9. SchedulerTypeOK'
  BY <1>1, <1>3, <1>6, <1>7, <1>8 DEF SchedulerTypeOK
<1>10. OnePlace'
  <2>1. Members(queue') = Members(queue) /\ Distinct(queue')
    BY <1>1 DEF OnePlace
  <2>2. \A r \in Session : r # taken'
    BY <1>1, SessionType
  <2> QED BY <1>1, <1>2, <1>3, <1>4, <1>7, <2>1, <2>2 DEF OnePlace
<1>11. OneStepPerBatch' /\ FreedSlotsAreFilled' /\ HandInv'
  BY <1>1 DEF OneStepPerBatch, FreedSlotsAreFilled, HandInv
<1> QED BY <1>6, <1>9, <1>10, <1>11

LEMMA FilledKeeps ==
    ASSUME SchedulerInv, Filled
    PROVE  SchedulerInv'
<1> USE DEF SchedulerInv, SchedulerHolds
<1>1. /\ taken = NoSession /\ FillEnds
      /\ pc' = IF active = << >> THEN "wait" ELSE "delay"
      /\ late' = {}
      /\ UNCHANGED <<handlers, taken, active, emitted, index, stepped>>
  BY DEF Filled, NothingToDo
<1>2. OnePlace' /\ QueuedCounts' /\ IsFiniteSet(Counted')
  BY <1>1, PlacesStay DEF handlers
<1>3. SchedulerTypeOK'
  BY <1>1 DEF SchedulerTypeOK, handlers
<1>4. OneStepPerBatch' /\ HandInv'
  BY <1>1 DEF OneStepPerBatch, HandInv
<1>5. FreedSlotsAreFilled'
  <2>1. Len(active) \in Nat /\ max_batch_size \in Nat
    BY SchedulerConfigIsValid, MembersOf DEF SchedulerTypeOK
  <2>2. Members(<< >>) = {}
    BY DEF Members
  <2>3. Len(active) < max_batch_size => queue = << >>
    BY <1>1, <2>1 DEF FillEnds
  <2> QED BY <1>1, <2>2, <2>3 DEF FreedSlotsAreFilled, handlers
<1> QED BY <1>2, <1>3, <1>4, <1>5

LEMMA BatchBeginsKeeps ==
    ASSUME SchedulerInv, BatchBegins
    PROVE  SchedulerInv'
<1> USE DEF SchedulerInv, SchedulerHolds
<1>1. /\ pc = "delay" /\ pc' = "step" /\ index' = 1 /\ stepped' = {}
      /\ UNCHANGED <<handlers, taken, active, emitted, late>>
  BY DEF BatchBegins
<1>2. OnePlace' /\ QueuedCounts' /\ IsFiniteSet(Counted')
  BY <1>1, PlacesStay DEF handlers
<1>3. SchedulerTypeOK'
  BY <1>1 DEF SchedulerTypeOK, handlers
<1>4. OneStepPerBatch'
  <2>1. DOMAIN active = 1..Len(active) /\ Len(active) \in Nat
    BY MembersOf DEF SchedulerTypeOK
  <2> QED BY <1>1, <2>1 DEF OneStepPerBatch
<1>5. HandInv' /\ FreedSlotsAreFilled'
  BY <1>1 DEF HandInv, FreedSlotsAreFilled
<1> QED BY <1>2, <1>3, <1>4, <1>5

LEMMA BatchEndsKeeps ==
    ASSUME SchedulerInv, BatchEnds
    PROVE  SchedulerInv'
<1> USE DEF SchedulerInv, SchedulerHolds
<1>1. /\ pc = "step" /\ pc' = "fill"
      /\ UNCHANGED <<handlers, taken, active, emitted, index, stepped, late>>
  BY DEF BatchEnds
<1>2. OnePlace' /\ QueuedCounts' /\ IsFiniteSet(Counted')
  BY <1>1, PlacesStay DEF handlers
<1>3. SchedulerTypeOK'
  BY <1>1 DEF SchedulerTypeOK, handlers
<1>4. OneStepPerBatch' /\ HandInv' /\ FreedSlotsAreFilled'
  BY <1>1 DEF OneStepPerBatch, HandInv, FreedSlotsAreFilled
<1> QED BY <1>2, <1>3, <1>4

LEMMA CurrentIs ==
    ASSUME SchedulerInv, Stepping
    PROVE  /\ pc = "step" /\ taken = NoSession /\ index \in 1..Len(active)
           /\ active \in Seq(Session) /\ Len(active) \in Nat /\ DOMAIN active = 1..Len(active)
           /\ Current \in Session /\ Current \in Members(active)
           /\ status[Current] = "active" /\ stepped' = stepped \cup {Current}
<1>1. /\ pc = "step" /\ index <= Len(active) /\ stepped' = stepped \cup {Current}
  BY DEF Stepping
<1>2. /\ active \in Seq(Session) /\ Len(active) \in Nat /\ DOMAIN active = 1..Len(active)
      /\ index \in Nat \ {0}
  BY MembersOf DEF SchedulerInv, SchedulerHolds, SchedulerTypeOK
<1>3. index \in 1..Len(active)
  BY <1>1, <1>2
<1>4. Current \in Session /\ Current \in Members(active)
  BY <1>2, <1>3, MembersOf DEF Current
<1>5. status[Current] = "active" /\ taken = NoSession
  BY <1>1, <1>4 DEF SchedulerInv, SchedulerHolds, OnePlace, HandInv
<1> QED BY <1>1, <1>2, <1>3, <1>4, <1>5

LEMMA StepTokenKeeps ==
    ASSUME SchedulerInv, StepToken
    PROVE  SchedulerInv'
<1> USE DEF SchedulerInv, SchedulerHolds
<1>1. /\ Stepping /\ emitted[Current] < MaxTokens
      /\ emitted' = [emitted EXCEPT ![Current] = @ + 1]
      /\ index' = index + 1
      /\ UNCHANGED <<handlers, taken, active, pc, late>>
  BY DEF StepToken
<1>2. /\ pc = "step" /\ taken = NoSession /\ index \in 1..Len(active)
      /\ Len(active) \in Nat /\ DOMAIN active = 1..Len(active)
      /\ Current \in Session /\ stepped' = stepped \cup {Current}
  BY <1>1, CurrentIs
<1>3. OnePlace' /\ QueuedCounts' /\ IsFiniteSet(Counted')
  BY <1>1, PlacesStay DEF handlers
<1>4. SchedulerTypeOK'
  <2>1. emitted' \in [Session -> 0..MaxTokens]
    BY <1>1, <1>2, TokensType DEF SchedulerTypeOK
  <2>2. index' \in Nat \ {0}
    BY <1>1, <1>2
  <2> QED BY <1>1, <1>2, <2>1, <2>2 DEF SchedulerTypeOK, handlers
<1>5. OneStepPerBatch'
  <2>1. SUFFICES ASSUME NEW i \in 1..Len(active)
                 PROVE  active[i] \in stepped' <=> i < index'
    BY <1>1, <1>2 DEF OneStepPerBatch
  <2>2. active[i] \in stepped <=> i < index
    BY <1>2 DEF OneStepPerBatch
  <2>3. active[i] = Current <=> i = index
    BY <1>2 DEF Current, OnePlace, Distinct
  <2> QED BY <1>1, <1>2, <2>2, <2>3
<1>6. HandInv' /\ FreedSlotsAreFilled'
  BY <1>1, <1>2 DEF HandInv, FreedSlotsAreFilled
<1> QED BY <1>3, <1>4, <1>5, <1>6

\* A sequence leaves the batch.
LEMMA RemovedKeeps ==
    ASSUME SchedulerInv, Stepping, NEW end \in EndStatus, Removed(end),
           emitted' \in [Session -> 0..MaxTokens],
           UNCHANGED <<gone, queue, queued, taken, pc, late>>
    PROVE  SchedulerInv'
<1> USE DEF SchedulerInv, SchedulerHolds
<1>1. /\ active' = swap_remove(active, index) /\ index' = index /\ SetStatus(Current, end)
  BY DEF Removed, AfterRemoval
<1>2. /\ pc = "step" /\ taken = NoSession /\ index \in 1..Len(active)
      /\ active \in Seq(Session) /\ Len(active) \in Nat /\ DOMAIN active = 1..Len(active)
      /\ Current \in Session /\ Current \in Members(active)
      /\ status[Current] = "active" /\ stepped' = stepped \cup {Current}
  BY CurrentIs
<1>3. end \in Status /\ end \notin {"sending", "queued", "active"}
  BY DEF EndStatus, Status
<1>4. /\ status' \in [Session -> Status] /\ status'[Current] = end
      /\ \A q \in Session : q # Current => status'[q] = status[q]
  BY <1>1, <1>2, <1>3, StatusSet
<1>5. Counted' = Counted
  BY <1>2, <1>3, <1>4 DEF Counted
<1>6. IsFiniteSet(Counted') /\ QueuedCounts'
  BY <1>5, CountStays
<1>7. /\ active' \in Seq(Session) /\ Len(active') = Len(active) - 1
      /\ \A j \in 1..(Len(active) - 1) :
            active'[j] = IF j = index THEN active[Len(active)] ELSE active[j]
      /\ Members(active') = Members(active) \ {Current}
      /\ Distinct(active')
  <2>1. Distinct(active)
    BY DEF OnePlace
  <2>2. Current = active[index]
    BY DEF Current
  <2> DEFINE t == swap_remove(active, index)
  <2>3. active \in Seq(Session) /\ index \in 1..Len(active)
    BY <1>2
  <2>4. /\ t \in Seq(Session) /\ Len(t) = Len(active) - 1
        /\ \A j \in 1..(Len(active) - 1) :
              t[j] = IF j = index THEN active[Len(active)] ELSE active[j]
        /\ Members(t) = Members(active) \ {active[index]}
        /\ Distinct(t)
    BY <2>1, <2>3, SwapRemoveIs, Zenon
  <2> HIDE DEF t
  <2>5. active' = t
    BY <1>1 DEF t
  <2> QED BY <2>2, <2>4, <2>5
<1>8. SchedulerTypeOK'
  <2>1. Len(active') <= max_batch_size
    BY <1>2, <1>7, SchedulerConfigIsValid DEF SchedulerTypeOK
  <2> QED BY <1>1, <1>2, <1>4, <1>7, <2>1 DEF SchedulerTypeOK
<1>9. OnePlace'
  <2>1. Members(queue') = Members(queue) /\ Distinct(queue')
    BY DEF OnePlace
  <2>2. Current \notin Members(queue) /\ Current # taken
    BY <1>2 DEF OnePlace
  <2> QED BY <1>2, <1>3, <1>4, <1>7, <2>1, <2>2 DEF OnePlace
<1>10. OneStepPerBatch'
  <2>1. DOMAIN active' = 1..(Len(active) - 1)
    BY <1>7
  <2>2. SUFFICES ASSUME NEW j \in 1..(Len(active) - 1)
                 PROVE  active'[j] \in stepped' <=> j < index
    BY <1>1, <2>1 DEF OneStepPerBatch
  <2>3. \A i \in 1..Len(active) : active[i] \in stepped <=> i < index
    BY <1>2 DEF OneStepPerBatch
  <2>4. \A i \in 1..Len(active) : active[i] = Current => i = index
    BY <1>2 DEF Current, OnePlace, Distinct
  <2>5. CASE j = index
    <3>1. active'[j] = active[Len(active)] /\ Len(active) \in 1..Len(active)
          /\ index < Len(active)
      BY <1>2, <1>7, <2>5
    <3> QED BY <1>2, <2>3, <2>4, <2>5, <3>1
  <2>6. CASE j # index
    <3>1. active'[j] = active[j] /\ j \in 1..Len(active)
      BY <1>2, <1>7, <2>6
    <3> QED BY <1>2, <2>3, <2>4, <2>6, <3>1
  <2> QED BY <2>5, <2>6
<1>11. HandInv' /\ FreedSlotsAreFilled'
  BY <1>2 DEF HandInv, FreedSlotsAreFilled
<1> QED BY <1>6, <1>8, <1>9, <1>10, <1>11

LEMMA StepRemovesKeeps ==
    ASSUME SchedulerInv, StepCancelled \/ StepFinishes \/ StepFails
    PROVE  SchedulerInv'
<1> USE DEF SchedulerInv, SchedulerHolds
<1>1. Stepping /\ UNCHANGED <<gone, queue, queued, taken, pc, late>>
  BY DEF StepCancelled, StepFinishes, StepFails
<1>2. \E end \in EndStatus : Removed(end)
  BY DEF StepCancelled, StepFinishes, StepFails, EndStatus
<1>3. Current \in Session
  BY <1>1, CurrentIs
<1>4. emitted' \in [Session -> 0..MaxTokens]
  <2>1. CASE StepCancelled
    <3>1. emitted[Current] < MaxTokens /\ emitted' = [emitted EXCEPT ![Current] = @ + 1]
      BY <2>1 DEF StepCancelled
    <3> QED BY <1>3, <3>1, TokensType DEF SchedulerTypeOK
  <2>2. CASE emitted' = emitted
    BY <2>2 DEF SchedulerTypeOK
  <2> QED BY <2>1, <2>2 DEF StepFinishes, StepFails
<1> QED BY <1>1, <1>2, <1>4, RemovedKeeps

LEMMA SchedulerStutter ==
    ASSUME SchedulerInv, UNCHANGED schedulerVars
    PROVE  SchedulerInv'
<1> USE DEF SchedulerInv, SchedulerHolds, schedulerVars, handlers, batch
<1>1. OnePlace' /\ QueuedCounts' /\ IsFiniteSet(Counted')
  BY PlacesStay
<1>2. SchedulerTypeOK' /\ OneStepPerBatch' /\ FreedSlotsAreFilled' /\ HandInv'
  BY DEF SchedulerTypeOK, OneStepPerBatch, FreedSlotsAreFilled, HandInv, Members
<1> QED BY <1>1, <1>2

\* However submissions, departures and the task's steps interleave, the batch
\* is walked once per session and no session is lost, doubled or miscounted
\* (run_scheduler, submit, admit and fill_available_slots).
THEOREM BatchIsSound == SchedulerSpec => []SchedulerHolds
<1>1. SchedulerInit => SchedulerInv
  BY SchedulerInitial
<1>2. SchedulerInv /\ [SchedulerNext]_schedulerVars => SchedulerInv'
  <2> SUFFICES ASSUME SchedulerInv, [SchedulerNext]_schedulerVars
               PROVE  SchedulerInv'
    OBVIOUS
  <2>1. CASE \E r \in Session : SubmitCounts(r) \/ SubmitSends(r) \/ SubmitRefused(r) \/ Leave(r)
    BY <2>1, SubmitCountsKeeps, SubmitSendsKeeps, SubmitRefusedKeeps, LeaveKeeps
  <2>2. CASE Take \/ Admit \/ Filled \/ BatchBegins
    BY <2>2, TakeKeeps, AdmitKeeps, FilledKeeps, BatchBeginsKeeps
  <2>3. CASE StepToken \/ StepCancelled \/ StepFinishes \/ StepFails \/ BatchEnds
    BY <2>3, StepTokenKeeps, StepRemovesKeeps, BatchEndsKeeps
  <2>4. CASE UNCHANGED schedulerVars
    BY <2>4, SchedulerStutter
  <2> QED BY <2>1, <2>2, <2>3, <2>4 DEF SchedulerNext
<1>3. SchedulerInv => SchedulerHolds
  BY DEF SchedulerInv
<1> QED BY <1>1, <1>2, <1>3, PTL DEF SchedulerSpec

-----------------------------------------------------------------------------
(* The gateway's requests: the invariant.                                    *)

Phase == Held \cup {"new", "admitted", "choose", "leased", "waiting", "woken",
                    "failed", "reserving", "backoff", "done"}

TaskType ==
    [phase : Phase, pool : 0..MaxPools, lease : Site \cup {NoSite}, permit : BOOLEAN,
     reserved : BOOLEAN, retries : 0..max_retries, late : BOOLEAN, used : Nat, allowed : Nat]

\* What a task holds at each of its phases.
TaskOK(t) ==
    /\ t \in TaskType
    /\ t.phase \in {"leased", "waiting"} => t.lease # NoSite /\ ~t.permit
    /\ t.phase \in Held \cup {"woken"} => t.lease # NoSite /\ t.permit
    /\ t.phase \in {"new", "admitted", "choose", "failed", "backoff", "done"}
          => t.lease = NoSite /\ ~t.permit
    /\ t.permit => t.lease # NoSite
    /\ t.reserved <=> t.phase = "backoff"
    /\ t.phase \notin {"new", "admitted", "done"} => t.pool \in 1..MaxPools
    /\ t.phase \in {"reserving", "backoff"} => t.retries < max_retries

\* An allowance that was loaded was true of the requests so far.
Justified(t) ==
    t.phase = "reserving" => 100 * t.allowed <= retry_budget_percent * original_requests

TasksInv ==
    /\ request \in [Client -> TaskType]
    /\ \A c \in Client : TaskOK(request[c]) /\ Justified(request[c])

\* Whom the counters count.
IsLive(t) == t.phase \notin {"new", "done"}
Queues(t) == t.phase \in {"waiting", "woken"}
Runs(t) == t.permit /\ t.phase # "woken"
Permits(t, s) == t.permit /\ t.lease = s

LiveClients == {c \in Client : IsLive(request[c])}
InQueue == {c \in Client : Queues(request[c])}
InService == {c \in Client : Runs(request[c])}
LeasedAt(s) == {c \in Client : request[c].lease = s}
PermitAt(s) == {c \in Client : Permits(request[c], s)}
Reserving == {c \in Client : request[c].reserved}

CountsInv ==
    /\ IsFiniteSet(LiveClients)
    /\ leases \in [Site -> Int] /\ slots \in [Site -> Int]
    /\ retries_granted \in Nat /\ original_requests \in Nat
    /\ outstanding = Cardinality(LiveClients)
    /\ waiting = Cardinality(InQueue)
    /\ executing = Cardinality(InService)
    /\ \A s \in Site : /\ leases[s] = Cardinality(LeasedAt(s))
                       /\ slots[s] + Cardinality(PermitAt(s)) = worker_concurrency_limit
                       /\ slots[s] >= 0
    /\ retry_slots_used = retries_granted + Cardinality(Reserving)

\* A worker's line has the requests that wait for it, each once.
Waiters(s) == {c \in Client : request[c].phase = "waiting" /\ request[c].lease = s}

LineInv ==
    /\ line \in [Site -> Seq(Client)]
    /\ \A s \in Site : Distinct(line[s]) /\ Members(line[s]) = Waiters(s)

BoundsInv ==
    /\ pool \in 1..MaxPools
    /\ outstanding <= outstanding_capacity /\ waiting <= waiting_room
    /\ RetryBudgetHeld

GatewayInv == TasksInv /\ CountsInv /\ LineInv /\ BoundsInv

-----------------------------------------------------------------------------
(* Counting.                                                                 *)

One(b) == IF b THEN 1 ELSE 0

LEMMA OneIs == \A b : One(b) \in Nat
BY DEF One

LEMMA Carry ==
    ASSUME NEW x \in Int, NEW y \in Int, NEW n \in Int, NEW m \in Int, NEW z \in Int,
           x + m = n + z, y + m = n + z
    PROVE  x = y
OBVIOUS

LEMMA CountOne ==
    ASSUME NEW X, NEW Y, NEW c, IsFiniteSet(X), \A d : d # c => (d \in X <=> d \in Y)
    PROVE  /\ IsFiniteSet(Y) /\ Cardinality(X) \in Nat /\ Cardinality(Y) \in Nat
           /\ Cardinality(Y) + One(c \in X) = Cardinality(X) + One(c \in Y)
<1>1. Cardinality(X) \in Nat
  BY FS_CardinalityType
<1>2. CASE (c \in X) <=> (c \in Y)
  <2>1. Y = X
    BY <1>2
  <2> QED BY <1>1, <2>1
<1>3. CASE c \in X /\ c \notin Y
  <2>1. Y = X \ {c}
    BY <1>3
  <2>2. IsFiniteSet(Y) /\ Cardinality(Y) = Cardinality(X) - 1
    BY <1>3, <2>1, FS_RemoveElement
  <2>3. Cardinality(Y) \in Nat
    BY <2>2, FS_CardinalityType
  <2> QED BY <1>1, <1>3, <2>2, <2>3 DEF One
<1>4. CASE c \notin X /\ c \in Y
  <2>1. Y = X \cup {c}
    BY <1>4
  <2>2. IsFiniteSet(Y) /\ Cardinality(Y) = Cardinality(X) + 1
    BY <1>4, <2>1, FS_AddElement
  <2>3. Cardinality(Y) \in Nat
    BY <2>2, FS_CardinalityType
  <2> QED BY <1>1, <1>4, <2>2, <2>3 DEF One
<1> QED BY <1>2, <1>3, <1>4

LEMMA SiteIsNot == NoSite \notin Site
BY DEF Site, NoSite

\* What is counted is live.
LEMMA CountedAreLive ==
    ASSUME TasksInv, IsFiniteSet(LiveClients)
    PROVE  /\ IsFiniteSet(InQueue) /\ IsFiniteSet(InService) /\ IsFiniteSet(Reserving)
           /\ \A s \in Site : IsFiniteSet(LeasedAt(s)) /\ IsFiniteSet(PermitAt(s))
<1>1. \A c \in Client : TaskOK(request[c])
  BY DEF TasksInv
<1>2. InQueue \subseteq LiveClients
  BY DEF InQueue, LiveClients, Queues, IsLive
<1>3. InService \subseteq LiveClients
  BY <1>1 DEF InService, LiveClients, Runs, IsLive, TaskOK
<1>4. Reserving \subseteq LiveClients
  BY <1>1 DEF Reserving, LiveClients, IsLive, TaskOK
<1>5. \A s \in Site : LeasedAt(s) \subseteq LiveClients
  BY <1>1, SiteIsNot DEF LeasedAt, LiveClients, IsLive, TaskOK
<1>6. \A s \in Site : PermitAt(s) \subseteq LiveClients
  BY <1>1 DEF PermitAt, Permits, LiveClients, IsLive, TaskOK
<1>7. \A X : X \subseteq LiveClients => IsFiniteSet(X)
  BY FS_Subset
<1> QED BY <1>2, <1>3, <1>4, <1>5, <1>6, <1>7

\* What a step does to the tasks: c becomes t and those in W get their slot.
LEMMA MovedIs ==
    ASSUME TasksInv, NEW c \in Client, NEW t, NEW W, Moved(c, t, W), TaskOK(t),
           \A d \in W : d # c /\ d \in Client /\ request[d].phase = "waiting"
    PROVE  /\ request' \in [Client -> TaskType]
           /\ request'[c] = t
           /\ \A d \in Client : d # c /\ d \notin W => request'[d] = request[d]
           /\ \A d \in W : /\ request'[d].phase = "woken" /\ request'[d].permit
                           /\ request'[d].lease = request[d].lease
                           /\ request'[d].reserved = request[d].reserved
           /\ \A d \in Client : TaskOK(request'[d])
<1>1. request' = [d \in Client |->
                  IF d = c THEN t
                  ELSE IF d \in W
                       THEN [request[d] EXCEPT !.phase = "woken", !.permit = TRUE]
                       ELSE request[d]]
  BY DEF Moved
<1>2. /\ request'[c] = t
      /\ \A d \in Client : d # c /\ d \notin W => request'[d] = request[d]
      /\ \A d \in W : request'[d] = [request[d] EXCEPT !.phase = "woken", !.permit = TRUE]
  BY <1>1
<1>3. \A d \in Client : TaskOK(request[d])
  BY DEF TasksInv
<1>4. ASSUME NEW d \in W
      PROVE  /\ request'[d].phase = "woken" /\ request'[d].permit = TRUE
             /\ request'[d].lease = request[d].lease
             /\ request'[d].reserved = request[d].reserved
             /\ TaskOK(request'[d])
  <2> DEFINE u == request[d]
             v == [u EXCEPT !.phase = "woken", !.permit = TRUE]
  <2>1. u \in TaskType /\ u.phase = "waiting" /\ TaskOK(u)
    BY <1>3, <1>4 DEF TaskOK
  <2> HIDE DEF u
  <2>2. v \in TaskType /\ v.phase = "woken" /\ v.permit = TRUE /\ v.lease = u.lease
        /\ v.reserved = u.reserved /\ v.pool = u.pool /\ v.retries = u.retries
    BY <2>1 DEF TaskType, Phase
  <2> HIDE DEF v
  <2>3. TaskOK(v)
    BY <2>1, <2>2 DEF TaskOK, Held
  <2>4. request'[d] = v
    BY <1>2, <1>4 DEF u, v
  <2> QED BY <2>2, <2>3, <2>4 DEF u
<1>5. \A d \in Client : TaskOK(request'[d])
  BY <1>2, <1>3, <1>4
<1>6. request' \in [Client -> TaskType]
  <2>1. \A d \in Client : request'[d] \in TaskType
    BY <1>5 DEF TaskOK
  <2> QED BY <1>1, <2>1
<1> QED BY <1>2, <1>4, <1>5, <1>6

\* The requests that a step of c wakes: nobody, or one that waits.
Wakes(c, W) ==
    W = {} \/ \E w \in Client : W = {w} /\ w # c /\ request[w].phase = "waiting"

\* The counters of a step, against the tasks before and after it.
SharedBalanced(c, t, W) ==
    /\ waiting' + One(Queues(request[c])) = waiting + One(Queues(t))
    /\ executing' + One(Runs(request[c])) = executing + One(Runs(t))
    /\ waiting' \in Int /\ executing' \in Int
    /\ leases' \in [Site -> Int] /\ slots' \in [Site -> Int]
    /\ \A s \in Site :
        /\ leases'[s] + One(request[c].lease = s) = leases[s] + One(t.lease = s)
        /\ slots'[s] + One(Permits(t, s)) + One(\E d \in W : request[d].lease = s)
              = slots[s] + One(Permits(request[c], s))
        /\ slots'[s] >= 0

Balanced(c, t, W) ==
    /\ SharedBalanced(c, t, W)
    /\ outstanding' + One(IsLive(request[c])) = outstanding + One(IsLive(t))
    /\ outstanding' \in Int /\ retry_slots_used' \in Int
    /\ retries_granted' \in Nat /\ original_requests' \in Nat
    /\ retry_slots_used' + One(request[c].reserved) + retries_granted
          = retry_slots_used + One(t.reserved) + retries_granted'

LEMMA CountsKept ==
    ASSUME TasksInv, CountsInv, NEW c \in Client, NEW t, TaskOK(t), NEW W,
           Wakes(c, W), Moved(c, t, W), Balanced(c, t, W)
    PROVE  CountsInv'
<1>1. \A d \in W : d # c /\ d \in Client /\ request[d].phase = "waiting"
  BY DEF Wakes
<1>2. /\ request'[c] = t
      /\ \A d \in Client : d # c /\ d \notin W => request'[d] = request[d]
      /\ \A d \in W : /\ request'[d].phase = "woken" /\ request'[d].permit
                      /\ request'[d].lease = request[d].lease
                      /\ request'[d].reserved = request[d].reserved
  <2>1. TasksInv /\ Moved(c, t, W) /\ TaskOK(t)
    OBVIOUS
  <2> QED BY <1>1, <2>1, MovedIs
<1>3. \A d \in W : ~request[d].permit
  BY <1>1 DEF TasksInv, TaskOK
<1>4. /\ IsFiniteSet(LiveClients) /\ IsFiniteSet(InQueue) /\ IsFiniteSet(InService)
      /\ IsFiniteSet(Reserving)
      /\ \A s \in Site : IsFiniteSet(LeasedAt(s)) /\ IsFiniteSet(PermitAt(s))
  BY CountedAreLive DEF CountsInv
<1>5. /\ IsFiniteSet(LiveClients') /\ Cardinality(LiveClients) \in Nat /\ Cardinality(LiveClients') \in Nat
      /\ Cardinality(LiveClients') + One(IsLive(request[c])) = Cardinality(LiveClients) + One(IsLive(t))
  <2>1. \A d : d # c => (d \in LiveClients <=> d \in LiveClients')
    BY <1>1, <1>2 DEF LiveClients, IsLive
  <2>2. (c \in LiveClients <=> IsLive(request[c])) /\ (c \in LiveClients' <=> IsLive(t))
    BY <1>2 DEF LiveClients, IsLive
  <2>3. /\ IsFiniteSet(LiveClients') /\ Cardinality(LiveClients) \in Nat /\ Cardinality(LiveClients') \in Nat
        /\ Cardinality(LiveClients') + One(c \in LiveClients) = Cardinality(LiveClients) + One(c \in LiveClients')
    BY <1>4, <2>1, CountOne
  <2> QED BY <2>2, <2>3 DEF One
<1>6. /\ Cardinality(InQueue) \in Nat /\ Cardinality(InQueue') \in Nat
      /\ Cardinality(InQueue') + One(Queues(request[c])) = Cardinality(InQueue) + One(Queues(t))
  <2>1. \A d : d # c => (d \in InQueue <=> d \in InQueue')
    BY <1>1, <1>2 DEF InQueue, Queues
  <2>2. (c \in InQueue <=> Queues(request[c])) /\ (c \in InQueue' <=> Queues(t))
    BY <1>2 DEF InQueue, Queues
  <2>3. /\ Cardinality(InQueue) \in Nat /\ Cardinality(InQueue') \in Nat
        /\ Cardinality(InQueue') + One(c \in InQueue)
              = Cardinality(InQueue) + One(c \in InQueue')
    BY <1>4, <2>1, CountOne
  <2> QED BY <2>2, <2>3 DEF One
<1>7. /\ Cardinality(InService) \in Nat /\ Cardinality(InService') \in Nat
      /\ Cardinality(InService') + One(Runs(request[c])) = Cardinality(InService) + One(Runs(t))
  <2>1. \A d : d # c => (d \in InService <=> d \in InService')
    BY <1>1, <1>2, <1>3 DEF InService, Runs
  <2>2. (c \in InService <=> Runs(request[c])) /\ (c \in InService' <=> Runs(t))
    BY <1>2 DEF InService, Runs
  <2>3. /\ Cardinality(InService) \in Nat /\ Cardinality(InService') \in Nat
        /\ Cardinality(InService') + One(c \in InService)
              = Cardinality(InService) + One(c \in InService')
    BY <1>4, <2>1, CountOne
  <2> QED BY <2>2, <2>3 DEF One
<1>8. /\ Cardinality(Reserving) \in Nat /\ Cardinality(Reserving') \in Nat
      /\ Cardinality(Reserving') + One(request[c].reserved)
            = Cardinality(Reserving) + One(t.reserved)
  <2>1. \A d : d # c => (d \in Reserving <=> d \in Reserving')
    BY <1>1, <1>2 DEF Reserving
  <2>2. (c \in Reserving <=> request[c].reserved) /\ (c \in Reserving' <=> t.reserved)
    BY <1>2 DEF Reserving
  <2>3. /\ Cardinality(Reserving) \in Nat /\ Cardinality(Reserving') \in Nat
        /\ Cardinality(Reserving') + One(c \in Reserving)
              = Cardinality(Reserving) + One(c \in Reserving')
    BY <1>4, <2>1, CountOne
  <2> QED BY <2>2, <2>3 DEF One
<1>9. ASSUME NEW s \in Site
      PROVE  /\ Cardinality(LeasedAt(s)) \in Nat /\ Cardinality(LeasedAt(s)') \in Nat
             /\ Cardinality(LeasedAt(s)') + One(request[c].lease = s)
                   = Cardinality(LeasedAt(s)) + One(t.lease = s)
  <2>1. \A d : d # c => (d \in LeasedAt(s) <=> d \in LeasedAt(s)')
    BY <1>1, <1>2 DEF LeasedAt
  <2>2. (c \in LeasedAt(s) <=> request[c].lease = s) /\ (c \in LeasedAt(s)' <=> t.lease = s)
    BY <1>2 DEF LeasedAt
  <2>3. /\ Cardinality(LeasedAt(s)) \in Nat /\ Cardinality(LeasedAt(s)') \in Nat
        /\ Cardinality(LeasedAt(s)') + One(c \in LeasedAt(s))
              = Cardinality(LeasedAt(s)) + One(c \in LeasedAt(s)')
    BY <1>4, <2>1, CountOne
  <2> QED BY <2>2, <2>3 DEF One
\* A slot that is handed over is held by two after another: c, then the woken.
<1>10. ASSUME NEW s \in Site
       PROVE  /\ Cardinality(PermitAt(s)) \in Nat /\ Cardinality(PermitAt(s)') \in Nat
              /\ Cardinality(PermitAt(s)') + One(Permits(request[c], s))
                    = Cardinality(PermitAt(s)) + One(Permits(t, s))
                      + One(\E d \in W : request[d].lease = s)
  <2> DEFINE Z == {d \in PermitAt(s)' : d \notin W}
  <2>1. \A d : d # c => (d \in PermitAt(s) <=> d \in Z)
    BY <1>1, <1>2, <1>3 DEF PermitAt, Permits
  <2>2. (c \in PermitAt(s) <=> Permits(request[c], s)) /\ (c \in Z <=> Permits(t, s))
    BY <1>1, <1>2 DEF PermitAt, Permits
  <2> HIDE DEF Z
  <2>3. /\ IsFiniteSet(Z) /\ Cardinality(PermitAt(s)) \in Nat /\ Cardinality(Z) \in Nat
        /\ Cardinality(Z) + One(c \in PermitAt(s)) = Cardinality(PermitAt(s)) + One(c \in Z)
    BY <1>4, <2>1, CountOne
  <2>4. CASE W = {}
    <3>1. Z = PermitAt(s)'
      BY <2>4 DEF Z
    <3> QED BY <2>2, <2>3, <2>4, <3>1 DEF One
  <2>5. ASSUME NEW w \in Client, W = {w}
        PROVE  /\ Cardinality(PermitAt(s)') \in Nat
               /\ Cardinality(PermitAt(s)') = Cardinality(Z)
                      + One(\E d \in W : request[d].lease = s)
    <3>1. \A d : d # w => (d \in Z <=> d \in PermitAt(s)')
      BY <2>5 DEF Z
    <3>2. w \notin Z /\ (w \in PermitAt(s)' <=> request[w].lease = s)
      BY <1>2, <2>5 DEF Z, PermitAt, Permits
    <3>3. /\ Cardinality(PermitAt(s)') \in Nat
          /\ Cardinality(PermitAt(s)') + One(w \in Z) = Cardinality(Z) + One(w \in PermitAt(s)')
      BY <2>3, <3>1, CountOne
    <3>4. (\E d \in W : request[d].lease = s) <=> request[w].lease = s
      BY <2>5
    <3> QED BY <2>3, <3>2, <3>3, <3>4 DEF One
  <2> QED BY <2>2, <2>3, <2>4, <2>5 DEF One, Wakes
<1>11. /\ outstanding' = Cardinality(LiveClients') /\ waiting' = Cardinality(InQueue')
       /\ executing' = Cardinality(InService')
  <2>1. outstanding' = Cardinality(LiveClients')
    <3>1. /\ outstanding' + One(IsLive(request[c])) = Cardinality(LiveClients) + One(IsLive(t))
          /\ outstanding' \in Int
      BY DEF Balanced, SharedBalanced, CountsInv
    <3> QED BY <1>5, <3>1, Carry, OneIs
  <2>2. waiting' = Cardinality(InQueue')
    <3>1. /\ waiting' + One(Queues(request[c])) = Cardinality(InQueue) + One(Queues(t))
          /\ waiting' \in Int
      BY DEF Balanced, SharedBalanced, CountsInv
    <3> QED BY <1>6, <3>1, Carry, OneIs
  <2>3. executing' = Cardinality(InService')
    <3>1. /\ executing' + One(Runs(request[c])) = Cardinality(InService) + One(Runs(t))
          /\ executing' \in Int
      BY DEF Balanced, SharedBalanced, CountsInv
    <3> QED BY <1>7, <3>1, Carry, OneIs
  <2> QED BY <2>1, <2>2, <2>3
<1>12. retry_slots_used' = retries_granted' + Cardinality(Reserving')
  <2>1. /\ retry_slots_used' + One(request[c].reserved) + retries_granted
              = retry_slots_used + One(t.reserved) + retries_granted'
        /\ retry_slots_used = retries_granted + Cardinality(Reserving)
        /\ retry_slots_used' \in Int /\ retries_granted \in Nat /\ retries_granted' \in Nat
    BY DEF Balanced, SharedBalanced, CountsInv
  <2>2. PICK m2 \in Int : m2 = Cardinality(Reserving')
    BY <1>8
  <2>3. PICK n1 \in Int, n2 \in Int : n1 = One(request[c].reserved) /\ n2 = One(t.reserved)
    BY DEF One
  <2>4. PICK m1 \in Int : m1 = Cardinality(Reserving)
    BY <1>8
  <2>5. m2 + n1 = m1 + n2
    BY <1>8, <2>2, <2>3, <2>4
  <2>6. retry_slots_used' + n1 + retries_granted = retry_slots_used + n2 + retries_granted'
    BY <2>1, <2>3
  <2>7. retry_slots_used = retries_granted + m1
    BY <2>1, <2>4
  <2>8. retry_slots_used' \in Int /\ retries_granted \in Int /\ retries_granted' \in Int
    BY <2>1
  <2>9. PICK u \in Int, h \in Int, g \in Int :
              u = retry_slots_used' /\ h = retries_granted' /\ g = retries_granted
    BY <2>8
  <2>10. u + n1 + g = g + m1 + n2 + h
    BY <2>6, <2>7, <2>9
  <2>11. u = h + m2
    BY <2>5, <2>10
  <2> QED BY <2>2, <2>9, <2>11
<1>13. ASSUME NEW s \in Site
       PROVE  /\ leases'[s] = Cardinality(LeasedAt(s)')
              /\ slots'[s] + Cardinality(PermitAt(s)') = worker_concurrency_limit
              /\ slots'[s] >= 0
  <2>1. /\ leases[s] = Cardinality(LeasedAt(s)) /\ slots[s] \in Int /\ slots'[s] \in Int
        /\ leases'[s] \in Int
        /\ slots[s] + Cardinality(PermitAt(s)) = worker_concurrency_limit
        /\ leases'[s] + One(request[c].lease = s) = leases[s] + One(t.lease = s)
        /\ slots'[s] + One(Permits(t, s)) + One(\E d \in W : request[d].lease = s)
              = slots[s] + One(Permits(request[c], s))
        /\ slots'[s] >= 0
    <3>1. /\ leases[s] = Cardinality(LeasedAt(s)) /\ slots[s] \in Int
          /\ slots[s] + Cardinality(PermitAt(s)) = worker_concurrency_limit
      BY DEF CountsInv
    <3> QED BY <3>1 DEF Balanced, SharedBalanced
  <2>2. leases'[s] = Cardinality(LeasedAt(s)')
    BY <1>9, <2>1 DEF One
  <2> DEFINE n1 == One(Permits(t, s))
             n2 == One(\E d \in W : request[d].lease = s)
             n3 == One(Permits(request[c], s))
  <2>3. n1 \in Int /\ n2 \in Int /\ n3 \in Int
    BY DEF One
  <2> HIDE DEF n1, n2, n3
  <2>4. /\ Cardinality(PermitAt(s)) \in Nat /\ Cardinality(PermitAt(s)') \in Nat
        /\ Cardinality(PermitAt(s)') + n3 = Cardinality(PermitAt(s)) + n1 + n2
    BY <1>10 DEF n1, n2, n3
  <2>5. slots'[s] + n1 + n2 = slots[s] + n3
    BY <2>1 DEF n1, n2, n3
  <2>6. slots'[s] + Cardinality(PermitAt(s)') = worker_concurrency_limit
    BY <2>1, <2>3, <2>4, <2>5, RequestConfig
  <2> QED BY <2>1, <2>2, <2>6
<1> QED BY <1>5, <1>11, <1>12, <1>13 DEF CountsInv, Balanced, SharedBalanced

-----------------------------------------------------------------------------
(* The lines.                                                                *)

\* A request that gives up its place takes nobody else's.
LEMMA UnlinkedIs ==
    ASSUME NEW S, NEW q \in Seq(S), Distinct(q), NEW c \in Members(q)
    PROVE  /\ Unlinked(q, c) \in Seq(S) /\ Distinct(Unlinked(q, c))
           /\ Members(Unlinked(q, c)) = Members(q) \ {c}
<1> DEFINE p == CHOOSE i \in DOMAIN q : q[i] = c
           n == Len(q)
           u == [j \in 1..(n - 1) |-> IF j < p THEN q[j] ELSE q[j + 1]]
<1>1. DOMAIN q = 1..n /\ n \in Nat /\ \A i \in 1..n : q[i] \in S
  OBVIOUS
<1>2. p \in 1..n /\ q[p] = c
  <2>1. \E i \in DOMAIN q : q[i] = c
    BY DEF Members
  <2> QED BY <1>1, <2>1
<1> HIDE DEF p, n
<1>3. \A i \in 1..n : q[i] = c => i = p
  BY <1>1, <1>2 DEF Distinct
<1>4. /\ DOMAIN u = 1..(n - 1) /\ n - 1 \in Nat
      /\ \A j \in 1..(n - 1) : u[j] = IF j < p THEN q[j] ELSE q[j + 1]
      /\ \A j \in 1..(n - 1) : j \in 1..n /\ j + 1 \in 1..n
  BY <1>1, <1>2
<1>5. u \in Seq(S)
  <2>1. \A j \in 1..(n - 1) : u[j] \in S
    BY <1>1, <1>2, <1>4
  <2>2. u \in [1..(n - 1) -> S]
    BY <2>1
  <2> QED BY <1>4, <2>2, SeqDef
<1> HIDE DEF u
<1>6. \A y : y \in Members(u) => y \in Members(q) \ {c}
  <2>1. SUFFICES ASSUME NEW j \in 1..(n - 1) PROVE u[j] \in Members(q) /\ u[j] # c
    BY <1>4 DEF Members
  <2>2. CASE j < p
    <3>1. u[j] = q[j] /\ j \in 1..n /\ j # p
      BY <1>2, <1>4, <2>2
    <3> QED BY <1>1, <1>3, <3>1 DEF Members
  <2>3. CASE ~(j < p)
    <3>1. u[j] = q[j + 1] /\ j + 1 \in 1..n /\ j + 1 # p
      BY <1>2, <1>4, <2>3
    <3> QED BY <1>1, <1>3, <3>1 DEF Members
  <2> QED BY <2>2, <2>3
<1>7. \A y : y \in Members(q) /\ y # c => y \in Members(u)
  <2>1. SUFFICES ASSUME NEW i \in 1..n, i # p PROVE q[i] \in Members(u)
    BY <1>1, <1>2 DEF Members
  <2>2. CASE i < p
    <3>1. i \in 1..(n - 1) /\ u[i] = q[i]
      BY <1>1, <1>2, <1>4, <2>2
    <3> QED BY <1>4, <3>1 DEF Members
  <2>3. CASE ~(i < p)
    <3>1. i - 1 \in 1..(n - 1) /\ ~(i - 1 < p) /\ (i - 1) + 1 = i
      BY <1>1, <1>2, <2>1, <2>3
    <3>2. u[i - 1] = q[i]
      BY <1>4, <3>1
    <3> QED BY <1>4, <3>1, <3>2 DEF Members
  <2> QED BY <2>2, <2>3
<1>8. Distinct(u)
  <2>1. SUFFICES ASSUME NEW i \in 1..(n - 1), NEW j \in 1..(n - 1), u[i] = u[j] PROVE i = j
    BY <1>4 DEF Distinct
  <2>2. \A a, b \in 1..n : q[a] = q[b] => a = b
    BY <1>1 DEF Distinct
  <2>3. PICK a \in 1..n : u[i] = q[a] /\ ((i < p /\ a = i) \/ (~(i < p) /\ a = i + 1))
    BY <1>4
  <2>4. PICK b \in 1..n : u[j] = q[b] /\ ((j < p /\ b = j) \/ (~(j < p) /\ b = j + 1))
    BY <1>4
  <2>5. a = b
    BY <2>1, <2>2, <2>3, <2>4
  <2> QED BY <1>1, <1>2, <2>3, <2>4, <2>5
<1>9. Unlinked(q, c) = u
  BY DEF Unlinked, u, p, n
<1> QED BY <1>5, <1>6, <1>7, <1>8, <1>9

\* The lines of a step, against the task after it.
Lined(c, t, W) ==
    /\ line' \in [Site -> Seq(Client)]
    /\ \A s \in Site :
        /\ Distinct(line'[s])
        /\ \A d : d \in Members(line'[s]) <=>
                    \/ d \in Members(line[s]) /\ d # c /\ d \notin W
                    \/ d = c /\ t.phase = "waiting" /\ t.lease = s

LEMMA LinesKept ==
    ASSUME TasksInv, LineInv, NEW c \in Client, NEW t, TaskOK(t), NEW W,
           Wakes(c, W), Moved(c, t, W), Lined(c, t, W)
    PROVE  LineInv'
<1>1. \A d \in W : d # c /\ d \in Client /\ request[d].phase = "waiting"
  BY DEF Wakes
<1>2. /\ request'[c] = t
      /\ \A d \in Client : d # c /\ d \notin W => request'[d] = request[d]
      /\ \A d \in W : request'[d].phase = "woken"
  BY <1>1, MovedIs
<1>3. ASSUME NEW s \in Site PROVE Members(line'[s]) = Waiters(s)'
  <2>1. \A d : d \in Members(line[s]) <=>
                 d \in Client /\ request[d].phase = "waiting" /\ request[d].lease = s
    BY DEF LineInv, Waiters
  <2>2. \A d : d \in Members(line'[s]) <=>
                 \/ d \in Members(line[s]) /\ d # c /\ d \notin W
                 \/ d = c /\ t.phase = "waiting" /\ t.lease = s
    BY DEF Lined
  <2>3. \A d : d \in Members(line'[s]) <=>
                 d \in Client /\ request'[d].phase = "waiting" /\ request'[d].lease = s
    BY <1>1, <1>2, <2>1, <2>2
  <2> QED BY <2>3 DEF Waiters
<1> QED BY <1>3 DEF Lined, LineInv

\* A step that touches no line and in which c does not wait, before or after.
LEMMA LinesStay ==
    ASSUME TasksInv, LineInv, NEW c \in Client, NEW t, line' = line,
           request[c].phase # "waiting", t.phase # "waiting"
    PROVE  Lined(c, t, {})
<1>1. \A s \in Site : c \notin Members(line[s])
  BY DEF LineInv, Waiters
<1> QED BY <1>1 DEF Lined, LineInv

-----------------------------------------------------------------------------
(* Giving things back.                                                       *)

LEMMA OneIf == One(TRUE) = 1 /\ One(FALSE) = 0
BY DEF One

\* A task lets go of its slot and lease: the slot goes to the head of the line,
\* or back to the worker.
LEMMA LetGoIs ==
    ASSUME TasksInv, CountsInv, LineInv, NEW c \in Client, NEW t0, NEW t,
           t = [t0 EXCEPT !.lease = NoSite, !.permit = FALSE],
           t.phase \in {"done", "failed", "backoff"}, t.lease = NoSite, t.permit = FALSE,
           LetGo(c, t0)
    PROVE  \E W : Wakes(c, W) /\ Moved(c, t, W) /\ SharedBalanced(c, t, W) /\ Lined(c, t, W)
<1>1. PICK r : r = request[c]
  OBVIOUS
<1>2. PICK s : s = r.lease
  OBVIOUS
<1>3. TaskOK(r) /\ r \in TaskType
  BY <1>1 DEF TasksInv, TaskOK
<1>4. /\ leases' = IF s = NoSite THEN leases ELSE [leases EXCEPT ![s] = @ - 1]
      /\ executing' = IF r.permit /\ r.phase # "woken" THEN executing - 1 ELSE executing
      /\ waiting' = IF r.phase \in {"waiting", "woken"} THEN waiting - 1 ELSE waiting
      /\ r.permit => Released(s) /\ Moved(c, t, Woken(s))
      /\ ~r.permit => /\ slots' = slots /\ Moved(c, t, {})
                      /\ line' = IF r.phase = "waiting"
                                 THEN [line EXCEPT ![s] = Unlinked(@, c)] ELSE line
  BY <1>1, <1>2 DEF LetGo
<1>5. /\ leases \in [Site -> Int] /\ slots \in [Site -> Int] /\ waiting \in Int
      /\ executing \in Int /\ \A x \in Site : slots[x] >= 0
  <2>1. IsFiniteSet(InQueue) /\ IsFiniteSet(InService)
    BY CountedAreLive DEF CountsInv
  <2>2. Cardinality(InQueue) \in Nat /\ Cardinality(InService) \in Nat
    BY <2>1, FS_CardinalityType
  <2> QED BY <2>2 DEF CountsInv
<1>6. /\ line \in [Site -> Seq(Client)]
      /\ \A x \in Site : /\ Distinct(line[x])
                         /\ \A d : d \in Members(line[x]) <=>
                              d \in Client /\ request[d].phase = "waiting" /\ request[d].lease = x
  BY DEF LineInv, Waiters
<1>7. s \in Site \cup {NoSite} /\ (s = NoSite => ~r.permit /\ r.phase # "waiting")
  BY <1>2, <1>3 DEF TaskOK, TaskType
<1>8. \A x : ~Permits(t, x)
  BY DEF Permits
<1>9. ~Queues(t) /\ ~Runs(t) /\ \A x \in Site : t.lease # x
  BY SiteIsNot DEF Queues, Runs
<1>10. /\ waiting' \in Int /\ executing' \in Int /\ leases' \in [Site -> Int]
       /\ waiting' + One(Queues(request[c])) = waiting + One(Queues(t))
       /\ executing' + One(Runs(request[c])) = executing + One(Runs(t))
       /\ \A x \in Site : leases'[x] + One(request[c].lease = x) = leases[x] + One(t.lease = x)
  <2>1. waiting' \in Int /\ waiting' + One(Queues(request[c])) = waiting + One(Queues(t))
    <3>1. Queues(request[c]) <=> r.phase \in {"waiting", "woken"}
      BY <1>1 DEF Queues
    <3> QED BY <1>4, <1>5, <1>9, <3>1 DEF One
  <2>2. executing' \in Int /\ executing' + One(Runs(request[c])) = executing + One(Runs(t))
    <3>1. Runs(request[c]) <=> r.permit /\ r.phase # "woken"
      BY <1>1 DEF Runs
    <3> QED BY <1>4, <1>5, <1>9, <3>1 DEF One
  <2>3. leases' \in [Site -> Int]
    <3>1. leases \in [Site -> Int] /\ (s # NoSite => s \in Site /\ leases[s] - 1 \in Int)
      BY <1>5, <1>7
    <3>2. leases' = IF s = NoSite THEN leases ELSE [leases EXCEPT ![s] = leases[s] - 1]
      BY <1>4
    <3> QED BY <3>1, <3>2
  <2>4. \A x \in Site : leases'[x] + One(request[c].lease = x) = leases[x] + One(t.lease = x)
    BY <1>1, <1>2, <1>4, <1>5, <1>7, <1>9 DEF One
  <2> QED BY <2>1, <2>2, <2>3, <2>4
<1>11. ASSUME r.permit, HandsOver(s)
       PROVE  \E W : Wakes(c, W) /\ Moved(c, t, W) /\ SharedBalanced(c, t, W) /\ Lined(c, t, W)
  <2>1. s \in Site
    BY <1>7, <1>11
  <2>2. line[s] \in Seq(Client) /\ line[s] # << >> /\ Distinct(line[s])
    BY <1>6, <1>11, <2>1 DEF HandsOver
  <2>3. PICK w : w = Head(line[s])
    OBVIOUS
  <2>4. /\ Tail(line[s]) \in Seq(Client) /\ w \in Client /\ Distinct(Tail(line[s]))
        /\ Members(line[s]) = Members(Tail(line[s])) \cup {w} /\ w \notin Members(Tail(line[s]))
    BY <2>2, <2>3, TailIs
  <2>5. request[w].phase = "waiting" /\ request[w].lease = s
    BY <1>6, <2>1, <2>4
  <2>6. r.phase # "waiting" /\ w # c
    BY <1>1, <1>3, <1>11, <2>5 DEF TaskOK
  <2>7. Wakes(c, {w}) /\ Moved(c, t, {w})
    BY <1>4, <1>11, <2>3, <2>4, <2>5, <2>6 DEF Wakes, Woken
  <2>8. slots' = slots /\ line' = [line EXCEPT ![s] = Tail(line[s])]
    BY <1>4, <1>11 DEF Released
  <2>9. \A x \in Site : slots'[x] + One(Permits(t, x)) + One(\E d \in {w} : request[d].lease = x)
                          = slots[x] + One(Permits(request[c], x))
    <3>1. \A x \in Site : (\E d \in {w} : request[d].lease = x) <=> x = s
      BY <2>5
    <3>2. \A x \in Site : Permits(request[c], x) <=> x = s
      BY <1>1, <1>2, <1>11 DEF Permits
    <3> QED BY <1>5, <1>8, <2>8, <3>1, <3>2 DEF One
  <2>10. SharedBalanced(c, t, {w})
    BY <1>5, <1>10, <2>8, <2>9 DEF SharedBalanced
  <2>11. line' \in [Site -> Seq(Client)]
    BY <1>6, <2>1, <2>4, <2>8
  <2>12. ASSUME NEW x \in Site
         PROVE  /\ Distinct(line'[x])
                /\ \A d : d \in Members(line'[x]) <=> d \in Members(line[x]) /\ d # c /\ d # w
    <3>1. c \notin Members(line[x])
      BY <1>1, <1>6, <2>6
    <3>2. CASE x = s
      <4>1. line'[x] = Tail(line[s])
        BY <1>6, <2>1, <2>8, <3>2
      <4> QED BY <2>4, <3>1, <3>2, <4>1
    <3>3. CASE x # s
      <4>1. line'[x] = line[x]
        BY <1>6, <2>8, <3>3
      <4>2. w \notin Members(line[x])
        BY <1>6, <2>5, <3>3
      <4> QED BY <1>6, <3>1, <4>1, <4>2
    <3> QED BY <3>2, <3>3
  <2>13. Lined(c, t, {w})
    BY <2>11, <2>12 DEF Lined
  <2> QED BY <2>7, <2>10, <2>13
<1>12. ASSUME r.permit, ~HandsOver(s)
       PROVE  \E W : Wakes(c, W) /\ Moved(c, t, W) /\ SharedBalanced(c, t, W) /\ Lined(c, t, W)
  <2>1. s \in Site /\ r.phase # "waiting"
    BY <1>3, <1>7, <1>12 DEF TaskOK
  <2>2. slots' = [slots EXCEPT ![s] = slots[s] + 1] /\ line' = line
    BY <1>4, <1>12 DEF Released
  <2>3. Wakes(c, {}) /\ Moved(c, t, {})
    BY <1>4, <1>12 DEF Wakes, Woken
  <2>4. slots' \in [Site -> Int] /\ \A x \in Site : slots'[x] = slots[x] + (IF x = s THEN 1 ELSE 0)
    BY <1>5, <2>1, <2>2
  <2>5. \A x \in Site : Permits(request[c], x) <=> x = s
    BY <1>1, <1>2, <1>12 DEF Permits
  <2>6. \A x \in Site : /\ slots'[x] + One(Permits(t, x)) + One(\E d \in {} : request[d].lease = x)
                             = slots[x] + One(Permits(request[c], x))
                        /\ slots'[x] >= 0
    BY <1>5, <1>8, <2>4, <2>5 DEF One
  <2>7. SharedBalanced(c, t, {})
    BY <1>10, <2>4, <2>6 DEF SharedBalanced
  <2>8. Lined(c, t, {})
    BY <1>1, <2>1, <2>2, LinesStay
  <2> QED BY <2>3, <2>7, <2>8
<1>13. ASSUME ~r.permit
       PROVE  \E W : Wakes(c, W) /\ Moved(c, t, W) /\ SharedBalanced(c, t, W) /\ Lined(c, t, W)
  <2>1. Wakes(c, {}) /\ Moved(c, t, {}) /\ slots' = slots
    BY <1>4, <1>13 DEF Wakes
  <2>2. \A x \in Site : slots'[x] + One(Permits(t, x)) + One(\E d \in {} : request[d].lease = x)
                             = slots[x] + One(Permits(request[c], x))
    <3>1. \A x \in Site : ~Permits(request[c], x)
      BY <1>1, <1>13 DEF Permits
    <3> QED BY <1>5, <1>8, <2>1, <3>1 DEF One
  <2>3. SharedBalanced(c, t, {})
    BY <1>5, <1>10, <2>1, <2>2 DEF SharedBalanced
  <2>4. CASE r.phase # "waiting"
    <3>1. line' = line
      BY <1>4, <1>13, <2>4
    <3>2. Lined(c, t, {})
      BY <1>1, <2>4, <3>1, LinesStay
    <3> QED BY <2>1, <2>3, <3>2
  <2>5. CASE r.phase = "waiting"
    <3>1. s \in Site /\ line' = [line EXCEPT ![s] = Unlinked(line[s], c)]
      BY <1>4, <1>7, <1>13, <2>5
    <3>2. line[s] \in Seq(Client) /\ Distinct(line[s]) /\ c \in Members(line[s])
      BY <1>1, <1>2, <1>6, <2>5, <3>1
    <3>3. /\ Unlinked(line[s], c) \in Seq(Client) /\ Distinct(Unlinked(line[s], c))
          /\ Members(Unlinked(line[s], c)) = Members(line[s]) \ {c}
      BY <3>2, UnlinkedIs
    <3>4. line' \in [Site -> Seq(Client)]
      BY <1>6, <3>1, <3>3
    <3>5. ASSUME NEW x \in Site
          PROVE  /\ Distinct(line'[x])
                 /\ \A d : d \in Members(line'[x]) <=> d \in Members(line[x]) /\ d # c
      <4>1. CASE x = s
        <5>1. line'[x] = Unlinked(line[s], c)
          BY <1>6, <3>1, <4>1
        <5> QED BY <3>3, <4>1, <5>1
      <4>2. CASE x # s
        <5>1. line'[x] = line[x] /\ c \notin Members(line[x])
          BY <1>1, <1>2, <1>6, <3>1, <4>2
        <5> QED BY <1>6, <5>1
      <4> QED BY <4>1, <4>2
    <3>6. Lined(c, t, {})
      BY <3>4, <3>5 DEF Lined
    <3> QED BY <2>1, <2>3, <3>6
  <2> QED BY <2>4, <2>5
<1> QED BY <1>11, <1>12, <1>13

-----------------------------------------------------------------------------
(* Steps.                                                                    *)

LEMMA BudgetGrows ==
    ASSUME NEW p \in Nat, NEW n \in Nat, NEW m \in Nat, n <= m
    PROVE  p * n <= p * m
OBVIOUS

\* A step of c that balances the counters and keeps the lines and the bounds.
LEMMA StepKept ==
    ASSUME GatewayInv, NEW c \in Client, NEW t, TaskOK(t), NEW W, Wakes(c, W),
           Moved(c, t, W), Balanced(c, t, W), Lined(c, t, W),
           t.phase = "reserving" => 100 * t.allowed <= retry_budget_percent * original_requests',
           original_requests <= original_requests', BoundsInv'
    PROVE  GatewayInv'
<1>1. TasksInv /\ CountsInv /\ LineInv
  BY DEF GatewayInv
<1>2. CountsInv' /\ LineInv'
  BY <1>1, CountsKept, LinesKept
<1>3. \A d \in W : d # c /\ d \in Client /\ request[d].phase = "waiting"
  BY DEF Wakes
<1>4. /\ request' \in [Client -> TaskType]
      /\ request'[c] = t
      /\ \A d \in Client : d # c /\ d \notin W => request'[d] = request[d]
      /\ \A d \in W : request'[d].phase = "woken"
      /\ \A d \in Client : TaskOK(request'[d])
  BY <1>1, <1>3, MovedIs
<1>5. retry_budget_percent * original_requests <= retry_budget_percent * original_requests'
  <2>1. original_requests \in Nat /\ original_requests' \in Nat /\ retry_budget_percent \in Nat
    BY <1>1, RequestConfig DEF CountsInv, Balanced
  <2> QED BY <2>1, BudgetGrows
<1>6. ASSUME NEW d \in Client PROVE Justified(request[d])'
  <2>1. CASE d = c
    BY <1>4, <2>1 DEF Justified
  <2>2. CASE d \in W
    BY <1>4, <2>2 DEF Justified
  <2>3. CASE d # c /\ d \notin W
    <3>1. PICK u : u = request[d]
      OBVIOUS
    <3>2. request'[d] = u /\ u \in TaskType /\ Justified(u)
      BY <1>1, <1>4, <2>3, <3>1 DEF TasksInv
    <3>3. u.allowed \in Nat
      BY <3>2 DEF TaskType
    <3>4. original_requests \in Nat /\ original_requests' \in Nat /\ retry_budget_percent \in Nat
      BY <1>1, RequestConfig DEF CountsInv, Balanced
    <3> QED BY <1>5, <3>2, <3>3, <3>4 DEF Justified
  <2> QED BY <2>1, <2>2, <2>3
<1>7. TasksInv'
  BY <1>4, <1>6 DEF TasksInv
<1> QED BY <1>2, <1>7 DEF GatewayInv

\* Facts about the counters.
LEMMA CountersAre ==
    ASSUME GatewayInv
    PROVE  /\ outstanding \in Nat /\ waiting \in Nat /\ executing \in Nat
           /\ retry_slots_used \in Nat /\ retries_granted \in Nat /\ original_requests \in Nat
           /\ leases \in [Site -> Int] /\ slots \in [Site -> Int]
           /\ \A s \in Site : slots[s] >= 0
           /\ outstanding_capacity \in Nat /\ waiting_room \in Nat /\ retry_budget_percent \in Nat
<1>1. CountsInv /\ TasksInv
  BY DEF GatewayInv
<1>2. IsFiniteSet(LiveClients) /\ IsFiniteSet(InQueue) /\ IsFiniteSet(InService) /\ IsFiniteSet(Reserving)
  BY <1>1, CountedAreLive DEF CountsInv
<1>3. /\ Cardinality(LiveClients) \in Nat /\ Cardinality(InQueue) \in Nat
      /\ Cardinality(InService) \in Nat /\ Cardinality(Reserving) \in Nat
  BY <1>2, FS_CardinalityType
<1>4. outstanding_capacity \in Nat
  <2>1. Cardinality(Target) \in Nat
    BY RequestConfig, FS_CardinalityType
  <2>2. worker_concurrency_limit \in Nat /\ waiting_room \in Nat
    BY RequestConfig
  <2>3. PICK n \in Nat : n = Cardinality(Target)
    BY <2>1
  <2>4. n * worker_concurrency_limit + waiting_room \in Nat
    BY <2>2
  <2> QED BY <2>3, <2>4 DEF outstanding_capacity
<1>5. retry_slots_used \in Nat
  BY <1>1, <1>3 DEF CountsInv
<1> QED BY <1>1, <1>3, <1>4, <1>5, RequestConfig DEF CountsInv

\* The task of c moves on, with what it holds and its place in line.
LEMMA SharesNothing ==
    ASSUME GatewayInv, NEW c \in Client, NEW t, UNCHANGED shared,
           t.lease = request[c].lease, t.permit = request[c].permit,
           t.phase = "waiting" <=> request[c].phase = "waiting",
           t.phase = "woken" <=> request[c].phase = "woken"
    PROVE  SharedBalanced(c, t, {}) /\ Lined(c, t, {}) /\ Wakes(c, {})
<1>1. /\ slots' = slots /\ line' = line /\ leases' = leases
      /\ waiting' = waiting /\ executing' = executing
  BY DEF shared
<1>2. /\ waiting \in Nat /\ executing \in Nat
      /\ leases \in [Site -> Int] /\ slots \in [Site -> Int]
      /\ \A s \in Site : slots[s] >= 0
  BY CountersAre
<1>3. Queues(t) = Queues(request[c]) /\ Runs(t) = Runs(request[c])
  BY DEF Queues, Runs
<1>4. \A s : Permits(t, s) = Permits(request[c], s)
  BY DEF Permits
<1>5. SharedBalanced(c, t, {})
  BY <1>1, <1>2, <1>3, <1>4, OneIs DEF SharedBalanced, One
<1>6. Lined(c, t, {})
  <2>1. \A s \in Site : c \in Members(line[s]) <=> t.phase = "waiting" /\ t.lease = s
    BY DEF GatewayInv, LineInv, Waiters
  <2> QED BY <1>1, <2>1 DEF Lined, GatewayInv, LineInv
<1> QED BY <1>5, <1>6 DEF Wakes

\* The task of c moves on and nothing else changes.
LEMMA GoesKept ==
    ASSUME GatewayInv, NEW c \in Client, NEW t, TaskOK(t), Goes(c, t), Justified(t),
           t.lease = request[c].lease, t.permit = request[c].permit,
           t.reserved = request[c].reserved, IsLive(t), IsLive(request[c]),
           t.phase = "waiting" <=> request[c].phase = "waiting",
           t.phase = "woken" <=> request[c].phase = "woken"
    PROVE  GatewayInv'
<1>1. /\ Moved(c, t, {}) /\ pool' = pool /\ UNCHANGED shared /\ outstanding' = outstanding
      /\ original_requests' = original_requests /\ retry_slots_used' = retry_slots_used
      /\ retries_granted' = retries_granted /\ waiting' = waiting
  BY DEF Goes, shared, budget
<1>2. /\ outstanding \in Nat /\ retry_slots_used \in Nat /\ retries_granted \in Nat
      /\ original_requests \in Nat
  BY CountersAre
<1>3. SharedBalanced(c, t, {}) /\ Lined(c, t, {}) /\ Wakes(c, {})
  BY <1>1, SharesNothing
<1>4. Balanced(c, t, {})
  BY <1>1, <1>2, <1>3 DEF Balanced, One
<1>5. BoundsInv'
  BY <1>1 DEF GatewayInv, BoundsInv, RetryBudgetHeld, outstanding_capacity
<1>6. t.phase = "reserving" => 100 * t.allowed <= retry_budget_percent * original_requests'
  BY <1>1 DEF Justified
<1> QED BY <1>1, <1>2, <1>3, <1>4, <1>5, <1>6, StepKept

\* The task of c lets go, and becomes t.
LEMMA LetGoKept ==
    ASSUME GatewayInv, NEW c \in Client, NEW t0, NEW t, TaskOK(t),
           t = [t0 EXCEPT !.lease = NoSite, !.permit = FALSE], LetGo(c, t0),
           t.phase \in {"done", "failed", "backoff"}, t.lease = NoSite, t.permit = FALSE,
           outstanding' \in Int, outstanding' <= outstanding,
           outstanding' + One(IsLive(request[c])) = outstanding + One(IsLive(t)),
           retry_slots_used' \in Int,
           retry_slots_used' + One(request[c].reserved) = retry_slots_used + One(t.reserved),
           pool' = pool, original_requests' = original_requests,
           retries_granted' = retries_granted, RetryBudgetHeld'
    PROVE  GatewayInv'
<1>1. TasksInv /\ CountsInv /\ LineInv /\ BoundsInv
  BY DEF GatewayInv
<1>2. PICK W : Wakes(c, W) /\ Moved(c, t, W) /\ SharedBalanced(c, t, W) /\ Lined(c, t, W)
  BY <1>1, LetGoIs
<1>3. /\ outstanding \in Nat /\ waiting \in Nat /\ retry_slots_used \in Nat
      /\ retries_granted \in Nat /\ original_requests \in Nat
      /\ outstanding_capacity \in Nat /\ waiting_room \in Nat
  BY CountersAre
<1>4. Balanced(c, t, W)
  <2>1. PICK n1 \in Int, n2 \in Int : n1 = One(request[c].reserved) /\ n2 = One(t.reserved)
    BY OneIs
  <2>2. PICK u \in Int, v \in Int, g \in Int :
            u = retry_slots_used' /\ v = retry_slots_used /\ g = retries_granted
    BY <1>3
  <2>3. u + n1 = v + n2
    BY <2>1, <2>2
  <2>4. u + n1 + g = v + n2 + g
    BY <2>3
  <2>5. retry_slots_used' + One(request[c].reserved) + retries_granted
           = retry_slots_used + One(t.reserved) + retries_granted'
    BY <2>1, <2>2, <2>4
  <2> QED BY <1>2, <1>3, <2>5 DEF Balanced
<1>5. waiting' <= waiting /\ waiting' \in Int
  <2>1. waiting' \in Int /\ waiting' + One(Queues(request[c])) = waiting + One(Queues(t))
    BY <1>2 DEF SharedBalanced
  <2>2. ~Queues(t)
    BY DEF Queues
  <2> QED BY <1>3, <2>1, <2>2 DEF One
<1>6. BoundsInv'
  <2>1. waiting <= waiting_room /\ outstanding <= outstanding_capacity /\ pool \in 1..MaxPools
    BY <1>1 DEF BoundsInv
  <2>2. waiting' <= waiting_room /\ outstanding' <= outstanding_capacity
    BY <1>3, <1>5, <2>1
  <2>3. outstanding_capacity' = outstanding_capacity
    BY DEF outstanding_capacity
  <2> QED BY <2>1, <2>2, <2>3 DEF BoundsInv
<1>7. t.phase # "reserving" /\ original_requests <= original_requests'
  BY <1>3
<1> QED BY <1>2, <1>4, <1>6, <1>7, StepKept

LEMMA TaskIs ==
    /\ Task \in TaskType /\ Task.phase = "new" /\ Task.lease = NoSite /\ Task.permit = FALSE
    /\ Task.reserved = FALSE
BY RequestConfig DEF Task, TaskType, Phase

\* A task that ends.
LEMMA FinishKept ==
    ASSUME GatewayInv, NEW c \in Client, IsLive(request[c]), Finishes(c)
    PROVE  GatewayInv'
<1>1. request[c] \in TaskType /\ BoundsInv
  BY DEF GatewayInv, TasksInv
<1>2. PICK n \in 0..max_retries : n = request[c].retries
  BY <1>1 DEF TaskType
<1>3. PICK t0 : t0 = [Task EXCEPT !.phase = "done", !.retries = n]
  OBVIOUS
<1>4. /\ t0 \in TaskType /\ t0.phase = "done" /\ t0.reserved = FALSE
  BY <1>3, TaskIs DEF TaskType, Phase
<1>5. PICK t : t = [t0 EXCEPT !.lease = NoSite, !.permit = FALSE]
  OBVIOUS
<1>6. /\ t \in TaskType /\ t.phase = "done" /\ t.reserved = FALSE /\ t.lease = NoSite
      /\ t.permit = FALSE
  BY <1>4, <1>5 DEF TaskType
<1>7. TaskOK(t)
  BY <1>6 DEF TaskOK, Held
<1>8. /\ LetGo(c, t0) /\ outstanding' = outstanding - 1 /\ pool' = pool
      /\ retry_slots_used' = IF request[c].reserved THEN retry_slots_used - 1
                             ELSE retry_slots_used
      /\ original_requests' = original_requests /\ retries_granted' = retries_granted
  BY <1>2, <1>3 DEF Finishes
<1>9. /\ outstanding \in Nat /\ retry_slots_used \in Nat /\ original_requests \in Nat
      /\ retry_budget_percent \in Nat
  BY CountersAre
<1>10. /\ outstanding' \in Int /\ outstanding' <= outstanding
       /\ outstanding' + One(IsLive(request[c])) = outstanding + One(IsLive(t))
  BY <1>6, <1>8, <1>9 DEF One, IsLive
<1>11. /\ retry_slots_used' \in Int /\ retry_slots_used' <= retry_slots_used
       /\ retry_slots_used' + One(request[c].reserved) = retry_slots_used + One(t.reserved)
  BY <1>6, <1>8, <1>9 DEF One
<1>12. RetryBudgetHeld'
  BY <1>1, <1>8, <1>9, <1>11 DEF RetryBudgetHeld, BoundsInv
<1> QED BY <1>5, <1>6, <1>7, <1>8, <1>10, <1>11, <1>12, LetGoKept

-----------------------------------------------------------------------------
(* The request, step by step.                                                *)

LEMMA RequestOf ==
    ASSUME GatewayInv, NEW c \in Client
    PROVE  request[c] \in TaskType /\ TaskOK(request[c]) /\ Justified(request[c])
BY DEF GatewayInv, TasksInv, TaskOK

LEMMA AdmissionKeeps ==
    ASSUME GatewayInv, NEW c \in Client, admission_middleware(c)
    PROVE  GatewayInv'
<1>1. /\ outstanding \in Nat /\ retry_slots_used \in Nat /\ retries_granted \in Nat
      /\ original_requests \in Nat /\ outstanding_capacity \in Nat /\ retry_budget_percent \in Nat
  BY CountersAre
<1>2. /\ request[c].phase = "new" /\ request[c].lease = NoSite /\ request[c].permit = FALSE
      /\ request[c].reserved = FALSE
  BY RequestOf DEF admission_middleware, TaskOK, TaskType
<1>3. /\ UNCHANGED shared /\ pool' = pool /\ retry_slots_used' = retry_slots_used
      /\ retries_granted' = retries_granted /\ waiting' = waiting
  BY DEF admission_middleware, shared
<1>4. BoundsInv
  BY DEF GatewayInv
<1>5. outstanding_capacity' = outstanding_capacity
  BY DEF outstanding_capacity
<1>6. CASE outstanding < outstanding_capacity
  <2>1. PICK t : t = [Task EXCEPT !.phase = "admitted"]
    OBVIOUS
  <2>2. /\ t \in TaskType /\ t.phase = "admitted" /\ t.lease = NoSite /\ t.permit = FALSE
        /\ t.reserved = FALSE
    BY <2>1, TaskIs DEF TaskType, Phase
  <2>3. TaskOK(t)
    BY <2>2 DEF TaskOK, Held
  <2>4. /\ outstanding' = outstanding + 1 /\ original_requests' = original_requests + 1
        /\ Moved(c, t, {})
    BY <1>6, <2>1 DEF admission_middleware
  <2>5. SharedBalanced(c, t, {}) /\ Lined(c, t, {}) /\ Wakes(c, {})
    BY <1>2, <1>3, <2>2, SharesNothing
  <2>6. Balanced(c, t, {})
    BY <1>1, <1>2, <1>3, <2>2, <2>4, <2>5 DEF Balanced, One, IsLive
  <2>7. RetryBudgetHeld'
    <3>1. retry_budget_percent * original_requests <= retry_budget_percent * (original_requests + 1)
      BY <1>1, BudgetGrows
    <3> QED BY <1>1, <1>3, <1>4, <2>4, <3>1 DEF RetryBudgetHeld, BoundsInv
  <2>8. BoundsInv'
    BY <1>1, <1>3, <1>4, <1>5, <1>6, <2>4, <2>7 DEF BoundsInv
  <2>9. original_requests <= original_requests' /\ t.phase # "reserving"
    BY <1>1, <2>2, <2>4
  <2> QED BY <2>3, <2>4, <2>5, <2>6, <2>8, <2>9, StepKept
<1>7. CASE ~(outstanding < outstanding_capacity)
  <2>1. PICK t : t = [Task EXCEPT !.phase = "done"]
    OBVIOUS
  <2>2. /\ t \in TaskType /\ t.phase = "done" /\ t.lease = NoSite /\ t.permit = FALSE
        /\ t.reserved = FALSE
    BY <2>1, TaskIs DEF TaskType, Phase
  <2>3. TaskOK(t)
    BY <2>2 DEF TaskOK, Held
  <2>4. /\ outstanding' = outstanding /\ original_requests' = original_requests
        /\ Moved(c, t, {})
    BY <1>7, <2>1 DEF admission_middleware
  <2>5. SharedBalanced(c, t, {}) /\ Lined(c, t, {}) /\ Wakes(c, {})
    BY <1>2, <1>3, <2>2, SharesNothing
  <2>6. Balanced(c, t, {})
    BY <1>1, <1>2, <1>3, <2>2, <2>4, <2>5 DEF Balanced, One, IsLive
  <2>7. BoundsInv'
    BY <1>3, <1>4, <1>5, <2>4 DEF BoundsInv, RetryBudgetHeld
  <2>8. original_requests <= original_requests' /\ t.phase # "reserving"
    BY <1>1, <2>2, <2>4
  <2> QED BY <2>3, <2>4, <2>5, <2>6, <2>7, <2>8, StepKept
<1> QED BY <1>6, <1>7

LEMMA EnterKeeps ==
    ASSUME GatewayInv, NEW c \in Client, Enter(c)
    PROVE  GatewayInv'
<1>1. PICK r : r = request[c]
  OBVIOUS
<1>2. r \in TaskType /\ TaskOK(r) /\ r.phase = "admitted"
  BY <1>1, RequestOf DEF Enter
<1>3. IsLive(request[c])
  BY <1>1, <1>2 DEF IsLive
<1>4. CASE Finishes(c)
  BY <1>3, <1>4, FinishKept
<1>5. CASE Goes(c, [request[c] EXCEPT !.phase = "choose", !.pool = pool])
  <2>1. pool \in 1..MaxPools /\ pool \in 0..MaxPools
    BY RequestConfig DEF GatewayInv, BoundsInv
  <2>2. PICK t : t = [r EXCEPT !.phase = "choose", !.pool = pool]
    OBVIOUS
  <2>3. /\ t \in TaskType /\ t.phase = "choose" /\ t.lease = r.lease /\ t.permit = r.permit
        /\ t.reserved = r.reserved /\ t.pool = pool /\ t.retries = r.retries
    BY <1>2, <2>1, <2>2 DEF TaskType, Phase
  <2>4. TaskOK(t)
    BY <1>2, <2>1, <2>3 DEF TaskOK, Held
  <2>5. IsLive(t) /\ Justified(t)
    BY <2>3 DEF IsLive, Justified
  <2>6. Goes(c, t)
    BY <1>1, <1>5, <2>2
  <2> QED BY <1>1, <1>2, <1>3, <2>3, <2>4, <2>5, <2>6, GoesKept
<1> QED BY <1>4, <1>5 DEF Enter

\* The steps of a task that holds a slot and keeps it, and those that only look.
LEMMA PhaseKeeps ==
    ASSUME GatewayInv, NEW c \in Client, NEW ph \in Held, request[c].phase \in Held \cup {"reserving"},
           request[c].permit, Goes(c, [request[c] EXCEPT !.phase = ph])
    PROVE  GatewayInv'
<1>1. PICK r : r = request[c]
  OBVIOUS
<1>2. r \in TaskType /\ TaskOK(r) /\ r.phase \in Held \cup {"reserving"} /\ r.permit
  BY <1>1, RequestOf
<1>3. PICK t : t = [r EXCEPT !.phase = ph]
  OBVIOUS
<1>4. /\ t \in TaskType /\ t.phase = ph /\ t.lease = r.lease /\ t.permit = r.permit
      /\ t.reserved = r.reserved /\ t.pool = r.pool /\ t.retries = r.retries
  BY <1>2, <1>3 DEF TaskType, Phase
<1>5. TaskOK(t)
  BY <1>2, <1>4 DEF TaskOK, Held
<1>6. IsLive(r) /\ IsLive(t) /\ Justified(t)
  BY <1>2, <1>4 DEF IsLive, Justified, Held
<1>7. t.phase \notin {"waiting", "woken"} /\ r.phase \notin {"waiting", "woken"}
  BY <1>2, <1>4 DEF Held
<1>8. Goes(c, t)
  BY <1>1, <1>3
<1> QED BY <1>1, <1>4, <1>5, <1>6, <1>7, <1>8, GoesKept

LEMMA HeldHasPermit ==
    ASSUME GatewayInv, NEW c \in Client, request[c].phase \in Held
    PROVE  request[c].permit /\ IsLive(request[c])
BY RequestOf DEF TaskOK, Held, IsLive

LEMMA SendKeeps ==
    ASSUME GatewayInv, NEW c \in Client, Send(c)
    PROVE  GatewayInv'
<1>1. request[c].phase \in Held /\ "sent" \in Held
  BY DEF Send, Held
<1>2. request[c].permit /\ IsLive(request[c])
  BY <1>1, HeldHasPermit
<1>3. Finishes(c) \/ Goes(c, [request[c] EXCEPT !.phase = "sent"])
  BY DEF Send
<1> QED BY <1>1, <1>2, <1>3, FinishKept, PhaseKeeps

LEMMA AnsweredKeeps ==
    ASSUME GatewayInv, NEW c \in Client, Answered(c)
    PROVE  GatewayInv'
<1>1. request[c].phase \in Held /\ "streaming" \in Held
  BY DEF Answered, Held
<1>2. request[c].permit
  BY <1>1, HeldHasPermit
<1> QED BY <1>1, <1>2, PhaseKeeps DEF Answered

\* The allowance that is loaded is true of the requests so far.
LEMMA AllowanceIs ==
    ASSUME GatewayInv
    PROVE  /\ allowed_retries \in Nat
           /\ 100 * allowed_retries <= retry_budget_percent * original_requests
<1>1. original_requests \in Nat /\ retry_budget_percent \in Nat
  BY CountersAre
<1>2. PICK n \in Nat : n = original_requests * retry_budget_percent
  BY <1>1
<1>3. n \div 100 \in Nat /\ 100 * (n \div 100) <= n
  OBVIOUS
<1>4. n = retry_budget_percent * original_requests
  BY <1>1, <1>2
<1> QED BY <1>2, <1>3, <1>4 DEF allowed_retries

LEMMA LoadingKeeps ==
    ASSUME GatewayInv, NEW c \in Client, request[c].phase \in {"sent", "failed"},
           request[c].retries < max_retries, Goes(c, Loading(request[c]))
    PROVE  GatewayInv'
<1>1. PICK r : r = request[c]
  OBVIOUS
<1>2. r \in TaskType /\ TaskOK(r) /\ r.phase \in {"sent", "failed"} /\ r.retries < max_retries
  BY <1>1, RequestOf
<1>3. PICK a \in Nat, u \in Nat : a = allowed_retries /\ u = retry_slots_used
  BY AllowanceIs, CountersAre
<1>4. PICK t : t = [r EXCEPT !.phase = "reserving", !.allowed = a, !.used = u]
  OBVIOUS
<1>5. /\ t \in TaskType /\ t.phase = "reserving" /\ t.lease = r.lease /\ t.permit = r.permit
      /\ t.reserved = r.reserved /\ t.pool = r.pool /\ t.retries = r.retries /\ t.allowed = a
  BY <1>2, <1>4 DEF TaskType, Phase
<1>6. TaskOK(t)
  BY <1>2, <1>5 DEF TaskOK, Held
<1>7. IsLive(r) /\ IsLive(t)
  BY <1>2, <1>5 DEF IsLive
<1>8. Justified(t)
  BY <1>3, <1>5, AllowanceIs DEF Justified
<1>9. Goes(c, t)
  BY <1>1, <1>3, <1>4 DEF Loading
<1> QED BY <1>1, <1>2, <1>5, <1>6, <1>7, <1>8, <1>9, GoesKept

LEMMA TransientStatusKeeps ==
    ASSUME GatewayInv, NEW c \in Client, TransientStatus(c)
    PROVE  GatewayInv'
<1>1. request[c].phase = "sent" /\ request[c].phase \in Held /\ "streaming" \in Held
  BY DEF TransientStatus, Held
<1>2. request[c].permit
  BY <1>1, HeldHasPermit
<1>3. CASE request[c].retries < max_retries
  BY <1>1, <1>3, LoadingKeeps DEF TransientStatus
<1>4. CASE ~(request[c].retries < max_retries)
  BY <1>1, <1>2, <1>4, PhaseKeeps DEF TransientStatus
<1> QED BY <1>3, <1>4

LEMMA ScheduleRetryKeeps ==
    ASSUME GatewayInv, NEW c \in Client, schedule_retry(c)
    PROVE  GatewayInv'
<1>1. IsLive(request[c])
  BY DEF schedule_retry, IsLive
<1> QED BY <1>1, FinishKept, LoadingKeeps DEF schedule_retry

LEMMA DeniedKeeps ==
    ASSUME GatewayInv, NEW c \in Client, Denied(c)
    PROVE  GatewayInv'
<1>1. IsLive(request[c]) /\ request[c].phase \in Held \cup {"reserving"} /\ "streaming" \in Held
  BY DEF Denied, IsLive, Held
<1> QED BY <1>1, FinishKept, PhaseKeeps DEF Denied

LEMMA ReserveAgainKeeps ==
    ASSUME GatewayInv, NEW c \in Client, ReserveAgain(c)
    PROVE  GatewayInv'
<1>1. PICK r : r = request[c]
  OBVIOUS
<1>2. r \in TaskType /\ TaskOK(r) /\ r.phase = "reserving" /\ Justified(r)
  BY <1>1, RequestOf DEF ReserveAgain
<1>3. PICK u \in Nat : u = retry_slots_used
  BY CountersAre
<1>4. PICK t : t = [r EXCEPT !.used = u]
  OBVIOUS
<1>5. /\ t \in TaskType /\ t.phase = r.phase /\ t.lease = r.lease /\ t.permit = r.permit
      /\ t.reserved = r.reserved /\ t.pool = r.pool /\ t.retries = r.retries
      /\ t.allowed = r.allowed
  BY <1>2, <1>4 DEF TaskType
<1>6. TaskOK(t) /\ Justified(t)
  BY <1>2, <1>5 DEF TaskOK, Justified
<1>7. IsLive(r) /\ IsLive(t)
  BY <1>2, <1>5 DEF IsLive
<1>8. Goes(c, t)
  BY <1>1, <1>3, <1>4 DEF ReserveAgain
<1> QED BY <1>1, <1>5, <1>6, <1>7, <1>8, GoesKept

LEMMA DeadlinePassesKeeps ==
    ASSUME GatewayInv, NEW c \in Client, DeadlinePasses(c)
    PROVE  GatewayInv'
<1>1. PICK r : r = request[c]
  OBVIOUS
<1>2. r \in TaskType /\ TaskOK(r) /\ Justified(r) /\ IsLive(r)
  BY <1>1, RequestOf DEF DeadlinePasses, IsLive
<1>3. PICK t : t = [r EXCEPT !.late = TRUE]
  OBVIOUS
<1>4. /\ t \in TaskType /\ t.phase = r.phase /\ t.lease = r.lease /\ t.permit = r.permit
      /\ t.reserved = r.reserved /\ t.pool = r.pool /\ t.retries = r.retries
      /\ t.allowed = r.allowed
  BY <1>2, <1>3 DEF TaskType
<1>5. TaskOK(t) /\ Justified(t) /\ IsLive(t)
  BY <1>2, <1>4 DEF TaskOK, Justified, IsLive
<1>6. Goes(c, t)
  BY <1>1, <1>3 DEF DeadlinePasses
<1> QED BY <1>1, <1>2, <1>4, <1>5, <1>6, GoesKept

LEMMA ChooseKeeps ==
    ASSUME GatewayInv, NEW c \in Client, choose(c)
    PROVE  GatewayInv'
<1>1. PICK r : r = request[c]
  OBVIOUS
<1>2. r \in TaskType /\ TaskOK(r) /\ r.phase = "choose"
  BY <1>1, RequestOf DEF choose
<1>3. IsLive(r) /\ r.lease = NoSite /\ r.permit = FALSE /\ r.reserved = FALSE
      /\ r.pool \in 1..MaxPools
  BY <1>2 DEF IsLive, TaskOK, TaskType
<1>4. CASE Finishes(c)
  BY <1>1, <1>3, <1>4, FinishKept
<1>5. ASSUME NEW w \in Target,
             leases' = [leases EXCEPT ![<<request[c].pool, w>>] = @ + 1],
             Moved(c, [request[c] EXCEPT !.phase = "leased",
                                         !.lease = <<request[c].pool, w>>], {}),
             UNCHANGED <<pool, slots, line, waiting, executing, outstanding, budget>>
      PROVE  GatewayInv'
  <2>1. PICK s : s = <<r.pool, w>>
    OBVIOUS
  <2>2. s \in Site /\ s # NoSite
    BY <1>3, <2>1, SiteIsNot DEF Site
  <2>3. PICK t : t = [r EXCEPT !.phase = "leased", !.lease = s]
    OBVIOUS
  <2>4. /\ t \in TaskType /\ t.phase = "leased" /\ t.lease = s /\ t.permit = r.permit
        /\ t.reserved = r.reserved /\ t.pool = r.pool /\ t.retries = r.retries
    BY <1>2, <2>2, <2>3 DEF TaskType, Phase
  <2>5. TaskOK(t)
    BY <1>2, <1>3, <2>2, <2>4 DEF TaskOK, Held
  <2>6. /\ Moved(c, t, {}) /\ leases' = [leases EXCEPT ![s] = leases[s] + 1]
        /\ pool' = pool /\ slots' = slots /\ line' = line /\ waiting' = waiting
        /\ executing' = executing /\ outstanding' = outstanding
        /\ original_requests' = original_requests /\ retry_slots_used' = retry_slots_used
        /\ retries_granted' = retries_granted
    BY <1>1, <1>5, <2>1, <2>3 DEF budget
  <2>7. /\ outstanding \in Nat /\ waiting \in Nat /\ executing \in Nat
        /\ retry_slots_used \in Nat /\ retries_granted \in Nat /\ original_requests \in Nat
        /\ leases \in [Site -> Int] /\ slots \in [Site -> Int]
        /\ \A x \in Site : slots[x] >= 0
    BY CountersAre
  <2>8. /\ leases' \in [Site -> Int]
        /\ \A x \in Site : leases'[x] = leases[x] + (IF x = s THEN 1 ELSE 0)
    BY <2>2, <2>6, <2>7
  <2>9. \A x \in Site : leases'[x] + One(request[c].lease = x) = leases[x] + One(t.lease = x)
    BY <1>1, <1>3, <2>4, <2>7, <2>8, SiteIsNot DEF One
  <2>10. ~Queues(r) /\ ~Queues(t) /\ ~Runs(r) /\ ~Runs(t)
         /\ \A x : ~Permits(r, x) /\ ~Permits(t, x)
    BY <1>2, <1>3, <2>4 DEF Queues, Runs, Permits
  <2>11. SharedBalanced(c, t, {})
    BY <1>1, <2>6, <2>7, <2>8, <2>9, <2>10 DEF SharedBalanced, One
  <2>12. Balanced(c, t, {})
    BY <1>1, <1>3, <2>4, <2>6, <2>7, <2>11 DEF Balanced, One, IsLive
  <2>13. Lined(c, t, {})
    BY <1>1, <1>2, <2>4, <2>6, LinesStay DEF GatewayInv
  <2>14. BoundsInv'
    BY <2>6 DEF GatewayInv, BoundsInv, RetryBudgetHeld, outstanding_capacity
  <2>15. Wakes(c, {}) /\ t.phase # "reserving" /\ original_requests <= original_requests'
    BY <2>4, <2>6, <2>7 DEF Wakes
  <2> QED BY <2>5, <2>6, <2>12, <2>13, <2>14, <2>15, StepKept
<1> QED BY <1>4, <1>5 DEF choose

\* A slot at once.
LEMMA AdmitAtOnceKeeps ==
    ASSUME GatewayInv, NEW c \in Client, request[c].phase = "leased",
           slots[request[c].lease] > 0,
           slots' = [slots EXCEPT ![request[c].lease] = @ - 1],
           executing' = executing + 1,
           Moved(c, [request[c] EXCEPT !.phase = "guarded", !.permit = TRUE], {}),
           UNCHANGED <<pool, line, leases, waiting, outstanding, budget>>
    PROVE  GatewayInv'
<1>1. PICK r, s : r = request[c] /\ s = request[c].lease
  OBVIOUS
<1>2. r \in TaskType /\ TaskOK(r) /\ r.phase = "leased"
  BY <1>1, RequestOf
<1>3. r.lease = s /\ s \in Site /\ s # NoSite /\ r.permit = FALSE /\ r.reserved = FALSE
  BY <1>1, <1>2 DEF TaskOK, TaskType
<1>4. PICK t : t = [r EXCEPT !.phase = "guarded", !.permit = TRUE]
  OBVIOUS
<1>5. /\ t \in TaskType /\ t.phase = "guarded" /\ t.lease = s /\ t.permit = TRUE
      /\ t.reserved = r.reserved /\ t.pool = r.pool /\ t.retries = r.retries
  BY <1>2, <1>3, <1>4 DEF TaskType, Phase, Held
<1>6. TaskOK(t)
  BY <1>2, <1>3, <1>5 DEF TaskOK, Held
<1>7. /\ Moved(c, t, {}) /\ slots' = [slots EXCEPT ![s] = slots[s] - 1] /\ slots[s] > 0
      /\ pool' = pool /\ leases' = leases /\ line' = line /\ waiting' = waiting
      /\ outstanding' = outstanding
      /\ original_requests' = original_requests /\ retry_slots_used' = retry_slots_used
      /\ retries_granted' = retries_granted
  BY <1>1, <1>4 DEF budget
<1>8. /\ outstanding \in Nat /\ waiting \in Nat /\ executing \in Nat
      /\ retry_slots_used \in Nat /\ retries_granted \in Nat /\ original_requests \in Nat
      /\ leases \in [Site -> Int] /\ slots \in [Site -> Int]
      /\ \A x \in Site : slots[x] >= 0
  BY CountersAre
<1>9. /\ slots' \in [Site -> Int]
      /\ \A x \in Site : /\ slots'[x] = slots[x] - (IF x = s THEN 1 ELSE 0)
                         /\ slots'[x] >= 0
  BY <1>3, <1>7, <1>8
<1>10. ~Queues(r) /\ ~Queues(t) /\ ~Runs(r) /\ Runs(t)
       /\ \A x : ~Permits(r, x) /\ (Permits(t, x) <=> x = s)
  BY <1>2, <1>3, <1>5 DEF Queues, Runs, Permits
<1>11. \A x \in Site : slots'[x] + One(Permits(t, x)) + One(\E d \in {} : request[d].lease = x)
                         = slots[x] + One(Permits(request[c], x))
  BY <1>1, <1>8, <1>9, <1>10 DEF One
<1>12. SharedBalanced(c, t, {})
  BY <1>1, <1>3, <1>5, <1>7, <1>8, <1>9, <1>10, <1>11 DEF SharedBalanced, One
<1>13. Balanced(c, t, {})
  BY <1>1, <1>2, <1>3, <1>5, <1>7, <1>8, <1>12 DEF Balanced, One, IsLive
<1>14. Lined(c, t, {})
  BY <1>1, <1>2, <1>5, <1>7, LinesStay DEF GatewayInv
<1>15. BoundsInv'
  BY <1>7 DEF GatewayInv, BoundsInv, RetryBudgetHeld, outstanding_capacity
<1>16. Wakes(c, {}) /\ t.phase # "reserving" /\ original_requests <= original_requests'
  BY <1>5, <1>7, <1>8 DEF Wakes
<1> QED BY <1>6, <1>7, <1>13, <1>14, <1>15, <1>16, StepKept

\* A place in line.
LEMMA AdmitInLineKeeps ==
    ASSUME GatewayInv, NEW c \in Client, request[c].phase = "leased", waiting < waiting_room,
           waiting' = waiting + 1,
           line' = [line EXCEPT ![request[c].lease] = Append(@, c)],
           Moved(c, [request[c] EXCEPT !.phase = "waiting"], {}),
           UNCHANGED <<pool, slots, leases, executing, outstanding, budget>>
    PROVE  GatewayInv'
<1>1. PICK r, s : r = request[c] /\ s = request[c].lease
  OBVIOUS
<1>2. r \in TaskType /\ TaskOK(r) /\ r.phase = "leased"
  BY <1>1, RequestOf
<1>3. r.lease = s /\ s \in Site /\ s # NoSite /\ r.permit = FALSE /\ r.reserved = FALSE
  BY <1>1, <1>2 DEF TaskOK, TaskType
<1>4. PICK t : t = [r EXCEPT !.phase = "waiting"]
  OBVIOUS
<1>5. /\ t \in TaskType /\ t.phase = "waiting" /\ t.lease = s /\ t.permit = FALSE
      /\ t.reserved = r.reserved /\ t.pool = r.pool /\ t.retries = r.retries
  BY <1>2, <1>3, <1>4 DEF TaskType, Phase
<1>6. TaskOK(t)
  BY <1>2, <1>3, <1>5 DEF TaskOK, Held
<1>7. /\ Moved(c, t, {}) /\ line' = [line EXCEPT ![s] = Append(line[s], c)]
      /\ pool' = pool /\ leases' = leases /\ slots' = slots /\ executing' = executing
      /\ outstanding' = outstanding
      /\ original_requests' = original_requests /\ retry_slots_used' = retry_slots_used
      /\ retries_granted' = retries_granted
  BY <1>1, <1>4 DEF budget
<1>8. /\ outstanding \in Nat /\ waiting \in Nat /\ executing \in Nat
      /\ retry_slots_used \in Nat /\ retries_granted \in Nat /\ original_requests \in Nat
      /\ leases \in [Site -> Int] /\ slots \in [Site -> Int] /\ waiting_room \in Nat
      /\ \A x \in Site : slots[x] >= 0
  BY CountersAre
<1>9. ~Queues(r) /\ Queues(t) /\ ~Runs(r) /\ ~Runs(t) /\ \A x : ~Permits(r, x) /\ ~Permits(t, x)
  BY <1>2, <1>3, <1>5 DEF Queues, Runs, Permits
<1>10. SharedBalanced(c, t, {})
  BY <1>1, <1>3, <1>5, <1>7, <1>8, <1>9 DEF SharedBalanced, One
<1>11. Balanced(c, t, {})
  BY <1>1, <1>2, <1>3, <1>5, <1>7, <1>8, <1>10 DEF Balanced, One, IsLive
<1>12. Lined(c, t, {})
  <2>1. /\ line \in [Site -> Seq(Client)]
        /\ \A x \in Site : Distinct(line[x]) /\ c \notin Members(line[x])
    BY <1>1, <1>2 DEF GatewayInv, LineInv, Waiters
  <2>2. /\ Append(line[s], c) \in Seq(Client) /\ Distinct(Append(line[s], c))
        /\ Members(Append(line[s], c)) = Members(line[s]) \cup {c}
    BY <1>3, <2>1, AppendedIs
  <2>3. line' \in [Site -> Seq(Client)]
    BY <1>3, <1>7, <2>1, <2>2
  <2>4. ASSUME NEW x \in Site
        PROVE  /\ Distinct(line'[x])
               /\ \A d : d \in Members(line'[x]) <=>
                           (d \in Members(line[x]) /\ d # c) \/ (d = c /\ x = s)
    <3>1. CASE x = s
      <4>1. line'[x] = Append(line[s], c)
        BY <1>3, <1>7, <2>1, <3>1
      <4> QED BY <2>1, <2>2, <3>1, <4>1
    <3>2. CASE x # s
      <4>1. line'[x] = line[x]
        BY <1>7, <2>1, <3>2
      <4> QED BY <2>1, <3>2, <4>1
    <3> QED BY <3>1, <3>2
  <2> QED BY <1>5, <2>3, <2>4 DEF Lined
<1>13. BoundsInv'
  <2>1. waiting' <= waiting_room
    BY <1>8
  <2>2. outstanding_capacity' = outstanding_capacity
    BY DEF outstanding_capacity
  <2> QED BY <1>7, <2>1, <2>2 DEF GatewayInv, BoundsInv, RetryBudgetHeld
<1>14. Wakes(c, {}) /\ t.phase # "reserving" /\ original_requests <= original_requests'
  BY <1>5, <1>7, <1>8 DEF Wakes
<1> QED BY <1>6, <1>7, <1>11, <1>12, <1>13, <1>14, StepKept

LEMMA AdmitWorkerKeeps ==
    ASSUME GatewayInv, NEW c \in Client, admit_worker(c)
    PROVE  GatewayInv'
<1>1. request[c].phase = "leased" /\ IsLive(request[c])
  BY DEF admit_worker, IsLive
<1>2. \/ /\ slots[request[c].lease] > 0
         /\ slots' = [slots EXCEPT ![request[c].lease] = @ - 1]
         /\ executing' = executing + 1
         /\ Moved(c, [request[c] EXCEPT !.phase = "guarded", !.permit = TRUE], {})
         /\ UNCHANGED <<pool, line, leases, waiting, outstanding, budget>>
      \/ /\ waiting < waiting_room
         /\ waiting' = waiting + 1
         /\ line' = [line EXCEPT ![request[c].lease] = Append(@, c)]
         /\ Moved(c, [request[c] EXCEPT !.phase = "waiting"], {})
         /\ UNCHANGED <<pool, slots, leases, executing, outstanding, budget>>
      \/ Finishes(c)
  BY DEF admit_worker
<1> QED BY <1>1, <1>2, AdmitAtOnceKeeps, AdmitInLineKeeps, FinishKept, Zenon

\* The queue guard goes and the execution guard comes.
LEMMA BeginExecutionKeeps ==
    ASSUME GatewayInv, NEW c \in Client, begin_execution(c)
    PROVE  GatewayInv'
<1>1. PICK r : r = request[c]
  OBVIOUS
<1>2. r \in TaskType /\ TaskOK(r) /\ r.phase = "woken"
  BY <1>1, RequestOf DEF begin_execution
<1>3. r.permit = TRUE /\ r.reserved = FALSE
  BY <1>2 DEF TaskOK, TaskType
<1>4. PICK t : t = [r EXCEPT !.phase = "guarded"]
  OBVIOUS
<1>5. /\ t \in TaskType /\ t.phase = "guarded" /\ t.lease = r.lease /\ t.permit = TRUE
      /\ t.reserved = r.reserved /\ t.pool = r.pool /\ t.retries = r.retries
  BY <1>2, <1>3, <1>4 DEF TaskType, Phase, Held
<1>6. TaskOK(t)
  BY <1>2, <1>3, <1>5 DEF TaskOK, Held
<1>7. /\ Moved(c, t, {}) /\ waiting' = waiting - 1 /\ executing' = executing + 1
      /\ pool' = pool /\ slots' = slots /\ leases' = leases /\ line' = line
      /\ outstanding' = outstanding
      /\ original_requests' = original_requests /\ retry_slots_used' = retry_slots_used
      /\ retries_granted' = retries_granted
  BY <1>1, <1>4 DEF begin_execution, budget
<1>8. /\ outstanding \in Nat /\ waiting \in Nat /\ executing \in Nat
      /\ retry_slots_used \in Nat /\ retries_granted \in Nat /\ original_requests \in Nat
      /\ leases \in [Site -> Int] /\ slots \in [Site -> Int] /\ waiting_room \in Nat
      /\ \A x \in Site : slots[x] >= 0
  BY CountersAre
<1>9. Queues(r) /\ ~Queues(t) /\ ~Runs(r) /\ Runs(t) /\ \A x : Permits(t, x) = Permits(r, x)
  BY <1>2, <1>3, <1>5 DEF Queues, Runs, Permits
<1>10. SharedBalanced(c, t, {})
  BY <1>1, <1>5, <1>7, <1>8, <1>9, OneIs DEF SharedBalanced, One
<1>11. Balanced(c, t, {})
  BY <1>1, <1>2, <1>3, <1>5, <1>7, <1>8, <1>10 DEF Balanced, One, IsLive
<1>12. Lined(c, t, {})
  BY <1>1, <1>2, <1>5, <1>7, LinesStay DEF GatewayInv
<1>13. BoundsInv'
  <2>1. waiting' <= waiting_room
    BY <1>7, <1>8 DEF GatewayInv, BoundsInv
  <2>2. outstanding_capacity' = outstanding_capacity
    BY DEF outstanding_capacity
  <2> QED BY <1>7, <2>1, <2>2 DEF GatewayInv, BoundsInv, RetryBudgetHeld
<1>14. Wakes(c, {}) /\ t.phase # "reserving" /\ original_requests <= original_requests'
  BY <1>5, <1>7, <1>8 DEF Wakes
<1> QED BY <1>6, <1>7, <1>11, <1>12, <1>13, <1>14, StepKept

LEMMA AttemptFailsKeeps ==
    ASSUME GatewayInv, NEW c \in Client, AttemptFails(c)
    PROVE  GatewayInv'
<1>1. PICK r : r = request[c]
  OBVIOUS
<1>2. r \in TaskType /\ TaskOK(r) /\ r.phase = "sent"
  BY <1>1, RequestOf DEF AttemptFails
<1>3. PICK t0 : t0 = [r EXCEPT !.phase = "failed"]
  OBVIOUS
<1>4. /\ t0 \in TaskType /\ t0.phase = "failed" /\ t0.reserved = r.reserved
      /\ t0.pool = r.pool /\ t0.retries = r.retries
  BY <1>2, <1>3 DEF TaskType, Phase
<1>5. PICK t : t = [t0 EXCEPT !.lease = NoSite, !.permit = FALSE]
  OBVIOUS
<1>6. /\ t \in TaskType /\ t.phase = "failed" /\ t.reserved = r.reserved /\ t.lease = NoSite
      /\ t.permit = FALSE /\ t.pool = r.pool /\ t.retries = r.retries
  BY <1>4, <1>5 DEF TaskType
<1>7. TaskOK(t)
  BY <1>2, <1>6 DEF TaskOK, Held
<1>8. /\ LetGo(c, t0) /\ outstanding' = outstanding /\ pool' = pool
      /\ retry_slots_used' = retry_slots_used
      /\ original_requests' = original_requests /\ retries_granted' = retries_granted
  BY <1>1, <1>3 DEF AttemptFails, budget
<1>9. outstanding \in Nat /\ retry_slots_used \in Nat
  BY CountersAre
<1>10. /\ outstanding' \in Int /\ outstanding' <= outstanding
       /\ outstanding' + One(IsLive(request[c])) = outstanding + One(IsLive(t))
  BY <1>1, <1>2, <1>6, <1>8, <1>9 DEF One, IsLive
<1>11. /\ retry_slots_used' \in Int
       /\ retry_slots_used' + One(request[c].reserved) = retry_slots_used + One(t.reserved)
  BY <1>1, <1>6, <1>8, <1>9
<1>12. RetryBudgetHeld'
  BY <1>8 DEF RetryBudgetHeld, GatewayInv, BoundsInv
<1> QED BY <1>5, <1>6, <1>7, <1>8, <1>10, <1>11, <1>12, LetGoKept

\* The counter is what was compared with the allowance: the budget holds.
LEMMA ReserveKeeps ==
    ASSUME GatewayInv, NEW c \in Client, Reserve(c)
    PROVE  GatewayInv'
<1>1. PICK r : r = request[c]
  OBVIOUS
<1>2. r \in TaskType /\ TaskOK(r) /\ r.phase = "reserving" /\ Justified(r)
  BY <1>1, RequestOf DEF Reserve
<1>3. PICK t0 : t0 = [r EXCEPT !.phase = "backoff", !.reserved = TRUE]
  OBVIOUS
<1>4. /\ t0 \in TaskType /\ t0.phase = "backoff" /\ t0.reserved = TRUE
      /\ t0.pool = r.pool /\ t0.retries = r.retries
  BY <1>2, <1>3 DEF TaskType, Phase
<1>5. PICK t : t = [t0 EXCEPT !.lease = NoSite, !.permit = FALSE]
  OBVIOUS
<1>6. /\ t \in TaskType /\ t.phase = "backoff" /\ t.reserved = TRUE /\ t.lease = NoSite
      /\ t.permit = FALSE /\ t.pool = r.pool /\ t.retries = r.retries
  BY <1>4, <1>5 DEF TaskType
<1>7. TaskOK(t) /\ r.reserved = FALSE
  BY <1>2, <1>6 DEF TaskOK, Held, TaskType
<1>8. /\ LetGo(c, t0) /\ outstanding' = outstanding /\ pool' = pool
      /\ retry_slots_used' = retry_slots_used + 1
      /\ original_requests' = original_requests /\ retries_granted' = retries_granted
      /\ r.used < r.allowed /\ retry_slots_used = r.used
  BY <1>1, <1>3 DEF Reserve
<1>9. /\ outstanding \in Nat /\ retry_slots_used \in Nat /\ original_requests \in Nat
      /\ retry_budget_percent \in Nat /\ r.allowed \in Nat
  BY <1>2, CountersAre DEF TaskType
<1>10. /\ outstanding' \in Int /\ outstanding' <= outstanding
       /\ outstanding' + One(IsLive(request[c])) = outstanding + One(IsLive(t))
  BY <1>1, <1>2, <1>6, <1>8, <1>9 DEF One, IsLive
<1>11. /\ retry_slots_used' \in Int
       /\ retry_slots_used' + One(request[c].reserved) = retry_slots_used + One(t.reserved)
  BY <1>1, <1>6, <1>7, <1>8, <1>9 DEF One
<1>12. RetryBudgetHeld'
  <2>1. 100 * r.allowed <= retry_budget_percent * original_requests
    BY <1>2 DEF Justified
  <2>2. retry_slots_used + 1 <= r.allowed
    BY <1>8, <1>9
  <2> QED BY <1>8, <1>9, <2>1, <2>2 DEF RetryBudgetHeld
<1> QED BY <1>5, <1>6, <1>7, <1>8, <1>10, <1>11, <1>12, LetGoKept

LEMMA WaitForRetryKeeps ==
    ASSUME GatewayInv, NEW c \in Client, wait_for_reserved_retry(c)
    PROVE  GatewayInv'
<1>1. PICK r : r = request[c]
  OBVIOUS
<1>2. r \in TaskType /\ TaskOK(r) /\ r.phase = "backoff" /\ IsLive(request[c])
  BY <1>1, RequestOf DEF wait_for_reserved_retry, IsLive
<1>3. CASE r.late
  BY <1>1, <1>2, <1>3, FinishKept DEF wait_for_reserved_retry
<1>4. CASE ~r.late
  <2>1. r.retries + 1 \in 0..max_retries /\ r.reserved = TRUE
    BY <1>2, RequestConfig DEF TaskOK, TaskType
  <2>2. PICK n \in 0..max_retries : n = r.retries + 1
    BY <2>1
  <2>3. PICK t : t = [r EXCEPT !.phase = "choose", !.reserved = FALSE,
                               !.retries = n, !.used = 0, !.allowed = 0]
    OBVIOUS
  <2>4. /\ t \in TaskType /\ t.phase = "choose" /\ t.lease = r.lease /\ t.permit = r.permit
        /\ t.reserved = FALSE /\ t.pool = r.pool
    BY <1>2, <2>3 DEF TaskType, Phase
  <2>5. TaskOK(t)
    BY <1>2, <2>4 DEF TaskOK, Held
  <2>6. /\ Moved(c, t, {}) /\ retries_granted' = retries_granted + 1 /\ UNCHANGED shared
        /\ pool' = pool /\ outstanding' = outstanding /\ waiting' = waiting
        /\ original_requests' = original_requests /\ retry_slots_used' = retry_slots_used
    BY <1>1, <1>4, <2>2, <2>3 DEF wait_for_reserved_retry, shared
  <2>7. /\ outstanding \in Nat /\ retry_slots_used \in Nat /\ retries_granted \in Nat
        /\ original_requests \in Nat
    BY CountersAre
  <2>8. SharedBalanced(c, t, {}) /\ Lined(c, t, {}) /\ Wakes(c, {})
    BY <1>1, <1>2, <2>4, <2>6, SharesNothing
  <2>9. Balanced(c, t, {})
    BY <1>1, <1>2, <2>1, <2>4, <2>6, <2>7, <2>8 DEF Balanced, One, IsLive
  <2>10. BoundsInv'
    BY <2>6 DEF GatewayInv, BoundsInv, RetryBudgetHeld, outstanding_capacity
  <2>11. t.phase # "reserving" /\ original_requests <= original_requests'
    BY <2>4, <2>6, <2>7
  <2> QED BY <2>5, <2>6, <2>8, <2>9, <2>10, <2>11, StepKept
<1> QED BY <1>3, <1>4

LEMMA EndsKeep ==
    ASSUME GatewayInv, NEW c \in Client, StreamEnds(c) \/ DeadlineInLine(c) \/ Disconnect(c)
    PROVE  GatewayInv'
<1>1. IsLive(request[c]) /\ Finishes(c)
  BY DEF StreamEnds, DeadlineInLine, Disconnect, IsLive
<1> QED BY <1>1, FinishKept

\* A new routing, or nothing at all.
LEMMA RefreshKeeps ==
    ASSUME GatewayInv, UNCHANGED <<request, shared, outstanding, budget>>,
           pool' \in 1..MaxPools
    PROVE  GatewayInv'
<1>1. /\ request' = request /\ slots' = slots /\ line' = line /\ leases' = leases
      /\ waiting' = waiting /\ executing' = executing /\ outstanding' = outstanding
      /\ original_requests' = original_requests /\ retry_slots_used' = retry_slots_used
      /\ retries_granted' = retries_granted
  BY DEF shared, budget
<1>2. TasksInv'
  BY <1>1 DEF GatewayInv, TasksInv, Justified
<1>3. /\ LiveClients' = LiveClients /\ InQueue' = InQueue /\ InService' = InService /\ Reserving' = Reserving
      /\ \A s : LeasedAt(s)' = LeasedAt(s) /\ PermitAt(s)' = PermitAt(s) /\ Waiters(s)' = Waiters(s)
  BY <1>1 DEF LiveClients, InQueue, InService, Reserving, LeasedAt, PermitAt, Waiters
<1>4. CountsInv'
  BY <1>1, <1>3 DEF GatewayInv, CountsInv
<1>5. LineInv'
  BY <1>1, <1>3 DEF GatewayInv, LineInv
<1>6. BoundsInv'
  BY <1>1 DEF GatewayInv, BoundsInv, RetryBudgetHeld, outstanding_capacity
<1> QED BY <1>2, <1>4, <1>5, <1>6 DEF GatewayInv

-----------------------------------------------------------------------------
(* The theorem.                                                              *)

LEMMA GatewayInitial == GatewayInit => GatewayInv
<1> SUFFICES ASSUME GatewayInit PROVE GatewayInv
  OBVIOUS
<1>1. /\ request = [c \in Client |-> Task] /\ pool = 1
      /\ slots = [s \in Site |-> worker_concurrency_limit]
      /\ line = [s \in Site |-> << >>] /\ leases = [s \in Site |-> 0]
      /\ outstanding = 0 /\ waiting = 0 /\ executing = 0
      /\ original_requests = 0 /\ retry_slots_used = 0 /\ retries_granted = 0
  BY DEF GatewayInit
<1>2. \A c \in Client : request[c] = Task
  BY <1>1
<1>3. TaskOK(Task) /\ Justified(Task)
  BY TaskIs DEF TaskOK, Justified, Held
<1>4. TasksInv
  BY <1>1, <1>2, <1>3, TaskIs DEF TasksInv
<1>5. /\ LiveClients = {} /\ InQueue = {} /\ InService = {} /\ Reserving = {}
      /\ \A s \in Site : LeasedAt(s) = {} /\ PermitAt(s) = {} /\ Waiters(s) = {}
  BY <1>2, TaskIs, SiteIsNot DEF LiveClients, IsLive, InQueue, Queues, InService, Runs, Reserving, LeasedAt,
     PermitAt, Permits, Waiters
<1>6. IsFiniteSet({}) /\ Cardinality({}) = 0
  BY FS_EmptySet
<1>7. CountsInv
  <2>1. /\ worker_concurrency_limit \in Nat
        /\ slots \in [Site -> Int] /\ leases \in [Site -> Int]
    BY <1>1, RequestConfig
  <2>2. \A s \in Site : slots[s] = worker_concurrency_limit /\ leases[s] = 0
    BY <1>1
  <2>3. \A s \in Site : Cardinality(LeasedAt(s)) = 0 /\ Cardinality(PermitAt(s)) = 0
    BY <1>5, <1>6
  <2>4. \A s \in Site : /\ leases[s] = Cardinality(LeasedAt(s))
                         /\ slots[s] + Cardinality(PermitAt(s)) = worker_concurrency_limit
                         /\ slots[s] >= 0
    BY <2>1, <2>2, <2>3
  <2>5. IsFiniteSet(LiveClients)
    BY <1>5, <1>6
  <2>6. /\ Cardinality(LiveClients) = 0 /\ Cardinality(InQueue) = 0 /\ Cardinality(InService) = 0
        /\ Cardinality(Reserving) = 0
    BY <1>5, <1>6
  <2> QED BY <1>1, <2>1, <2>4, <2>5, <2>6 DEF CountsInv
<1>8. LineInv
  <2>1. \A s \in Site : line[s] = << >>
    BY <1>1
  <2>2. << >> \in Seq(Client) /\ Distinct(<< >>) /\ Members(<< >>) = {}
    BY DEF Distinct, Members
  <2> QED BY <1>1, <1>5, <2>1, <2>2 DEF LineInv
<1>9. BoundsInv
  <2>1. PICK n \in Nat : n = Cardinality(Target)
    BY RequestConfig, FS_CardinalityType
  <2>2. worker_concurrency_limit \in Nat /\ waiting_room \in Nat /\ MaxPools \in Nat \ {0}
        /\ retry_budget_percent \in Nat
    BY RequestConfig
  <2>3. n * worker_concurrency_limit + waiting_room >= 0
    BY <2>2
  <2>4. RetryBudgetHeld
    BY <1>1, <2>2 DEF RetryBudgetHeld
  <2>5. 0 <= outstanding_capacity
    BY <2>1, <2>3 DEF outstanding_capacity
  <2> QED BY <1>1, <2>2, <2>4, <2>5 DEF BoundsInv
<1> QED BY <1>4, <1>7, <1>8, <1>9 DEF GatewayInv

LEMMA GatewayHolds == GatewayInv => RequestsHold
<1> SUFFICES ASSUME GatewayInv PROVE RequestsHold
  OBVIOUS
<1>1. TasksInv /\ CountsInv /\ LineInv /\ BoundsInv
  BY DEF GatewayInv
<1>2. /\ outstanding \in Nat /\ waiting \in Nat /\ executing \in Nat
      /\ retry_slots_used \in Nat /\ retries_granted \in Nat /\ original_requests \in Nat
      /\ outstanding_capacity \in Nat /\ waiting_room \in Nat
  BY CountersAre
<1>3. ASSUME NEW c \in Client
      PROVE  LET r == request[c]
             IN /\ r.phase \in Held \cup {"new", "admitted", "choose", "leased", "waiting", "woken",
                                          "failed", "reserving", "backoff", "done"}
                /\ r.lease \in Site \cup {NoSite}
                /\ r.phase \in Held \cup {"leased", "waiting", "woken"} => r.lease # NoSite
                /\ r.phase \in {"new", "admitted", "choose", "failed", "backoff", "done"}
                     => r.lease = NoSite /\ ~r.permit
                /\ r.permit => r.lease # NoSite
                /\ r.retries \in 0..max_retries
  <2>1. PICK r : r = request[c]
    OBVIOUS
  <2>2. r \in TaskType /\ TaskOK(r)
    BY <2>1, RequestOf
  <2> QED BY <2>1, <2>2 DEF TaskOK, TaskType, Phase
<1>4. slots \in [Site -> 0..worker_concurrency_limit]
  <2>1. slots \in [Site -> Int] /\ worker_concurrency_limit \in Nat
    BY <1>1, RequestConfig DEF CountsInv
  <2>2. ASSUME NEW s \in Site PROVE slots[s] \in 0..worker_concurrency_limit
    <3>1. PICK n \in Nat : n = Cardinality(PermitAt(s))
      BY <1>1, CountedAreLive, FS_CardinalityType DEF CountsInv
    <3>2. slots[s] + n = worker_concurrency_limit /\ slots[s] >= 0 /\ slots[s] \in Int
      BY <1>1, <3>1 DEF CountsInv
    <3> QED BY <2>1, <3>2
  <2> QED BY <2>1, <2>2
<1>5. \A s \in Site : \A c \in Range(line[s]) : request[c].phase = "waiting"
  <2>1. \A s \in Site : Range(line[s]) = Waiters(s)
    BY <1>1 DEF LineInv, Members, Range
  <2> QED BY <2>1 DEF Waiters
<1>6. GatewayTypeOK
  BY <1>1, <1>2, <1>3, <1>4, <1>5 DEF GatewayTypeOK, BoundsInv
<1>7. NothingLeaks
  BY <1>1 DEF NothingLeaks, Those, CountsInv, LiveClients, IsLive, InQueue, Queues, InService, Runs,
     LeasedAt, PermitAt, Permits, Reserving
<1> QED BY <1>1, <1>6, <1>7 DEF RequestsHold, BoundsInv

\* Whichever way requests end, and however many of them compete for workers,
\* places in line and retries, the gateway's counters, slots and leases are
\* exactly what the live requests hold and retries stay within their budget:
\* for every set of clients, finite set of workers, limit, capacity of the
\* waiting room, number of retries and percentage.
THEOREM NothingIsLeaked == GatewaySpec => []RequestsHold
<1>1. GatewayInv /\ [GatewayNext]_gatewayVars => GatewayInv'
  <2> SUFFICES ASSUME GatewayInv, [GatewayNext]_gatewayVars PROVE GatewayInv'
    OBVIOUS
  <2>1. ASSUME NEW c \in Client, admission_middleware(c) \/ DeadlinePasses(c)
        PROVE  GatewayInv'
    BY <2>1, AdmissionKeeps, DeadlinePassesKeeps
  <2>2. ASSUME NEW c \in Client, DeadlineInLine(c) \/ Disconnect(c)
        PROVE  GatewayInv'
    BY <2>2, EndsKeep
  <2>3. ASSUME NEW c \in Client, RequestProceeds(c)
        PROVE  GatewayInv'
    BY <2>3, EnterKeeps, ChooseKeeps, AdmitWorkerKeeps, BeginExecutionKeeps, SendKeeps,
       AnsweredKeeps, TransientStatusKeeps, AttemptFailsKeeps, ScheduleRetryKeeps, DeniedKeeps,
       ReserveKeeps, ReserveAgainKeeps, WaitForRetryKeeps, EndsKeep DEF RequestProceeds
  <2>4. CASE Refresh
    <3>1. pool' \in 1..MaxPools
      BY <2>4, RequestConfig DEF Refresh, GatewayInv, BoundsInv
    <3> QED BY <2>4, <3>1, RefreshKeeps DEF Refresh
  <2>5. CASE UNCHANGED gatewayVars
    <3>1. pool' \in 1..MaxPools /\ UNCHANGED <<request, shared, outstanding, budget>>
      BY <2>5 DEF gatewayVars, GatewayInv, BoundsInv
    <3> QED BY <3>1, RefreshKeeps
  <2> QED BY <2>1, <2>2, <2>3, <2>4, <2>5 DEF GatewayNext
<1> QED BY <1>1, GatewayInitial, GatewayHolds, PTL DEF GatewaySpec

-----------------------------------------------------------------------------
(* The circuit breaker: any number of concurrent attempts, any window, any     *)
(* times.                                                                    *)


\* No running attempt carries a generation that is still to come.
NoFutureAttempts ==
    \A a \in Attempt : attempt[a] # NotRunning => attempt[a].generation <= generation

Inv == TypeOK /\ OneProbe /\ WindowIsFresh /\ NoFutureAttempts

\* A pushed window stays within window_size, and holds only what it held and
\* the new outcome (resolve: push_back, pop_front).
LEMMA PushedWindow ==
    ASSUME NEW S, NEW w \in Seq(S), NEW e \in S, Len(w) <= window_size
    PROVE  /\ Pushed(w, e) \in Seq(S)
           /\ Len(Pushed(w, e)) <= window_size
           /\ \A i \in DOMAIN Pushed(w, e) :
                 Pushed(w, e)[i] = e \/ \E j \in DOMAIN w : Pushed(w, e)[i] = w[j]
<1>. DEFINE longer == Append(w, e)
<1>0. window_size \in Nat BY ConfigIsValid
<1>1. /\ longer \in Seq(S) /\ Len(longer) = Len(w) + 1
      /\ \A i \in 1..Len(longer) : longer[i] = IF i <= Len(w) THEN w[i] ELSE e
  OBVIOUS
<1>2. Tail(longer) \in Seq(S) /\ Len(Tail(longer)) = Len(w)
      /\ \A i \in 1..Len(w) : Tail(longer)[i] = longer[i + 1]
  BY <1>1
<1>3. CASE Len(longer) > window_size
  <2>1. Pushed(w, e) = Tail(longer) BY <1>3 DEF Pushed
  <2>. QED BY <2>1, <1>0, <1>1, <1>2
<1>4. CASE ~(Len(longer) > window_size)
  <2>1. Pushed(w, e) = longer BY <1>4 DEF Pushed
  <2>. QED BY <2>1, <1>0, <1>1, <1>4
<1>. QED BY <1>3, <1>4

\* The breaker starts closed with no attempt running.
LEMMA InitInv == Init => Inv
<1>. SUFFICES ASSUME Init PROVE Inv
  OBVIOUS
<1>1. TypeOK
  <2>1. /\ outcomes \in Seq([failed : BOOLEAN, generation : Nat])
        /\ Len(outcomes) <= window_size
    BY ConfigIsValid DEF Init
  <2>2. attempt \in [Attempt -> [kind : AttemptKind, generation : Nat] \cup {NotRunning}]
    BY DEF Init
  <2>. QED BY <2>1, <2>2 DEF Init, TypeOK, CircuitStateName
<1>2. Probes = {} BY DEF Init, Probes, NotRunning
<1>3. OneProbe BY <1>2 DEF Init, OneProbe
<1>4. WindowIsFresh BY DEF Init, WindowIsFresh
<1>5. NoFutureAttempts BY DEF Init, NoFutureAttempts
<1>. QED BY <1>1, <1>3, <1>4, <1>5 DEF Inv

\* An attempt on a closed circuit disturbs nothing (try_acquire).
LEMMA AcquireClosedInv ==
    ASSUME Inv, NEW a \in Attempt, AcquireClosed(a) PROVE Inv'
  BY DEF Inv, TypeOK, OneProbe, Probes, WindowIsFresh, NoFutureAttempts, NotRunning,
         CircuitStateName, AttemptKind, AcquireClosed, Begin, circuit

\* A probe is let in only when none runs (try_acquire).
LEMMA AcquireProbeInv ==
    ASSUME Inv, NEW a \in Attempt, NEW now \in 0..clock, AcquireProbe(a, now)
    PROVE  Inv'
<1>1. Probes = {}
  BY DEF Inv, OneProbe, AcquireProbe, MayProbe, OpenIsOver
<1>2. TypeOK'
  BY DEF Inv, TypeOK, NotRunning, CircuitStateName, AttemptKind, AcquireProbe, Begin
<1>3. OneProbe'
  BY <1>1 DEF Inv, TypeOK, OneProbe, Probes, NotRunning, AcquireProbe, Begin
<1>4. WindowIsFresh' /\ NoFutureAttempts'
  BY DEF Inv, TypeOK, WindowIsFresh, NoFutureAttempts, NotRunning, AcquireProbe, Begin
<1>. QED BY <1>2, <1>3, <1>4 DEF Inv

\* Once an attempt has ended without touching the circuit, all else stands.
LEMMA ResolveLateInv ==
    ASSUME Inv, NEW a \in Attempt, ResolveLate(a) PROVE Inv'
<1>1. attempt[a].generation # generation \/ attempt[a].kind # state
  BY DEF ResolveLate, StillCounts
<1>2. a \notin Probes
  BY <1>1 DEF Inv, OneProbe, Probes
<1>3. Probes' = Probes
  BY <1>2 DEF Inv, TypeOK, Probes, NotRunning, ResolveLate, End, circuit
<1>. QED
  BY <1>3 DEF Inv, TypeOK, OneProbe, WindowIsFresh, NoFutureAttempts, NotRunning,
              ResolveLate, End, circuit

\* The generation grows: no attempt of the new one runs yet.
LEMMA NewGeneration ==
    ASSUME Inv, NEW a \in Attempt, End(a), generation' = generation + 1
    PROVE  Probes' = {} /\ NoFutureAttempts'
  BY DEF Inv, TypeOK, NoFutureAttempts, Probes, NotRunning, End

\* An outcome on the closed circuit enters the window, which may open it.
LEMMA ResolveClosedInv ==
    ASSUME Inv, NEW a \in Attempt, NEW failed \in BOOLEAN, NEW now \in 0..clock,
           ResolveClosed(a, failed, now)
    PROVE  Inv'
<1>. DEFINE e == [failed |-> failed, generation |-> attempt[a].generation]
<1>1. /\ state = "Closed" /\ attempt[a].generation = generation
      /\ attempt[a] # NotRunning
  BY DEF ResolveClosed, StillCounts, End
<1>2. /\ outcomes' = Pushed(outcomes, e)
      /\ e \in [failed : BOOLEAN, generation : Nat]
  BY <1>1 DEF ResolveClosed, Inv, TypeOK
<1>3. /\ outcomes' \in Seq([failed : BOOLEAN, generation : Nat])
      /\ Len(outcomes') <= window_size
      /\ \A i \in DOMAIN outcomes' :
            outcomes'[i] = e \/ \E j \in DOMAIN outcomes : outcomes'[i] = outcomes[j]
  <2>. DEFINE S == [failed : BOOLEAN, generation : Nat]
  <2>1. outcomes \in Seq(S) /\ Len(outcomes) <= window_size BY DEF Inv, TypeOK
  <2>2. e \in S BY <1>2
  <2>. HIDE DEF S, e
  <2>3. /\ Pushed(outcomes, e) \in Seq(S)
        /\ Len(Pushed(outcomes, e)) <= window_size
        /\ \A i \in DOMAIN Pushed(outcomes, e) :
              \/ Pushed(outcomes, e)[i] = e
              \/ \E j \in DOMAIN outcomes : Pushed(outcomes, e)[i] = outcomes[j]
    BY <2>1, <2>2, PushedWindow
  <2>. QED BY <1>2, <2>3 DEF S
<1>4. \A i \in DOMAIN outcomes' : outcomes'[i].generation = generation
  BY <1>1, <1>3 DEF Inv, WindowIsFresh
<1>5. CASE open_circuit(now)
  <2>1. Probes' = {} /\ NoFutureAttempts'
    BY <1>5, NewGeneration DEF open_circuit, ResolveClosed
  <2>2. TypeOK'
    BY <1>3, <1>5, ConfigIsValid
       DEF Inv, TypeOK, open_circuit, ResolveClosed, End, NotRunning, CircuitStateName
  <2>. QED BY <1>5, <2>1, <2>2 DEF Inv, OneProbe, WindowIsFresh, open_circuit
<1>6. CASE UNCHANGED <<state, until, probe, generation>>
  <2>1. TypeOK'
    BY <1>3, <1>6 DEF Inv, TypeOK, ResolveClosed, End, NotRunning
  <2>2. Probes = {} BY <1>1 DEF Inv, OneProbe
  <2>3. Probes' = {}
    BY <1>6, <2>2 DEF Probes, ResolveClosed, End, NotRunning, Inv, TypeOK
  <2>4. NoFutureAttempts'
    BY <1>6 DEF Inv, TypeOK, NoFutureAttempts, ResolveClosed, End, NotRunning
  <2>. QED BY <1>1, <1>4, <1>6, <2>1, <2>3, <2>4 DEF Inv, OneProbe, WindowIsFresh
<1>. QED BY <1>5, <1>6 DEF ResolveClosed

\* A failed probe opens the circuit again, a good one closes it.
LEMMA ProbeEndsInv ==
    ASSUME Inv, NEW a \in Attempt,
           ProbeSucceeds(a) \/ \E now \in 0..clock : ProbeFails(a, now)
    PROVE  Inv'
<1>1. attempt[a].generation \in Nat
  BY DEF ProbeSucceeds, ProbeFails, End, Inv, TypeOK
<1>2. CASE ProbeSucceeds(a)
  <2>1. Probes' = {} /\ NoFutureAttempts'
    BY <1>2, NewGeneration DEF ProbeSucceeds, Recover
  <2>2. TypeOK'
    BY <1>2, ConfigIsValid
       DEF Inv, TypeOK, ProbeSucceeds, Recover, End, NotRunning, CircuitStateName
  <2>. QED BY <1>2, <2>1, <2>2 DEF Inv, OneProbe, WindowIsFresh, ProbeSucceeds, Recover
<1>3. ASSUME NEW now \in 0..clock, ProbeFails(a, now) PROVE Inv'
  <2>1. Probes' = {} /\ NoFutureAttempts'
    BY <1>3, NewGeneration DEF ProbeFails, open_circuit
  <2>2. TypeOK'
    BY <1>1, <1>3, ConfigIsValid
       DEF Inv, TypeOK, ProbeFails, open_circuit, End, NotRunning, CircuitStateName
  <2>. QED BY <1>3, <2>1, <2>2 DEF Inv, OneProbe, WindowIsFresh, ProbeFails, open_circuit
<1>. QED BY <1>2, <1>3

\* A dropped attempt frees the probe slot exactly when it held it (cancel).
LEMMA DropInv ==
    ASSUME Inv, NEW a \in Attempt, Drop(a) PROVE Inv'
<1>1. TypeOK' /\ WindowIsFresh' /\ NoFutureAttempts'
  BY DEF Inv, TypeOK, WindowIsFresh, NoFutureAttempts, NotRunning, Drop, cancel, End
<1>2. Probes' = Probes \ {a}
  BY DEF Inv, TypeOK, Probes, NotRunning, Drop, cancel, End
<1>3. CASE a \in Probes
  <2>1. Probes' = {} /\ state = "HalfOpen" BY <1>2, <1>3 DEF Inv, OneProbe
  <2>2. state' = "HalfOpen" /\ probe' = FALSE
    BY <1>3, <2>1 DEF Probes, Drop, cancel, StillCounts
  <2>. QED BY <1>1, <2>1, <2>2 DEF Inv, OneProbe
<1>4. CASE a \notin Probes
  <2>1. Probes' = Probes BY <1>2, <1>4
  <2>2. state' = state /\ probe' = probe
    BY <1>4 DEF Probes, Drop, cancel, StillCounts
  <2>. QED BY <1>1, <2>1, <2>2 DEF Inv, OneProbe
<1>. QED BY <1>3, <1>4

\* Every step of the breaker keeps the invariant.
LEMMA NextInv == Inv /\ [Next]_vars => Inv'
<1>. SUFFICES ASSUME Inv, [Next]_vars PROVE Inv'
  OBVIOUS
<1>1. ASSUME NEW now \in 0..clock, Snapshot(now) PROVE Inv'
  BY <1>1 DEF Inv, TypeOK, OneProbe, Probes, WindowIsFresh, NoFutureAttempts,
              CircuitStateName, Snapshot, OpenIsOver
<1>2. CASE Tick
  BY <1>2 DEF Inv, TypeOK, OneProbe, Probes, WindowIsFresh, NoFutureAttempts, Tick, circuit
<1>3. CASE UNCHANGED vars
  BY <1>3 DEF Inv, TypeOK, OneProbe, Probes, WindowIsFresh, NoFutureAttempts, vars, circuit
<1>. QED
  BY <1>1, <1>2, <1>3, AcquireClosedInv, AcquireProbeInv, ResolveLateInv,
     ResolveClosedInv, ProbeEndsInv, DropInv DEF Next, Running

\* The invariant holds in every reachable state.
THEOREM Invariance == Spec => []Inv
  BY InitInv, NextInv, PTL DEF Spec

\* At most one probe of a half-open circuit runs, and the flag says so: the
\* breaker is never blocked by a probe that is gone (try_acquire, cancel).
THEOREM SingleProbe == Spec => []OneProbe
<1>1. Inv => OneProbe BY DEF Inv
<1>. QED BY <1>1, Invariance, PTL

\* A closed circuit's window only counts attempts begun since it closed, and
\* has at most window_size outcomes (resolve).
THEOREM FreshWindow == Spec => [](TypeOK /\ WindowIsFresh)
<1>1. Inv => TypeOK /\ WindowIsFresh BY DEF Inv
<1>. QED BY <1>1, Invariance, PTL

\* The circuit is sound at all times: its types, its one probe and its fresh
\* window (try_acquire_at, resolve, cancel).
THEOREM CircuitSound == Spec => []CircuitIsSound
<1>1. Inv => CircuitIsSound BY DEF Inv, CircuitIsSound
<1>. QED BY <1>1, Invariance, PTL

\* While a circuit is open nobody gets in early and nothing shortens the
\* period, whatever time an operation read (refresh_open_state).
THEOREM OpenPeriodHolds == Spec => OpenKeepsOut
<1>. DEFINE A == state = "Open" /\ clock < until =>
          /\ state' = "Open" /\ until' = until
          /\ \A a \in Attempt : attempt[a] = NotRunning => attempt'[a] = NotRunning
<1>1. Inv /\ [Next]_vars => [A]_vars
  <2>. SUFFICES ASSUME Inv, [Next]_vars, state = "Open", clock < until
               PROVE  /\ state' = "Open" /\ until' = until
                      /\ \A a \in Attempt : attempt[a] = NotRunning => attempt'[a] = NotRunning
    OBVIOUS
  <2>0. clock \in Nat /\ until \in Nat BY DEF Inv, TypeOK
  <2>1. \A now \in 0..clock : ~OpenIsOver(now) BY <2>0 DEF OpenIsOver
  <2>2. \A a \in Attempt : StillCounts(a) => attempt[a].kind = "Open" BY DEF StillCounts
  <2>3. \A a \in Running : ~StillCounts(a)
    BY <2>2 DEF Running, Inv, TypeOK, AttemptKind
  <2>4. CASE \E a \in Running : ResolveLate(a)
    BY <2>4 DEF ResolveLate, End, circuit, Running, Inv, TypeOK, NotRunning
  <2>5. CASE \E a \in Running : Drop(a)
    BY <2>5 DEF Drop, cancel, End, Running, Inv, TypeOK, NotRunning
  <2>6. CASE Tick BY <2>6 DEF Tick, circuit
  <2>7. CASE UNCHANGED vars BY <2>7 DEF vars, circuit
  <2>. QED
    BY <2>1, <2>3, <2>4, <2>5, <2>6, <2>7
       DEF Next, AcquireClosed, AcquireProbe, MayProbe, Snapshot, ResolveClosed,
           ProbeFails, ProbeSucceeds
<1>. QED BY <1>1, Invariance, PTL DEF Spec, OpenKeepsOut

-----------------------------------------------------------------------------
(* The paged cache.  First the numbers: how many pages rows take, and where  *)
(* in them a row is.                                                         *)

\* A nonempty set of numbers has a least one.
LEMMA LeastOf ==
    ASSUME NEW S \in SUBSET Nat, S # {}
    PROVE  \E m \in S : \A k \in S : m <= k
<1>1. PICK R : R = OpToRel(<, Nat)
    OBVIOUS
<1>2. IsWellFoundedOn(R, Nat)
    BY <1>1, NatLessThanWellFounded
<1>3. \A a, b \in Nat : <<a, b>> \in R <=> a < b
    BY <1>1 DEF OpToRel
<1>4. PICK m \in S : \A k \in S : <<k, m>> \notin R
    BY <1>2, WFMin
<1>5. \A k \in S : ~ (k < m)
    BY <1>3, <1>4
<1>6. \A k \in S : m <= k
    BY <1>5
<1> QED
    BY <1>6

\* What lies before the last number.
LEMMA Inner ==
    ASSUME NEW n \in Nat
    PROVE  \A i \in 1..(n - 1) : i \in 1..n /\ i # n
    OBVIOUS

\* A smaller number leaves room for one more.
LEMMA Below ==
    ASSUME NEW a \in Nat, NEW b \in Nat, a < b
    PROVE  a + 1 <= b
    OBVIOUS

\* The next of b places, and its index from 0.
LEMMA RowPlace ==
    ASSUME NEW a \in Nat, NEW b \in Nat, NEW cap \in Nat, a < b, b <= cap
    PROVE  a + 1 \in 1..b /\ a \in 0..(cap - 1)
    OBVIOUS

\* Evictions only shorten the directory.
LEMMA Fewer ==
    ASSUME NEW a \in Nat, NEW k \in 0..a, NEW cap \in Nat, a <= cap
    PROVE  a - k <= cap
    OBVIOUS

\* A set of numbers that holds 0 and with each its successor is all of them.
LEMMA SetInduction ==
    ASSUME NEW S \in SUBSET Nat, 0 \in S, \A n \in S : n + 1 \in S
    PROVE  S = Nat
<1>1. SUFFICES ASSUME Nat \ S # {} PROVE FALSE
    OBVIOUS
<1>2. PICK m \in Nat \ S : \A k \in Nat \ S : m <= k
    BY <1>1, LeastOf
<1>3. m # 0 /\ m - 1 \in Nat /\ m - 1 < m
    OBVIOUS
<1>4. m - 1 \in S
    BY <1>2, <1>3
<1>5. (m - 1) + 1 \in S /\ (m - 1) + 1 = m
    BY <1>4
<1>6. QED
    BY <1>5

\* How many pages n rows take.
Ceil(n) == (n + page_tokens - 1) \div page_tokens
Page(i) == ((i - 1) \div page_tokens) + 1
Slot(i) == ((i - 1) % page_tokens) + 1

\* A larger factor makes a product larger by at least the other.
LEMMA TimesGrows ==
    ASSUME NEW a \in Nat, NEW b \in Nat, NEW c \in Nat, a < b
    PROVE  c * a + c <= c * b /\ c * a \in Nat /\ c * b \in Nat
<1>1. PICK d \in Nat : b = a + 1 + d
  <2>1. b - a - 1 \in Nat /\ b = a + 1 + (b - a - 1)
    OBVIOUS
  <2> QED
    BY <2>1
<1>2. c * b = c * a + c + c * d /\ c * d \in Nat /\ c * a \in Nat
    BY <1>1
<1> QED
    BY <1>2

\* Quotient and remainder.
LEMMA DivMod ==
    ASSUME NEW n \in Nat, NEW t \in Nat \ {0}
    PROVE  \E d \in Nat, r \in 0..(t - 1) : d = n \div t /\ r = n % t /\ n = t * d + r
<1>1. n \div t \in Nat /\ t * (n \div t) <= n /\ n < t * (n \div t) + t
    OBVIOUS
<1>2. n % t \in 0..(t - 1)
    OBVIOUS
<1>3. n % t = n - t * (n \div t)
    OBVIOUS
<1>4. PICK d, r, m : d = n \div t /\ r = n % t /\ m = t * d
    OBVIOUS
<1>5. d \in Nat /\ r \in 0..(t - 1) /\ m \in Nat /\ r = n - m
    BY <1>1, <1>2, <1>3, <1>4
<1>6. n = m + r
    BY <1>5
<1> QED
    BY <1>4, <1>5, <1>6, Zenon

\* Quotient and remainder are unique.
LEMMA DivModUnique ==
    ASSUME NEW t \in Nat \ {0}, NEW a \in Nat, NEW b \in Nat, NEW x \in 0..(t - 1), NEW y \in 0..(t - 1),
           t * a + x = t * b + y
    PROVE  a = b /\ x = y
<1>1. t * a \in Nat /\ t * b \in Nat
    OBVIOUS
<1>2. ~ (a < b)
    BY <1>1, TimesGrows
<1>3. ~ (b < a)
    BY <1>1, TimesGrows
<1>4. a = b
    BY <1>2, <1>3
<1> QED
    BY <1>1, <1>4

\* A page has room for a row.
LEMMA PageTokens == page_tokens \in Nat \ {0}
    BY PagesType

\* The page and the place in it of the n-th row, counted from 0.
LEMMA CeilIs ==
    ASSUME NEW n \in Nat
    PROVE  /\ Ceil(n) \in Nat
           /\ Ceil(n + 1) = n \div page_tokens + 1
           /\ n % page_tokens = 0 => Ceil(n + 1) = Ceil(n) + 1
           /\ n % page_tokens # 0 => Ceil(n + 1) = Ceil(n)
           /\ Page(n + 1) = Ceil(n + 1) /\ Slot(n + 1) = (n % page_tokens) + 1
<1>1. PICK t \in Nat \ {0} : t = page_tokens
    BY PageTokens
<1>2. PICK a \in Nat, x \in 0..(t - 1) : a = n \div t /\ x = n % t /\ n = t * a + x
    BY DivMod
<1>3. PICK b \in Nat, y \in 0..(t - 1) :
        b = (n + t) \div t /\ y = (n + t) % t /\ n + t = t * b + y
  <2>1. n + t \in Nat
    OBVIOUS
  <2> QED
    BY <2>1, DivMod
<1>4. PICK c \in Nat, z \in 0..(t - 1) :
        c = (n + t - 1) \div t /\ z = (n + t - 1) % t /\ n + t - 1 = t * c + z
  <2>1. n + t - 1 \in Nat
    OBVIOUS
  <2> QED
    BY <2>1, DivMod
<1>5. t * (a + 1) = t * a + t /\ t * a \in Nat
    BY <1>2
<1>6. b = a + 1
  <2>1. t * b + y = t * (a + 1) + x
    BY <1>2, <1>3, <1>5
  <2>2. a + 1 \in Nat
    OBVIOUS
  <2> QED
    BY <2>1, <2>2, DivModUnique
<1>7. x = 0 => c = a
  <2>1. ASSUME x = 0 PROVE t * c + z = t * a + (t - 1)
    BY <1>2, <1>4, <1>5, <2>1
  <2>2. t - 1 \in 0..(t - 1)
    OBVIOUS
  <2> QED
    BY <2>1, <2>2, DivModUnique
<1>8. x # 0 => c = a + 1
  <2>1. ASSUME x # 0 PROVE t * c + z = t * (a + 1) + (x - 1)
    BY <1>2, <1>4, <1>5, <2>1
  <2>2. ASSUME x # 0 PROVE x - 1 \in 0..(t - 1)
    BY <2>2
  <2> QED
    BY <2>1, <2>2, DivModUnique
<1>9. Ceil(n) = c
    BY <1>1, <1>4 DEF Ceil
<1>10. Ceil(n + 1) = b
  <2>1. n + 1 + t - 1 = n + t
    OBVIOUS
  <2> QED
    BY <1>1, <1>3, <2>1 DEF Ceil
<1>11. Page(n + 1) = a + 1 /\ Slot(n + 1) = x + 1
  <2>1. (n + 1) - 1 = n
    OBVIOUS
  <2> QED
    BY <1>1, <1>2, <2>1 DEF Page, Slot
<1> QED
    BY <1>1, <1>2, <1>6, <1>7, <1>8, <1>9, <1>10, <1>11

\* More rows take no fewer pages.
LEMMA CeilGrows ==
    ASSUME NEW m \in Nat, NEW n \in Nat, m <= n
    PROVE  Ceil(m) <= Ceil(n) /\ Ceil(m) \in Nat /\ Ceil(n) \in Nat
<1>1. PICK t \in Nat \ {0} : t = page_tokens
    BY PageTokens
<1>2. PICK a \in Nat, x \in 0..(t - 1) :
        a = (m + t - 1) \div t /\ m + t - 1 = t * a + x
  <2>1. m + t - 1 \in Nat
    OBVIOUS
  <2> QED
    BY <2>1, DivMod
<1>3. PICK b \in Nat, y \in 0..(t - 1) :
        b = (n + t - 1) \div t /\ n + t - 1 = t * b + y
  <2>1. n + t - 1 \in Nat
    OBVIOUS
  <2> QED
    BY <2>1, DivMod
<1>4. ~ (b < a)
  <2>1. SUFFICES ASSUME b < a PROVE FALSE
    OBVIOUS
  <2>2. t * b + t <= t * a /\ t * b \in Nat /\ t * a \in Nat
    BY <2>1, TimesGrows
  <2> QED
    BY <1>2, <1>3, <2>2
<1>5. Ceil(m) = a /\ Ceil(n) = b
    BY <1>1, <1>2, <1>3 DEF Ceil
<1> QED
    BY <1>4, <1>5

\* Where the i-th of n rows is.
LEMMA PlaceIs ==
    ASSUME NEW n \in Nat, NEW i \in 1..n
    PROVE  /\ Page(i) \in 1..Ceil(n) /\ Slot(i) \in 1..page_tokens /\ Page(i) = Ceil(i)
           /\ i = page_tokens * (Page(i) - 1) + Slot(i)
<1>1. PICK k \in Nat : i = k + 1
  <2>1. i - 1 \in Nat /\ i = (i - 1) + 1
    OBVIOUS
  <2> QED
    BY <2>1
<1>2. Page(i) = Ceil(i) /\ Slot(i) = (k % page_tokens) + 1 /\ Ceil(i) = k \div page_tokens + 1
    BY <1>1, CeilIs
<1>3. PICK d \in Nat, r \in 0..(page_tokens - 1) :
        d = k \div page_tokens /\ r = k % page_tokens /\ k = page_tokens * d + r
    BY PageTokens, DivMod
<1>4. Ceil(i) <= Ceil(n) /\ Ceil(n) \in Nat
    BY CeilGrows
<1>5. Page(i) \in 1..Ceil(n)
    BY <1>2, <1>3, <1>4
<1>6. Slot(i) \in 1..page_tokens
    BY <1>2, <1>3, PageTokens
<1>7. i = page_tokens * (Page(i) - 1) + Slot(i)
  <2>2. Page(i) - 1 = d /\ Slot(i) = r + 1 /\ d \in Nat /\ r \in Nat
    BY <1>2, <1>3, PageTokens
  <2>3. page_tokens * d \in Nat /\ k = page_tokens * d + r
    BY <1>3, <2>2, PageTokens
  <2>4. k + 1 = page_tokens * d + (r + 1)
    BY <2>2, <2>3
  <2> QED
    BY <1>1, <2>2, <2>4
<1> QED
    BY <1>2, <1>5, <1>6, <1>7

-----------------------------------------------------------------------------
(* Tables of pages, and the pool's operations on them.                       *)

Row == Token \X (0..(context_length - 1))
Pool(r, c, f, x) == [rows |-> r, references |-> c, free_pages |-> f, prefixes |-> x]

\* A list of pages that names none twice.
Named(table) == table \in Seq(PageId) /\ IsInjective(table)

\* Rows, references and the free list fit each other.
Booked(r, c, f) ==
    /\ r \in [PageId -> Seq(Row)] /\ \A p \in PageId : Len(r[p]) <= page_tokens
    /\ c \in [PageId -> Nat] /\ Named(f)
    /\ \A p \in PageId : (p \in Owned(f) <=> c[p] = 0) /\ (c[p] = 0 => r[p] = << >>)

In(p, table) == IF p \in Owned(table) THEN 1 ELSE 0

\* The places and members of a sequence.
LEMMA SeqFacts ==
    ASSUME NEW S, NEW s \in Seq(S)
    PROVE  /\ DOMAIN s = 1..Len(s) /\ Len(s) \in Nat
           /\ \A i \in 1..Len(s) : s[i] \in S
           /\ Owned(s) \subseteq S
    BY DEF Owned

\* What Append adds to a sequence.
LEMMA OwnedAppend ==
    ASSUME NEW S, NEW s \in Seq(S), NEW e \in S
    PROVE  /\ Append(s, e) \in Seq(S) /\ Len(Append(s, e)) = Len(s) + 1
           /\ Owned(Append(s, e)) = Owned(s) \cup {e}
           /\ \A i \in 1..Len(s) : Append(s, e)[i] = s[i]
           /\ Append(s, e)[Len(s) + 1] = e
<1>1. PICK u : u = Append(s, e)
    OBVIOUS
<1>2. /\ u \in Seq(S) /\ Len(u) = Len(s) + 1 /\ DOMAIN u = 1..(Len(s) + 1) /\ DOMAIN s = 1..Len(s)
      /\ \A i \in 1..Len(s) : u[i] = s[i]
      /\ u[Len(s) + 1] = e /\ Len(s) \in Nat
    BY <1>1
<1>3. Owned(u) \subseteq Owned(s) \cup {e}
  <2>1. \A i \in DOMAIN u : i = Len(s) + 1 \/ i \in DOMAIN s
    BY <1>2
  <2> QED
    BY <1>2, <2>1 DEF Owned
<1>4. Owned(s) \subseteq Owned(u)
  <2>1. \A i \in DOMAIN s : i \in DOMAIN u
    BY <1>2
  <2> QED
    BY <1>2, <2>1 DEF Owned
<1>5. e \in Owned(u)
  <2>1. Len(s) + 1 \in DOMAIN u
    BY <1>2
  <2> QED
    BY <1>2, <2>1 DEF Owned
<1> QED
    BY <1>1, <1>2, <1>3, <1>4, <1>5

\* The last member of a sequence.
LEMMA LastIn ==
    ASSUME NEW S, NEW s \in Seq(S), s # << >>
    PROVE  Last(s) = s[Len(s)] /\ Last(s) \in S /\ Last(s) \in Owned(s)
<1>1. Len(s) \in DOMAIN s
    OBVIOUS
<1> QED
    BY <1>1 DEF Last, Owned

\* The first k members of a sequence.
LEMMA FirstOf ==
    ASSUME NEW S, NEW s \in Seq(S), NEW k \in Nat, k <= Len(s)
    PROVE  /\ SubSeq(s, 1, k) \in Seq(S) /\ Len(SubSeq(s, 1, k)) = k
           /\ DOMAIN SubSeq(s, 1, k) = 1..k
           /\ \A i \in 1..k : SubSeq(s, 1, k)[i] = s[i]
    OBVIOUS

\* A table with one more page still names none twice.
LEMMA NamedAppend ==
    ASSUME NEW s, Named(s), NEW e \in PageId, e \notin Owned(s)
    PROVE  Named(Append(s, e))
<1>1. PICK u : u = Append(s, e)
    OBVIOUS
<1>2. s \in Seq(PageId) /\ Len(s) \in Nat /\ DOMAIN s = 1..Len(s)
    BY SeqFacts DEF Named
<1>3. /\ u \in Seq(PageId) /\ Len(u) = Len(s) + 1
      /\ \A i \in 1..Len(s) : u[i] = s[i] /\ u[i] # e
      /\ u[Len(s) + 1] = e
  <2>1. \A i \in 1..Len(s) : s[i] # e
    BY <1>2 DEF Owned
  <2> QED
    BY <1>1, <1>2, <2>1, OwnedAppend
<1>4. DOMAIN u = 1..(Len(s) + 1)
    BY <1>3, SeqFacts
<1>5. ASSUME NEW a \in DOMAIN u, NEW b \in DOMAIN u, u[a] = u[b] PROVE a = b
  <2>1. CASE a = Len(s) + 1
    BY <1>2, <1>3, <1>4, <1>5, <2>1
  <2>2. CASE b = Len(s) + 1
    BY <1>2, <1>3, <1>4, <1>5, <2>2
  <2>3. CASE a \in 1..Len(s) /\ b \in 1..Len(s)
    BY <1>2, <1>3, <1>5, <2>3 DEF Named, IsInjective
  <2> QED
    BY <1>2, <1>4, <2>1, <2>2, <2>3
<1> QED
    BY <1>1, <1>3, <1>5 DEF Named, IsInjective

Backs(free, table, unused, n, g) ==
    g = [i \in 0..n |-> IF i = 0 THEN free
                        ELSE IF table[i] \in unused THEN Append(g[i - 1], table[i])
                        ELSE g[i - 1]]

\* The recursive function of GivenBack exists.
LEMMA BacksExist ==
    ASSUME NEW free, NEW table, NEW unused
    PROVE  \A n \in Nat : \E g : Backs(free, table, unused, n, g)
<1>1. PICK S \in SUBSET Nat : S = {n \in Nat : \E g : Backs(free, table, unused, n, g)}
    OBVIOUS
<1>2. 0 \in S
  <2>1. PICK g : g = [i \in 0..0 |-> free]
    OBVIOUS
  <2>2. Backs(free, table, unused, 0, g)
    BY <2>1 DEF Backs
  <2> QED
    BY <1>1, <2>2
<1>3. ASSUME NEW n \in S PROVE n + 1 \in S
  <2>1. n \in Nat /\ \E g : Backs(free, table, unused, n, g)
    BY <1>1, <1>3
  <2>2. PICK g : Backs(free, table, unused, n, g)
    BY <2>1
  <2>3. PICK h : h = [i \in 0..(n + 1) |->
                        IF i # n + 1 THEN g[i]
                        ELSE IF table[i] \in unused THEN Append(g[n], table[i]) ELSE g[n]]
    OBVIOUS
  <2>4. \A i \in 0..n : g[i] = IF i = 0 THEN free
                               ELSE IF table[i] \in unused THEN Append(g[i - 1], table[i])
                               ELSE g[i - 1]
    BY <2>2 DEF Backs
  <2>5. ASSUME NEW i \in 0..(n + 1)
        PROVE  h[i] = IF i = 0 THEN free
                      ELSE IF table[i] \in unused THEN Append(h[i - 1], table[i])
                      ELSE h[i - 1]
    <3>1. CASE i = n + 1
      <4>1. i # 0 /\ i - 1 = n /\ h[n] = g[n]
        BY <2>1, <2>3, <3>1
      <4> QED
        BY <2>3, <3>1, <4>1
    <3>2. CASE i = 0
      BY <2>1, <2>3, <2>4, <3>2
    <3>3. CASE i \in 1..n
      <4>1. h[i] = g[i] /\ h[i - 1] = g[i - 1]
        BY <2>1, <2>3, <3>3
      <4>2. i \in 0..n /\ i # 0
        BY <2>1, <3>3
      <4> QED
        BY <2>4, <4>1, <4>2
    <3> QED
      BY <2>1, <3>1, <3>2, <3>3
  <2>6. n + 1 \in Nat /\ Backs(free, table, unused, n + 1, h)
    BY <2>1, <2>3, <2>5 DEF Backs
  <2> QED
    BY <1>1, <2>6
<1>4. S = Nat
    BY <1>2, <1>3, SetInduction
<1> QED
    BY <1>1, <1>4, Zenon

\* What is given back: the unused pages, once each.
LEMMA GivenBackIs ==
    ASSUME NEW free, Named(free), NEW table, Named(table), Owned(free) \cap Owned(table) = {},
           NEW unused \in SUBSET Owned(table)
    PROVE  /\ Named(GivenBack(free, table, unused))
           /\ Owned(GivenBack(free, table, unused)) = Owned(free) \cup unused
<1>1. PICK N \in Nat : N = Len(table) /\ DOMAIN table = 1..N
    BY SeqFacts DEF Named
<1>2. PICK g : g = CHOOSE h : Backs(free, table, unused, N, h)
    OBVIOUS
<1>3. Backs(free, table, unused, N, g)
    BY <1>2, BacksExist
<1>4. GivenBack(free, table, unused) = g[N]
    BY <1>1, <1>2 DEF GivenBack, Backs
<1>5. /\ g[0] = free
      /\ \A i \in 1..N : g[i] = IF table[i] \in unused THEN Append(g[i - 1], table[i]) ELSE g[i - 1]
  <2>1. \A i \in 0..N : g[i] = IF i = 0 THEN free
                               ELSE IF table[i] \in unused THEN Append(g[i - 1], table[i])
                               ELSE g[i - 1]
    BY <1>3 DEF Backs
  <2>2. 0 \in 0..N /\ \A i \in 1..N : i \in 0..N /\ i # 0
    OBVIOUS
  <2> QED
    BY <2>1, <2>2
<1>6. PICK S \in SUBSET Nat :
        S = {n \in Nat : n <= N =>
                Named(g[n]) /\ Owned(g[n]) = Owned(free) \cup {u \in unused : \E j \in 1..n : table[j] = u}}
    OBVIOUS
<1>7. 0 \in S
  <2>1. {u \in unused : \E j \in 1..0 : table[j] = u} = {}
    OBVIOUS
  <2> QED
    BY <1>5, <1>6, <2>1
<1>8. ASSUME NEW n \in S PROVE n + 1 \in S
  <2>1. n \in Nat
    BY <1>6
  <2>2. SUFFICES ASSUME n + 1 <= N
                 PROVE  /\ Named(g[n + 1])
                        /\ Owned(g[n + 1]) =
                             Owned(free) \cup {u \in unused : \E j \in 1..(n + 1) : table[j] = u}
    BY <1>6, <2>1
  <2>3. Named(g[n]) /\ Owned(g[n]) = Owned(free) \cup {u \in unused : \E j \in 1..n : table[j] = u}
    BY <1>6, <1>8, <2>1, <2>2
  <2>4. PICK e : e = table[n + 1]
    OBVIOUS
  <2>5. n + 1 \in 1..N /\ (n + 1) - 1 = n /\ e \in Owned(table) /\ e \in PageId
    <3>1. n + 1 \in 1..N /\ (n + 1) - 1 = n
      BY <2>1, <2>2
    <3>2. e \in Owned(table)
      BY <1>1, <2>4, <3>1 DEF Owned
    <3> QED
      BY <3>1, <3>2, SeqFacts DEF Named
  <2>6. g[n + 1] = IF e \in unused THEN Append(g[n], e) ELSE g[n]
    BY <1>5, <2>4, <2>5
  <2>7. \A j \in 1..(n + 1) : j = n + 1 \/ j \in 1..n
    BY <2>1
  <2>8. {u \in unused : \E j \in 1..(n + 1) : table[j] = u}
          = {u \in unused : \E j \in 1..n : table[j] = u} \cup ({e} \cap unused)
    <3>1. \A j \in 1..n : j \in 1..(n + 1)
      BY <2>1
    <3>2. n + 1 \in 1..(n + 1)
      BY <2>1
    <3> QED
      BY <2>4, <2>7, <3>1, <3>2
  <2>9. CASE e \in unused
    <3>1. e \notin Owned(g[n])
      <4>1. e \notin Owned(free)
        BY <2>5
      <4>2. \A j \in 1..n : table[j] # e
        BY <1>1, <2>1, <2>2, <2>4, <2>5 DEF Named, IsInjective
      <4> QED
        BY <2>3, <4>1, <4>2
    <3>2. Named(g[n + 1])
      BY <2>3, <2>5, <2>6, <2>9, <3>1, NamedAppend
    <3>3. Owned(g[n + 1]) = Owned(g[n]) \cup {e}
      BY <2>3, <2>5, <2>6, <2>9, OwnedAppend DEF Named
    <3> QED
      BY <2>3, <2>8, <2>9, <3>2, <3>3
  <2>10. CASE e \notin unused
    BY <2>3, <2>6, <2>8, <2>10
  <2> QED
    BY <2>9, <2>10
<1>9. N \in S
    BY <1>7, <1>8, SetInduction
<1>10. Named(g[N]) /\ Owned(g[N]) = Owned(free) \cup {u \in unused : \E j \in 1..N : table[j] = u}
    BY <1>6, <1>9
<1>11. {u \in unused : \E j \in 1..N : table[j] = u} = unused
    BY <1>1 DEF Owned
<1> QED
    BY <1>4, <1>10, <1>11

\* The fields of a pool.
LEMMA PoolFields ==
    ASSUME NEW r, NEW c, NEW f, NEW x
    PROVE  /\ Pool(r, c, f, x).rows = r /\ Pool(r, c, f, x).references = c
           /\ Pool(r, c, f, x).free_pages = f /\ Pool(r, c, f, x).prefixes = x
    BY DEF Pool

\* A pool with one field changed.
LEMMA PoolExcept ==
    ASSUME NEW r, NEW c, NEW f, NEW x, NEW y
    PROVE  /\ [Pool(r, c, f, x) EXCEPT !.rows = y] = Pool(y, c, f, x)
           /\ [Pool(r, c, f, x) EXCEPT !.references = y] = Pool(r, y, f, x)
           /\ [Pool(r, c, f, x) EXCEPT !.free_pages = y] = Pool(r, c, y, x)
           /\ [Pool(r, c, f, x) EXCEPT !.prefixes = y] = Pool(r, c, f, y)
<1>1. [Pool(r, c, f, x) EXCEPT !.rows = y] = Pool(y, c, f, x)
    BY DEF Pool
<1>2. [Pool(r, c, f, x) EXCEPT !.references = y] = Pool(r, y, f, x)
    BY DEF Pool
<1>3. [Pool(r, c, f, x) EXCEPT !.free_pages = y] = Pool(r, c, y, x)
    BY DEF Pool
<1>4. [Pool(r, c, f, x) EXCEPT !.prefixes = y] = Pool(r, c, f, y)
    BY DEF Pool
<1> QED
    BY <1>1, <1>2, <1>3, <1>4

\* retain adds a reference to each page of a table that is in use.
LEMMA TableRetained ==
    ASSUME NEW r, NEW c, NEW f, NEW x, Booked(r, c, f), NEW table, Named(table),
           \A p \in Owned(table) : c[p] # 0
    PROVE  \E c2 : /\ retain(Pool(r, c, f, x), table) = Pool(r, c2, f, x)
                   /\ Booked(r, c2, f)
                   /\ \A p \in PageId : c2[p] = c[p] + In(p, table)
<1>1. PICK c2 : c2 = [p \in PageId |-> c[p] + IF p \in Owned(table) THEN 1 ELSE 0]
    OBVIOUS
<1>2. retain(Pool(r, c, f, x), table) = Pool(r, c2, f, x)
    BY <1>1 DEF retain, Pool
<1>3. \A p \in PageId : c2[p] = c[p] + In(p, table)
    BY <1>1 DEF In
<1>4. c \in [PageId -> Nat]
    BY DEF Booked
<1>5. c2 \in [PageId -> Nat]
    BY <1>1, <1>4
<1>6. \A p \in PageId : c2[p] = 0 <=> c[p] = 0
    BY <1>3, <1>4 DEF In
<1>7. Booked(r, c2, f)
    BY <1>5, <1>6 DEF Booked
<1> QED
    BY <1>2, <1>3, <1>7

\* release takes one from each, and what nobody uses is empty and free.
LEMMA TableReleased ==
    ASSUME NEW r, NEW c, NEW f, NEW x, Booked(r, c, f), NEW table, Named(table),
           \A p \in Owned(table) : c[p] # 0
    PROVE  \E r2, c2, f2 :
                /\ release(Pool(r, c, f, x), table) = Pool(r2, c2, f2, x)
                /\ Booked(r2, c2, f2)
                /\ \A p \in PageId : c2[p] = c[p] - In(p, table) /\ (c2[p] # 0 => r2[p] = r[p])
<1>1. PICK unused : unused = {p \in Owned(table) : c[p] = 1}
    OBVIOUS
<1>2. PICK c2 : c2 = [p \in PageId |-> c[p] - IF p \in Owned(table) THEN 1 ELSE 0]
    OBVIOUS
<1>3. PICK r2 : r2 = [p \in PageId |-> IF p \in unused THEN << >> ELSE r[p]]
    OBVIOUS
<1>4. PICK f2 : f2 = GivenBack(f, table, unused)
    OBVIOUS
<1>5. release(Pool(r, c, f, x), table) = Pool(r2, c2, f2, x)
  <2>1. PICK q : q = Pool(r, c, f, x)
    OBVIOUS
  <2>2. q.references = c /\ q.rows = r /\ q.free_pages = f
    BY <2>1 DEF Pool
  <2>3. unused = {p \in Owned(table) : q.references[p] = 1}
    BY <1>1, <2>2
  <2>4. release(q, table) = [q EXCEPT !.references = c2, !.rows = r2, !.free_pages = f2]
    BY <1>2, <1>3, <1>4, <2>2, <2>3 DEF release
  <2>5. PICK y : y = [q EXCEPT !.references = c2]
    OBVIOUS
  <2>6. y = Pool(r, c2, f, x)
    BY <2>1, <2>5 DEF Pool
  <2>7. PICK z : z = [y EXCEPT !.rows = r2]
    OBVIOUS
  <2>8. z = Pool(r2, c2, f, x)
    BY <2>6, <2>7 DEF Pool
  <2>9. PICK v : v = [z EXCEPT !.free_pages = f2]
    OBVIOUS
  <2>10. v = Pool(r2, c2, f2, x)
    BY <2>8, <2>9 DEF Pool
  <2>11. v = [q EXCEPT !.references = c2, !.rows = r2, !.free_pages = f2]
    BY <2>5, <2>7, <2>9
  <2> QED
    BY <2>1, <2>4, <2>10, <2>11
<1>6. r \in [PageId -> Seq(Row)] /\ c \in [PageId -> Nat] /\ Named(f)
      /\ \A p \in PageId : Len(r[p]) <= page_tokens /\ (p \in Owned(f) <=> c[p] = 0) /\ (c[p] = 0 => r[p] = << >>)
    BY DEF Booked
<1>7. Owned(table) \subseteq PageId
    BY SeqFacts DEF Named
<1>8. Owned(f) \cap Owned(table) = {} /\ unused \in SUBSET Owned(table)
    BY <1>1, <1>6, <1>7
<1>9. Named(f2) /\ Owned(f2) = Owned(f) \cup unused
    BY <1>4, <1>6, <1>8, GivenBackIs
<1>10. c2 \in [PageId -> Nat] /\ \A p \in PageId : c2[p] = c[p] - In(p, table)
  <2>1. \A p \in PageId : c2[p] = c[p] - In(p, table)
    BY <1>2 DEF In
  <2>2. \A p \in PageId : c[p] - In(p, table) \in Nat
    BY <1>6 DEF In
  <2> QED
    BY <1>2, <2>1, <2>2
<1>11. \A p \in PageId : c2[p] = 0 <=> c[p] = 0 \/ p \in unused
    BY <1>1, <1>6, <1>10 DEF In
<1>12. /\ r2 \in [PageId -> Seq(Row)]
       /\ \A p \in PageId : Len(r2[p]) <= page_tokens /\ (c2[p] # 0 => r2[p] = r[p]) /\ (c2[p] = 0 => r2[p] = << >>)
  <2>1. << >> \in Seq(Row) /\ Len(<< >>) = 0 /\ 0 <= page_tokens
    BY PageTokens
  <2>2. \A p \in PageId : r2[p] = IF p \in unused THEN << >> ELSE r[p]
    BY <1>3
  <2>3. r2 \in [PageId -> Seq(Row)]
    BY <1>3, <1>6, <2>1
  <2>4. \A p \in PageId : Len(r2[p]) <= page_tokens
    BY <1>6, <2>1, <2>2
  <2> QED
    BY <1>6, <1>11, <2>2, <2>3, <2>4
<1>13. Booked(r2, c2, f2)
  <2>1. \A p \in PageId : p \in Owned(f2) <=> c2[p] = 0
    BY <1>6, <1>9, <1>11
  <2> QED
    BY <1>9, <1>10, <1>12, <2>1 DEF Booked
<1> QED
    BY <1>5, <1>10, <1>12, <1>13

\* A table without its last page.
LEMMA FrontFacts ==
    ASSUME NEW s, Named(s), s # << >>
    PROVE  /\ Named(Front(s)) /\ Last(s) \in PageId /\ Len(Front(s)) = Len(s) - 1
           /\ \A i \in 1..(Len(s) - 1) : Front(s)[i] = s[i]
           /\ Owned(Front(s)) = Owned(s) \ {Last(s)} /\ Last(s) \in Owned(s)
<1>1. s \in Seq(PageId) /\ Len(s) \in Nat \ {0} /\ DOMAIN s = 1..Len(s)
    BY SeqFacts DEF Named
<1>2. PICK u : u = Front(s)
    OBVIOUS
<1>3. /\ u \in Seq(PageId) /\ Len(u) = Len(s) - 1 /\ DOMAIN u = 1..(Len(s) - 1)
      /\ \A i \in 1..(Len(s) - 1) : u[i] = s[i]
    BY <1>1, <1>2 DEF Front
<1>4. PICK e : e = Last(s) /\ e = s[Len(s)]
    BY DEF Last
<1>5. e \in PageId /\ e \in Owned(s)
    BY <1>1, <1>4, LastIn, SMTT(20)
<1>6. \A i \in 1..(Len(s) - 1) : i \in DOMAIN s /\ i # Len(s)
    BY <1>1, Inner
<1>7. IsInjective(u)
    BY <1>3, <1>6 DEF Named, IsInjective
<1>8. Len(s) \in DOMAIN s /\ \A i \in DOMAIN s : i = Len(s) \/ i \in 1..(Len(s) - 1)
    BY <1>1
<1>9. \A i \in 1..(Len(s) - 1) : s[i] # e
    BY <1>4, <1>6, <1>8 DEF Named, IsInjective
<1>10. Owned(u) = Owned(s) \ {e}
    BY <1>3, <1>4, <1>6, <1>8, <1>9 DEF Owned
<1> QED
    BY <1>2, <1>3, <1>4, <1>5, <1>7, <1>10 DEF Named

\* allocate takes a free page, which is empty, and gives it one reference.
LEMMA Allocated ==
    ASSUME NEW r, NEW c, NEW f, NEW x, Booked(r, c, f), f # << >>
    PROVE  \E c2, f2 :
                /\ allocate(Pool(r, c, f, x)) = Pool(r, c2, f2, x)
                /\ Booked(r, c2, f2)
                /\ Last(f) \in PageId /\ c[Last(f)] = 0 /\ r[Last(f)] = << >>
                /\ \A p \in PageId : c2[p] = IF p = Last(f) THEN 1 ELSE c[p]
<1>1. PICK page : page = Last(f)
    OBVIOUS
<1>2. /\ r \in [PageId -> Seq(Row)] /\ c \in [PageId -> Nat] /\ Named(f)
      /\ \A p \in PageId : Len(r[p]) <= page_tokens /\ (p \in Owned(f) <=> c[p] = 0) /\ (c[p] = 0 => r[p] = << >>)
    BY DEF Booked
<1>3. PICK f2 : f2 = Front(f)
    OBVIOUS
<1>4. Named(f2) /\ page \in PageId /\ Owned(f2) = Owned(f) \ {page} /\ page \in Owned(f)
    BY <1>1, <1>2, <1>3, FrontFacts
<1>5. c[page] = 0 /\ r[page] = << >>
    BY <1>2, <1>4
<1>6. PICK c2 : c2 = [c EXCEPT ![page] = 1]
    OBVIOUS
<1>7. c2 \in [PageId -> Nat] /\ \A p \in PageId : c2[p] = IF p = page THEN 1 ELSE c[p]
    BY <1>2, <1>4, <1>6
<1>8. [r EXCEPT ![page] = << >>] = r
    BY <1>2, <1>5
<1>9. allocate(Pool(r, c, f, x)) = Pool(r, c2, f2, x)
  <2>1. PICK q : q = Pool(r, c, f, x)
    OBVIOUS
  <2>2. q.free_pages = f /\ Last(q.free_pages) = page /\ q.references = c /\ q.rows = r
    BY <1>1, <2>1 DEF Pool
  <2>3. allocate(q) = [q EXCEPT !.references[page] = 1, !.rows[page] = << >>, !.free_pages = Front(@)]
    BY <2>2 DEF allocate
  <2>4. [q EXCEPT !.references[page] = 1, !.rows[page] = << >>, !.free_pages = Front(@)]
          = [q EXCEPT !.references = c2, !.rows = r, !.free_pages = f2]
    BY <1>3, <1>6, <1>8, <2>2
  <2>5. PICK y : y = [q EXCEPT !.references = c2]
    OBVIOUS
  <2>6. y = Pool(r, c2, f, x)
    BY <2>1, <2>5 DEF Pool
  <2>7. PICK z : z = [y EXCEPT !.rows = r]
    OBVIOUS
  <2>8. z = Pool(r, c2, f, x)
    BY <2>6, <2>7 DEF Pool
  <2>9. PICK v : v = [z EXCEPT !.free_pages = f2]
    OBVIOUS
  <2>10. v = Pool(r, c2, f2, x)
    BY <2>8, <2>9 DEF Pool
  <2>11. v = [q EXCEPT !.references = c2, !.rows = r, !.free_pages = f2]
    BY <2>5, <2>7, <2>9
  <2> QED
    BY <2>1, <2>3, <2>4, <2>10, <2>11
<1>10. Booked(r, c2, f2)
    BY <1>2, <1>4, <1>5, <1>7 DEF Booked
<1> QED
    BY <1>1, <1>4, <1>5, <1>7, <1>9, <1>10

-----------------------------------------------------------------------------
(* Who holds a page: sessions by their tables, entries of the directory.     *)

Holders(tab, p) == {s \in Stream : p \in Owned(tab[s])}
Listed(E, p) == {e \in E : p \in Owned(e.pages)}

Counts(c, tab, E) ==
    /\ IsFiniteSet(E)
    /\ \A p \in PageId :
        /\ IsFiniteSet(Holders(tab, p))
        /\ c[p] = Cardinality(Holders(tab, p)) + Cardinality(Listed(E, p))

\* The parts of the count of a page.
LEMMA CountParts ==
    ASSUME NEW c, NEW tab, NEW E, Counts(c, tab, E), NEW p \in PageId
    PROVE  /\ IsFiniteSet(Holders(tab, p)) /\ IsFiniteSet(Listed(E, p))
           /\ Cardinality(Holders(tab, p)) \in Nat /\ Cardinality(Listed(E, p)) \in Nat
           /\ c[p] = Cardinality(Holders(tab, p)) + Cardinality(Listed(E, p))
           /\ c[p] \in Nat
<1>1. IsFiniteSet(Holders(tab, p)) /\ IsFiniteSet(E)
      /\ c[p] = Cardinality(Holders(tab, p)) + Cardinality(Listed(E, p))
    BY DEF Counts
<1>2. Listed(E, p) \subseteq E
    BY DEF Listed
<1>3. IsFiniteSet(Listed(E, p))
    BY <1>1, <1>2, FS_Subset
<1>4. Cardinality(Holders(tab, p)) \in Nat /\ Cardinality(Listed(E, p)) \in Nat
    BY <1>1, <1>3, FS_CardinalityType
<1> QED
    BY <1>1, <1>3, <1>4

\* What somebody holds is counted.
LEMMA HeldCounts ==
    ASSUME NEW c, NEW tab, NEW E, Counts(c, tab, E), NEW p \in PageId
    PROVE  /\ \A s \in Stream : p \in Owned(tab[s]) => c[p] # 0
           /\ \A e \in E : p \in Owned(e.pages) => c[p] # 0
<1>1. PICK h, l : h = Holders(tab, p) /\ l = Listed(E, p)
    OBVIOUS
<1>2. IsFiniteSet(h) /\ IsFiniteSet(l) /\ Cardinality(h) \in Nat /\ Cardinality(l) \in Nat
      /\ c[p] = Cardinality(h) + Cardinality(l)
    BY <1>1, CountParts
<1>3. c[p] = 0 => h = {} /\ l = {}
  <2>1. c[p] = 0 => Cardinality(h) = 0 /\ Cardinality(l) = 0
    BY <1>2
  <2> QED
    BY <1>2, <2>1, FS_EmptySet
<1> QED
    BY <1>1, <1>3 DEF Holders, Listed

\* A page with one reference, which a session holds, nobody else holds.
LEMMA SoleHolder ==
    ASSUME NEW c, NEW tab, NEW E, Counts(c, tab, E), NEW p \in PageId, c[p] = 1,
           NEW s \in Stream, p \in Owned(tab[s])
    PROVE  /\ \A s2 \in Stream : p \in Owned(tab[s2]) => s2 = s
           /\ \A e \in E : p \notin Owned(e.pages)
<1>1. PICK h, l : h = Holders(tab, p) /\ l = Listed(E, p)
    OBVIOUS
<1>2. IsFiniteSet(h) /\ IsFiniteSet(l) /\ Cardinality(h) \in Nat /\ Cardinality(l) \in Nat
      /\ c[p] = Cardinality(h) + Cardinality(l)
    BY <1>1, CountParts
<1>3. s \in h
    BY <1>1 DEF Holders
<1>4. Cardinality(h) # 0
    BY <1>2, <1>3, FS_EmptySet
<1>5. Cardinality(h) = 1 /\ Cardinality(l) = 0
    BY <1>2, <1>4
<1>6. (\E y : h = {y}) /\ l = {}
    BY <1>2, <1>5, FS_EmptySet, FS_Singleton
<1>7. \A s2 \in h : s2 = s
    BY <1>3, <1>6
<1> QED
    BY <1>1, <1>6, <1>7 DEF Holders, Listed

\* A session changes its table.
LEMMA CountsTable ==
    ASSUME NEW c, NEW tab, NEW E, Counts(c, tab, E), NEW s \in Stream, NEW table,
           NEW tab2, tab2[s] = table, \A z \in Stream : z # s => tab2[z] = tab[z],
           NEW c2, \A p \in PageId : c2[p] = (c[p] - In(p, tab[s])) + In(p, table)
    PROVE  Counts(c2, tab2, E)
<1>1. ASSUME NEW p \in PageId
      PROVE  /\ IsFiniteSet(Holders(tab2, p))
             /\ c2[p] = Cardinality(Holders(tab2, p)) + Cardinality(Listed(E, p))
  <2>1. PICK h, h2, l : h = Holders(tab, p) /\ h2 = Holders(tab2, p) /\ l = Listed(E, p)
    OBVIOUS
  <2>2. IsFiniteSet(h) /\ Cardinality(h) \in Nat /\ Cardinality(l) \in Nat
        /\ c[p] = Cardinality(h) + Cardinality(l)
    BY <2>1, CountParts
  <2>3. c2[p] = (c[p] - In(p, tab[s])) + In(p, table)
    OBVIOUS
  <2>4. (s \in h <=> p \in Owned(tab[s])) /\ (s \in h2 <=> p \in Owned(table))
    BY <2>1 DEF Holders
  <2>5. CASE p \in Owned(table)
    <3>1. h2 = h \cup {s}
      BY <2>1, <2>5 DEF Holders
    <3>2. IsFiniteSet(h2) /\ Cardinality(h2) = IF s \in h THEN Cardinality(h) ELSE Cardinality(h) + 1
      BY <2>2, <3>1, FS_AddElement
    <3>3. c2[p] = (c[p] - IF s \in h THEN 1 ELSE 0) + 1
      BY <2>3, <2>4, <2>5 DEF In
    <3> QED
      BY <2>1, <2>2, <3>2, <3>3
  <2>6. CASE p \notin Owned(table)
    <3>1. h2 = h \ {s}
      BY <2>1, <2>6 DEF Holders
    <3>2. IsFiniteSet(h2) /\ Cardinality(h2) = IF s \in h THEN Cardinality(h) - 1 ELSE Cardinality(h)
      BY <2>2, <3>1, FS_RemoveElement
    <3>3. c2[p] = (c[p] - IF s \in h THEN 1 ELSE 0) + 0
      BY <2>3, <2>4, <2>6 DEF In
    <3> QED
      BY <2>1, <2>2, <3>2, <3>3
  <2> QED
    BY <2>5, <2>6
<1> QED
    BY <1>1 DEF Counts

\* An entry comes to the directory.
LEMMA CountsAdd ==
    ASSUME NEW c, NEW tab, NEW E, Counts(c, tab, E), NEW e, e \notin E,
           NEW c2, \A p \in PageId : c2[p] = c[p] + In(p, e.pages)
    PROVE  Counts(c2, tab, E \cup {e})
<1>1. IsFiniteSet(E \cup {e})
    BY FS_AddElement DEF Counts
<1>2. ASSUME NEW p \in PageId
      PROVE  c2[p] = Cardinality(Holders(tab, p)) + Cardinality(Listed(E \cup {e}, p))
  <2>1. PICK h, l, l2 : h = Holders(tab, p) /\ l = Listed(E, p) /\ l2 = Listed(E \cup {e}, p)
    OBVIOUS
  <2>2. IsFiniteSet(l) /\ Cardinality(h) \in Nat /\ Cardinality(l) \in Nat
        /\ c[p] = Cardinality(h) + Cardinality(l)
    BY <2>1, CountParts
  <2>3. CASE p \in Owned(e.pages)
    <3>1. l2 = l \cup {e} /\ e \notin l
      BY <2>1, <2>3 DEF Listed
    <3>2. Cardinality(l2) = Cardinality(l) + 1
      BY <2>2, <3>1, FS_AddElement
    <3>3. c2[p] = c[p] + 1
      BY <2>3 DEF In
    <3> QED
      BY <2>1, <2>2, <3>2, <3>3
  <2>4. CASE p \notin Owned(e.pages)
    <3>1. l2 = l
      BY <2>1, <2>4 DEF Listed
    <3>2. c2[p] = c[p] + 0
      BY <2>4 DEF In
    <3> QED
      BY <2>1, <2>2, <3>1, <3>2
  <2> QED
    BY <2>3, <2>4
<1> QED
    BY <1>1, <1>2 DEF Counts

\* An entry leaves the directory.
LEMMA CountsDrop ==
    ASSUME NEW c, NEW tab, NEW E, Counts(c, tab, E), NEW e \in E,
           NEW c2, \A p \in PageId : c2[p] = c[p] - In(p, e.pages)
    PROVE  Counts(c2, tab, E \ {e})
<1>1. IsFiniteSet(E \ {e})
    BY FS_RemoveElement DEF Counts
<1>2. ASSUME NEW p \in PageId
      PROVE  c2[p] = Cardinality(Holders(tab, p)) + Cardinality(Listed(E \ {e}, p))
  <2>1. PICK h, l, l2 : h = Holders(tab, p) /\ l = Listed(E, p) /\ l2 = Listed(E \ {e}, p)
    OBVIOUS
  <2>2. IsFiniteSet(l) /\ Cardinality(h) \in Nat /\ Cardinality(l) \in Nat
        /\ c[p] = Cardinality(h) + Cardinality(l)
    BY <2>1, CountParts
  <2>3. CASE p \in Owned(e.pages)
    <3>1. l2 = l \ {e} /\ e \in l
      BY <2>1, <2>3 DEF Listed
    <3>2. Cardinality(l2) = Cardinality(l) - 1
      BY <2>2, <3>1, FS_RemoveElement
    <3>3. c2[p] = c[p] - 1
      BY <2>3 DEF In
    <3> QED
      BY <2>1, <2>2, <3>2, <3>3
  <2>4. CASE p \notin Owned(e.pages)
    <3>1. l2 = l
      BY <2>1, <2>4 DEF Listed
    <3>2. c2[p] = c[p] - 0
      BY <2>4 DEF In
    <3> QED
      BY <2>1, <2>2, <3>1, <3>2
  <2> QED
    BY <2>3, <2>4
<1> QED
    BY <1>1, <1>2 DEF Counts

-----------------------------------------------------------------------------
(* What a table of pages gives to read.                                      *)

Reads(r, table, tokens, n) ==
    \A i \in 1..n :
        /\ Slot(i) <= Len(r[table[Page(i)]])
        /\ r[table[Page(i)]][Slot(i)] = <<tokens[i], i - 1>>

\* The table has the pages for the first n of the tokens, and they hold their rows.
Backed(r, table, tokens, n) ==
    /\ n \in Nat /\ n <= Len(tokens) /\ Named(table) /\ Len(table) = Ceil(n)
    /\ Reads(r, table, tokens, n)

\* The page of a row is one of the table's.
LEMMA BackedPage ==
    ASSUME NEW r, NEW table, NEW tokens, NEW n, Backed(r, table, tokens, n), NEW i \in 1..n
    PROVE  /\ Page(i) \in 1..Len(table) /\ table[Page(i)] \in Owned(table)
           /\ table[Page(i)] \in PageId
<1>1. Page(i) \in 1..Len(table)
    BY PlaceIs DEF Backed
<1>2. DOMAIN table = 1..Len(table) /\ Owned(table) \subseteq PageId
    BY SeqFacts DEF Backed, Named
<1> QED
    BY <1>1, <1>2 DEF Owned

\* A table whose pages keep their rows still gives them.
LEMMA BackedKeeps ==
    ASSUME NEW r, NEW table, NEW tokens, NEW n, Backed(r, table, tokens, n),
           NEW r2, \A p \in Owned(table) : r2[p] = r[p]
    PROVE  Backed(r2, table, tokens, n)
<1>1. ASSUME NEW i \in 1..n
      PROVE  /\ Slot(i) <= Len(r2[table[Page(i)]])
             /\ r2[table[Page(i)]][Slot(i)] = <<tokens[i], i - 1>>
  <2>1. r2[table[Page(i)]] = r[table[Page(i)]]
    BY BackedPage
  <2> QED
    BY <2>1 DEF Backed, Reads
<1> QED
    BY <1>1 DEF Backed, Reads

\* Only the tokens whose rows are cached matter.
LEMMA BackedTokens ==
    ASSUME NEW r, NEW table, NEW tokens, NEW n, Backed(r, table, tokens, n),
           NEW tokens2, n <= Len(tokens2), \A i \in 1..n : tokens2[i] = tokens[i]
    PROVE  Backed(r, table, tokens2, n)
    BY DEF Backed, Reads

\* No row takes no page.
LEMMA CeilZero == Ceil(0) = 0
<1>1. PICK t \in Nat \ {0} : t = page_tokens
    BY PageTokens
<1>2. t - 1 \in Nat /\ t - 1 \in 0..(t - 1) /\ 0 + t - 1 = t - 1
    OBVIOUS
<1>3. PICK c \in Nat, z \in 0..(t - 1) : c = (t - 1) \div t /\ t - 1 = t * c + z
    BY <1>2, DivMod
<1>4. t * 0 + (t - 1) = t * c + z
    BY <1>3
<1>5. c = 0
    BY <1>2, <1>4, DivModUnique
<1> QED
    BY <1>1, <1>2, <1>3, <1>5 DEF Ceil

\* An empty table gives no row.
LEMMA BackedEmpty ==
    ASSUME NEW r, NEW S, NEW tokens \in Seq(S)
    PROVE  Backed(r, << >>, tokens, 0)
<1>1. Named(<< >>)
    BY DEF Named, IsInjective
<1>2. Len(<< >>) = 0 /\ 0 <= Len(tokens) /\ 1..0 = {}
    OBVIOUS
<1> QED
    BY <1>1, <1>2, CeilZero DEF Backed, Reads

\* The first pages are those of a shorter text.
LEMMA BackedPrefix ==
    ASSUME NEW r, NEW table, NEW tokens, NEW n, Backed(r, table, tokens, n),
           NEW m \in Nat, m <= n,
           NEW tokens2, m <= Len(tokens2), \A i \in 1..m : tokens2[i] = tokens[i]
    PROVE  /\ Backed(r, SubSeq(table, 1, Ceil(m)), tokens2, m)
           /\ Owned(SubSeq(table, 1, Ceil(m))) \subseteq Owned(table)
<1>1. PICK u : u = SubSeq(table, 1, Ceil(m))
    OBVIOUS
<1>2. n \in Nat /\ Len(table) = Ceil(n) /\ table \in Seq(PageId) /\ IsInjective(table)
    BY DEF Backed, Named
<1>3. Ceil(m) \in Nat /\ Ceil(m) <= Len(table)
    BY <1>2, CeilGrows
<1>4. PICK k \in Nat : k = Ceil(m) /\ k <= Len(table)
    BY <1>3
<1>5. u \in Seq(PageId) /\ Len(u) = k /\ DOMAIN u = 1..k /\ \A i \in 1..k : u[i] = table[i]
    BY <1>1, <1>2, <1>4, FirstOf, SMTT(20)
<1>6. DOMAIN table = 1..Len(table) /\ \A i \in 1..k : i \in DOMAIN table
  <2>1. DOMAIN table = 1..Len(table) /\ Len(table) \in Nat
    BY <1>2, SeqFacts
  <2>2. PICK l \in Nat : l = Len(table)
    BY <2>1
  <2>3. \A i \in 1..k : i \in 1..l
    BY <1>4, <2>2
  <2> QED
    BY <2>1, <2>2, <2>3
<1>7. Named(u)
    BY <1>2, <1>5, <1>6 DEF Named, IsInjective
<1>8. Owned(u) \subseteq Owned(table)
    BY <1>5, <1>6 DEF Owned
<1>9. ASSUME NEW i \in 1..m
      PROVE  /\ Slot(i) <= Len(r[u[Page(i)]])
             /\ r[u[Page(i)]][Slot(i)] = <<tokens2[i], i - 1>>
  <2>1. Page(i) \in 1..k
    BY <1>4, PlaceIs
  <2>2. i \in 1..n /\ u[Page(i)] = table[Page(i)]
    BY <1>2, <1>5, <2>1
  <2> QED
    BY <2>2 DEF Backed, Reads
<1> QED
    BY <1>1, <1>4, <1>5, <1>7, <1>8, <1>9 DEF Backed, Reads

\* What was there stays, perhaps in a copy and with more behind it.
Continues(r, table, r2, table2) ==
    \A k \in 1..Len(table) :
        /\ Len(r[table[k]]) <= Len(r2[table2[k]]) /\ Len(r[table[k]]) \in Nat
        /\ Len(r2[table2[k]]) \in Nat
        /\ \A j \in 1..Len(r[table[k]]) : r2[table2[k]][j] = r[table[k]][j]

\* One row more: what was there stays, perhaps in a copy, and the row follows.
LEMMA BackedMore ==
    ASSUME NEW r, NEW table, NEW tokens, NEW n, Backed(r, table, tokens, n), n + 1 <= Len(tokens),
           NEW r2, NEW table2, Named(table2), Len(table2) = Ceil(n + 1),
           Continues(r, table, r2, table2),
           (n % page_tokens) + 1 <= Len(r2[table2[Ceil(n + 1)]]),
           r2[table2[Ceil(n + 1)]][(n % page_tokens) + 1] = <<tokens[n + 1], n>>
    PROVE  Backed(r2, table2, tokens, n + 1)
<1>1. n \in Nat
    BY DEF Backed
<1>2. ASSUME NEW i \in 1..(n + 1)
      PROVE  /\ Slot(i) <= Len(r2[table2[Page(i)]])
             /\ r2[table2[Page(i)]][Slot(i)] = <<tokens[i], i - 1>>
  <2>1. CASE i = n + 1
    <3>1. Page(i) = Ceil(n + 1) /\ Slot(i) = (n % page_tokens) + 1 /\ i - 1 = n
      BY <1>1, <2>1, CeilIs
    <3> QED
      BY <2>1, <3>1
  <2>2. CASE i \in 1..n
    <3>1. PICK k \in 1..Len(table) : k = Page(i)
      BY <2>2, BackedPage
    <3>2. PICK j : j = Slot(i)
      OBVIOUS
    <3>3. j \in Nat /\ 1 <= j
      <4>1. j \in 1..page_tokens
        BY <1>1, <2>2, <3>2, PlaceIs
      <4> QED
        BY <4>1, PageTokens
    <3>4. j <= Len(r[table[k]]) /\ r[table[k]][j] = <<tokens[i], i - 1>>
      BY <2>2, <3>1, <3>2 DEF Backed, Reads
    <3>5. j \in 1..Len(r[table[k]]) /\ j <= Len(r2[table2[k]])
      BY <3>1, <3>3, <3>4 DEF Continues
    <3> QED
      BY <3>1, <3>2, <3>4, <3>5 DEF Continues
  <2> QED
    BY <1>1, <2>1, <2>2
<1>3. Reads(r2, table2, tokens, n + 1)
    BY <1>2 DEF Reads
<1>4. n + 1 \in Nat
    BY <1>1
<1> QED
    BY <1>3, <1>4 DEF Backed

-----------------------------------------------------------------------------
(* The directory and its evictions.                                          *)

Entry == [tokens : Seq(Token), pages : Seq(PageId)]
Directory(x) ==
    x \in Seq(Entry) /\ \A i, j \in DOMAIN x : x[i].tokens = x[j].tokens => i = j

\* A new entry, of tokens that no other has.
LEMMA DirectoryAppend ==
    ASSUME NEW x, Directory(x), NEW e \in Entry, \A d \in Owned(x) : d.tokens # e.tokens
    PROVE  /\ Directory(Append(x, e)) /\ Len(Append(x, e)) = Len(x) + 1
           /\ Owned(Append(x, e)) = Owned(x) \cup {e} /\ e \notin Owned(x)
<1>1. PICK u : u = Append(x, e)
    OBVIOUS
<1>2. x \in Seq(Entry) /\ Len(x) \in Nat /\ DOMAIN x = 1..Len(x)
    BY SeqFacts DEF Directory
<1>3. /\ u \in Seq(Entry) /\ Len(u) = Len(x) + 1 /\ Owned(u) = Owned(x) \cup {e}
      /\ \A i \in 1..Len(x) : u[i] = x[i]
      /\ u[Len(x) + 1] = e
    BY <1>1, <1>2, OwnedAppend
<1>4. DOMAIN u = 1..(Len(x) + 1)
    BY <1>3, SeqFacts
<1>5. \A i \in 1..Len(x) : u[i].tokens # e.tokens
    BY <1>2, <1>3 DEF Owned
<1>6. ASSUME NEW i \in DOMAIN u, NEW j \in DOMAIN u, u[i].tokens = u[j].tokens PROVE i = j
  <2>1. CASE i = Len(x) + 1
    BY <1>2, <1>3, <1>4, <1>5, <1>6, <2>1
  <2>2. CASE j = Len(x) + 1
    BY <1>2, <1>3, <1>4, <1>5, <1>6, <2>2
  <2>3. CASE i \in 1..Len(x) /\ j \in 1..Len(x)
    BY <1>2, <1>3, <1>6, <2>3 DEF Directory
  <2> QED
    BY <1>2, <1>4, <2>1, <2>2, <2>3
<1> QED
    BY <1>1, <1>3, <1>6 DEF Directory

\* A sequence without its k-th member.
LEMMA RemoveAtIs ==
    ASSUME NEW S, NEW x \in Seq(S), NEW k \in 1..Len(x)
    PROVE  /\ RemoveAt(x, k) \in Seq(S) /\ Len(RemoveAt(x, k)) = Len(x) - 1
           /\ \A i \in 1..(Len(x) - 1) : RemoveAt(x, k)[i] = x[IF i < k THEN i ELSE i + 1]
<1>1. PICK n \in Nat : n = Len(x)
    OBVIOUS
<1>2. PICK a, b : a = SubSeq(x, 1, k - 1) /\ b = SubSeq(x, k + 1, n)
    OBVIOUS
<1>3. a \in Seq(S) /\ Len(a) = k - 1 /\ \A i \in 1..(k - 1) : a[i] = x[i]
    BY <1>1, <1>2
<1>4. b \in Seq(S) /\ Len(b) = n - k /\ \A i \in 1..(n - k) : b[i] = x[i + k]
    BY <1>1, <1>2
<1>5. PICK u : u = a \o b
    OBVIOUS
<1>6. u \in Seq(S) /\ Len(u) = n - 1
    BY <1>1, <1>3, <1>4, <1>5
<1>7. ASSUME NEW i \in 1..(n - 1) PROVE u[i] = x[IF i < k THEN i ELSE i + 1]
  <2>1. CASE i < k
    BY <1>1, <1>3, <1>4, <1>5, <2>1
  <2>2. CASE ~ (i < k)
    <3>1. i - (k - 1) \in 1..(n - k) /\ (i - (k - 1)) + k = i + 1
      BY <1>1, <2>2
    <3>2. u[i] = b[i - (k - 1)]
      BY <1>1, <1>3, <1>4, <1>5, <2>2
    <3> QED
      BY <1>4, <2>2, <3>1, <3>2
  <2> QED
    BY <2>1, <2>2
<1>8. RemoveAt(x, k) = u
    BY <1>1, <1>2, <1>5 DEF RemoveAt
<1> QED
    BY <1>1, <1>6, <1>7, <1>8

\* An entry goes.
LEMMA DirectoryRemove ==
    ASSUME NEW x, Directory(x), NEW k \in DOMAIN x
    PROVE  /\ Directory(RemoveAt(x, k)) /\ Len(RemoveAt(x, k)) = Len(x) - 1
           /\ Owned(RemoveAt(x, k)) = Owned(x) \ {x[k]} /\ x[k] \in Owned(x) /\ x[k] \in Entry
           /\ \A d \in Owned(x) \ {x[k]} : d.tokens # x[k].tokens
<1>1. PICK n \in Nat : n = Len(x) /\ DOMAIN x = 1..n
    BY SeqFacts DEF Directory
<1>2. x \in Seq(Entry) /\ k \in 1..n
    BY <1>1 DEF Directory
<1>3. PICK u : u = RemoveAt(x, k)
    OBVIOUS
<1>4. /\ u \in Seq(Entry) /\ Len(u) = n - 1
      /\ \A i \in 1..(n - 1) : u[i] = x[IF i < k THEN i ELSE i + 1]
    BY <1>1, <1>2, <1>3, RemoveAtIs
<1>5. DOMAIN u = 1..(n - 1)
    BY <1>4, SeqFacts
<1>6. PICK at : at = [i \in 1..(n - 1) |-> IF i < k THEN i ELSE i + 1]
    OBVIOUS
<1>7. /\ \A i \in 1..(n - 1) : at[i] \in 1..n /\ at[i] # k
      /\ \A i, j \in 1..(n - 1) : at[i] = at[j] => i = j
    BY <1>2, <1>6
<1>8. \A l \in 1..n : l # k => \E i \in 1..(n - 1) : at[i] = l
  <2>1. ASSUME NEW l \in 1..n, l # k PROVE \E i \in 1..(n - 1) : at[i] = l
    <3>1. CASE l < k
      <4>1. l \in 1..(n - 1)
        BY <1>2, <3>1
      <4> QED
        BY <1>6, <3>1, <4>1
    <3>2. CASE l > k
      <4>1. l - 1 \in 1..(n - 1) /\ ~ (l - 1 < k) /\ (l - 1) + 1 = l
        BY <1>2, <3>2
      <4> QED
        BY <1>6, <4>1
    <3> QED
      BY <1>2, <2>1, <3>1, <3>2
  <2> QED
    BY <2>1
<1>9. \A i \in 1..(n - 1) : u[i] = x[at[i]]
    BY <1>4, <1>6
<1>10. Directory(u)
    BY <1>1, <1>4, <1>5, <1>7, <1>9 DEF Directory
<1>11. \A l \in 1..n : l # k => x[l].tokens # x[k].tokens
    BY <1>1, <1>2 DEF Directory
<1>12. Owned(u) = Owned(x) \ {x[k]}
  <2>1. Owned(u) \subseteq Owned(x) \ {x[k]}
    <3>1. \A i \in 1..(n - 1) : u[i] \in Owned(x) /\ u[i] # x[k]
      BY <1>1, <1>7, <1>9, <1>11 DEF Owned
    <3> QED
      BY <1>5, <3>1 DEF Owned
  <2>2. ASSUME NEW d \in Owned(x), d # x[k] PROVE d \in Owned(u)
    <3>1. PICK l \in 1..n : d = x[l]
      BY <1>1, <2>2 DEF Owned
    <3>2. PICK i \in 1..(n - 1) : at[i] = l
      BY <1>8, <2>2, <3>1
    <3> QED
      BY <1>5, <1>9, <3>1, <3>2 DEF Owned
  <2> QED
    BY <2>1, <2>2
<1>13. x[k] \in Owned(x) /\ x[k] \in Entry
    BY <1>1, <1>2, SeqFacts DEF Owned
<1>14. \A d \in Owned(x) \ {x[k]} : d.tokens # x[k].tokens
    BY <1>1, <1>11 DEF Owned
<1> QED
    BY <1>1, <1>3, <1>4, <1>10, <1>12, <1>13, <1>14

\* The oldest entry goes.
LEMMA DirectoryTail ==
    ASSUME NEW x, Directory(x), x # << >>
    PROVE  /\ Directory(Tail(x)) /\ Len(Tail(x)) = Len(x) - 1
           /\ Owned(Tail(x)) = Owned(x) \ {Head(x)} /\ Head(x) \in Owned(x) /\ Head(x) \in Entry
<1>1. PICK n \in Nat \ {0} : n = Len(x) /\ DOMAIN x = 1..n /\ x \in Seq(Entry)
    BY SeqFacts DEF Directory
<1>2. Head(x) = x[1] /\ 1 \in DOMAIN x /\ 1 \in 1..Len(x)
    BY <1>1
<1>3. Tail(x) = RemoveAt(x, 1)
  <2>1. PICK u, v : u = RemoveAt(x, 1) /\ v = Tail(x)
    OBVIOUS
  <2>2. u \in Seq(Entry) /\ Len(u) = n - 1
        /\ \A i \in 1..(n - 1) : u[i] = x[IF i < 1 THEN i ELSE i + 1]
    BY <1>1, <1>2, <2>1, RemoveAtIs
  <2>3. v \in Seq(Entry) /\ Len(v) = n - 1 /\ \A i \in 1..(n - 1) : v[i] = x[i + 1]
    BY <1>1, <2>1
  <2>4. \A i \in 1..(n - 1) : u[i] = v[i]
    BY <2>2, <2>3
  <2>5. u = v
    BY <2>2, <2>3, <2>4
  <2> QED
    BY <2>1, <2>5
<1> QED
    BY <1>2, <1>3, DirectoryRemove

\* The pool is sound, and counts the tables of the sessions and the directory.
PoolInv(r, c, f, x, tab) ==
    /\ Booked(r, c, f) /\ Directory(x) /\ Counts(c, tab, Owned(x))
    /\ \A e \in Owned(x) : Backed(r, e.pages, e.tokens, Len(e.tokens))

\* Pages that are still in use keep their rows.
Spared(r, c, r2, c2) ==
    \A p \in PageId : c2[p] # 0 => c[p] # 0 /\ r2[p] = r[p]

\* The pages of an entry are in use.
LEMMA EntryPages ==
    ASSUME NEW r, NEW c, NEW f, NEW x, NEW tab, PoolInv(r, c, f, x, tab), NEW e \in Owned(x)
    PROVE  /\ Named(e.pages) /\ Owned(e.pages) \subseteq PageId /\ e \in Entry
           /\ \A p \in Owned(e.pages) : c[p] # 0
<1>1. Named(e.pages) /\ Counts(c, tab, Owned(x)) /\ x \in Seq(Entry)
    BY DEF PoolInv, Backed, Directory
<1>2. Owned(e.pages) \subseteq PageId
    BY <1>1, SeqFacts DEF Named
<1>3. e \in Entry
    BY <1>1, SeqFacts
<1>4. \A p \in Owned(e.pages) : c[p] # 0
    BY <1>1, <1>2, HeldCounts
<1> QED
    BY <1>1, <1>2, <1>3, <1>4

\* Entries of the directory stay backed when pages in use keep their rows.
LEMMA EntriesSpared ==
    ASSUME NEW r, NEW c, NEW f, NEW x, NEW tab, PoolInv(r, c, f, x, tab),
           NEW r2, NEW c2, Spared(r, c, r2, c2), NEW E \in SUBSET Owned(x), NEW tab2, Counts(c2, tab2, E)
    PROVE  \A e \in E : Backed(r2, e.pages, e.tokens, Len(e.tokens))
<1>1. SUFFICES ASSUME NEW e \in E PROVE Backed(r2, e.pages, e.tokens, Len(e.tokens))
    OBVIOUS
<1>2. Backed(r, e.pages, e.tokens, Len(e.tokens))
    BY DEF PoolInv
<1>3. Owned(e.pages) \subseteq PageId
    BY <1>2, SeqFacts DEF Backed, Named
<1>4. \A p \in Owned(e.pages) : c2[p] # 0
    BY <1>3, HeldCounts
<1>5. \A p \in Owned(e.pages) : r2[p] = r[p]
    BY <1>3, <1>4 DEF Spared
<1> QED
    BY <1>2, <1>5, BackedKeeps

\* evict_oldest spares what somebody still uses.
LEMMA EvictOne ==
    ASSUME NEW r, NEW c, NEW f, NEW x, NEW tab, PoolInv(r, c, f, x, tab), x # << >>
    PROVE  \E r2, c2, f2, x2 :
              /\ evict_oldest(Pool(r, c, f, x)) = Pool(r2, c2, f2, x2)
              /\ PoolInv(r2, c2, f2, x2, tab) /\ Spared(r, c, r2, c2)
              /\ Len(x2) = Len(x) - 1 /\ Owned(x2) \subseteq Owned(x)
<1>1. PICK e : e = Head(x)
    OBVIOUS
<1>2. PICK x2 : x2 = Tail(x)
    OBVIOUS
<1>3. Booked(r, c, f) /\ Directory(x) /\ Counts(c, tab, Owned(x))
    BY DEF PoolInv
<1>4. Directory(x2) /\ Len(x2) = Len(x) - 1 /\ Owned(x2) = Owned(x) \ {e} /\ e \in Owned(x)
    BY <1>1, <1>2, <1>3, DirectoryTail
<1>5. Named(e.pages) /\ \A p \in Owned(e.pages) : c[p] # 0
    BY <1>4, EntryPages
<1>6. PICK r2, c2, f2 :
        /\ release(Pool(r, c, f, x), e.pages) = Pool(r2, c2, f2, x)
        /\ Booked(r2, c2, f2)
        /\ \A p \in PageId : c2[p] = c[p] - In(p, e.pages) /\ (c2[p] # 0 => r2[p] = r[p])
    BY <1>3, <1>5, TableReleased
<1>7. Counts(c2, tab, Owned(x2))
    BY <1>3, <1>4, <1>6, CountsDrop
<1>8. Spared(r, c, r2, c2)
  <2>1. c \in [PageId -> Nat] /\ c2 \in [PageId -> Nat]
    BY <1>3, <1>6 DEF Booked
  <2>2. \A p \in PageId : c2[p] # 0 => c[p] # 0
    BY <1>6, <2>1 DEF In
  <2> QED
    BY <1>6, <2>2 DEF Spared
<1>9. \A d \in Owned(x2) : Backed(r2, d.pages, d.tokens, Len(d.tokens))
    BY <1>4, <1>7, <1>8, EntriesSpared
<1>10. evict_oldest(Pool(r, c, f, x)) = Pool(r2, c2, f2, x2)
  <2>1. Pool(r, c, f, x).prefixes = x /\ Pool(r2, c2, f2, x).prefixes = x
    BY PoolFields
  <2>2. evict_oldest(Pool(r, c, f, x)) = [Pool(r2, c2, f2, x) EXCEPT !.prefixes = Tail(@)]
    BY <1>1, <1>6, <2>1 DEF evict_oldest
  <2>3. [Pool(r2, c2, f2, x) EXCEPT !.prefixes = Tail(@)]
          = [Pool(r2, c2, f2, x) EXCEPT !.prefixes = x2]
    BY <1>2, <2>1
  <2>4. [Pool(r2, c2, f2, x) EXCEPT !.prefixes = x2] = Pool(r2, c2, f2, x2)
    BY DEF Pool
  <2> QED
    BY <2>2, <2>3, <2>4
<1> QED
    BY <1>4, <1>6, <1>7, <1>8, <1>9, <1>10 DEF PoolInv

Drops(q, n, g) == g = [k \in 0..n |-> IF k = 0 THEN q ELSE evict_oldest(g[k - 1])]

\* The recursive function of EvictUntil exists.
LEMMA DropsExist ==
    ASSUME NEW q
    PROVE  \A n \in Nat : \E g : Drops(q, n, g)
<1>1. PICK S \in SUBSET Nat : S = {n \in Nat : \E g : Drops(q, n, g)}
    OBVIOUS
<1>2. 0 \in S
  <2>1. PICK g : g = [i \in 0..0 |-> q]
    OBVIOUS
  <2>2. Drops(q, 0, g)
    BY <2>1 DEF Drops
  <2> QED
    BY <1>1, <2>2
<1>3. ASSUME NEW n \in S PROVE n + 1 \in S
  <2>1. n \in Nat /\ \E g : Drops(q, n, g)
    BY <1>1, <1>3
  <2>2. PICK g : Drops(q, n, g)
    BY <2>1
  <2>3. PICK h : h = [i \in 0..(n + 1) |-> IF i # n + 1 THEN g[i] ELSE evict_oldest(g[n])]
    OBVIOUS
  <2>4. \A i \in 0..n : g[i] = IF i = 0 THEN q ELSE evict_oldest(g[i - 1])
    BY <2>2 DEF Drops
  <2>5. ASSUME NEW i \in 0..(n + 1)
        PROVE  h[i] = IF i = 0 THEN q ELSE evict_oldest(h[i - 1])
    <3>1. CASE i = n + 1
      <4>1. i # 0 /\ i - 1 = n /\ h[n] = g[n]
        BY <2>1, <2>3, <3>1
      <4> QED
        BY <2>3, <3>1, <4>1
    <3>2. CASE i = 0
      BY <2>1, <2>3, <2>4, <3>2
    <3>3. CASE i \in 1..n
      <4>1. h[i] = g[i] /\ h[i - 1] = g[i - 1]
        BY <2>1, <2>3, <3>3
      <4>2. i \in 0..n /\ i # 0
        BY <2>1, <3>3
      <4> QED
        BY <2>4, <4>1, <4>2
    <3> QED
      BY <2>1, <3>1, <3>2, <3>3
  <2>6. n + 1 \in Nat /\ Drops(q, n + 1, h)
    BY <2>1, <2>3, <2>5 DEF Drops
  <2> QED
    BY <1>1, <2>6
<1>4. S = Nat
    BY <1>2, <1>3, SetInduction
<1> QED
    BY <1>1, <1>4, Zenon

\* The pool after k evictions.
Evicted(r, c, f, x, tab, k, q) ==
    \E r2, c2, f2, x2 :
        /\ q = Pool(r2, c2, f2, x2)
        /\ PoolInv(r2, c2, f2, x2, tab) /\ Spared(r, c, r2, c2)
        /\ Len(x2) = Len(x) - k /\ Owned(x2) \subseteq Owned(x)

\* So do any number of evictions.
LEMMA EvictMany ==
    ASSUME NEW r, NEW c, NEW f, NEW x, NEW tab, PoolInv(r, c, f, x, tab),
           NEW g, Drops(Pool(r, c, f, x), Len(x), g)
    PROVE  \A k \in 0..Len(x) : Evicted(r, c, f, x, tab, k, g[k])
<1>1. PICK N \in Nat : N = Len(x)
    BY SeqFacts DEF PoolInv, Directory
<1>2. g[0] = Pool(r, c, f, x) /\ \A k \in 1..N : g[k] = evict_oldest(g[k - 1])
  <2>1. \A k \in 0..N : g[k] = IF k = 0 THEN Pool(r, c, f, x) ELSE evict_oldest(g[k - 1])
    BY <1>1 DEF Drops
  <2>2. 0 \in 0..N /\ \A k \in 1..N : k \in 0..N /\ k # 0
    OBVIOUS
  <2> QED
    BY <2>1, <2>2
<1>3. PICK S \in SUBSET Nat : S = {n \in Nat : n <= N => Evicted(r, c, f, x, tab, n, g[n])}
    OBVIOUS
<1>4. 0 \in S
  <2>1. Spared(r, c, r, c) /\ Len(x) = Len(x) - 0
    BY <1>1 DEF Spared
  <2>2. Evicted(r, c, f, x, tab, 0, g[0])
    BY <1>2, <2>1 DEF Evicted
  <2> QED
    BY <1>3, <2>2
<1>5. ASSUME NEW n \in S PROVE n + 1 \in S
  <2>1. n \in Nat
    BY <1>3
  <2>2. SUFFICES ASSUME n + 1 <= N PROVE Evicted(r, c, f, x, tab, n + 1, g[n + 1])
    BY <1>3, <2>1
  <2>3. Evicted(r, c, f, x, tab, n, g[n])
    BY <1>3, <1>5, <2>1, <2>2
  <2>4. PICK r2, c2, f2, x2 :
        /\ g[n] = Pool(r2, c2, f2, x2)
        /\ PoolInv(r2, c2, f2, x2, tab) /\ Spared(r, c, r2, c2)
        /\ Len(x2) = Len(x) - n /\ Owned(x2) \subseteq Owned(x)
    BY <2>3 DEF Evicted
  <2>5. x2 # << >>
    <3>1. Len(x2) # 0
      BY <1>1, <2>1, <2>2, <2>4
    <3> QED
      BY <3>1
  <2>6. n + 1 \in 1..N /\ (n + 1) - 1 = n
    BY <2>1, <2>2
  <2>7. g[n + 1] = evict_oldest(Pool(r2, c2, f2, x2))
    BY <1>2, <2>4, <2>6
  <2>8. PICK r3, c3, f3, x3 :
        /\ g[n + 1] = Pool(r3, c3, f3, x3)
        /\ PoolInv(r3, c3, f3, x3, tab) /\ Spared(r2, c2, r3, c3)
        /\ Len(x3) = Len(x2) - 1 /\ Owned(x3) \subseteq Owned(x2)
    BY <2>4, <2>5, <2>7, EvictOne
  <2>9. Spared(r, c, r3, c3)
    BY <2>4, <2>8 DEF Spared
  <2>10. Len(x3) = Len(x) - (n + 1) /\ Owned(x3) \subseteq Owned(x)
    BY <1>1, <2>1, <2>4, <2>8
  <2> QED
    BY <2>8, <2>9, <2>10 DEF Evicted
<1>6. S = Nat
    BY <1>4, <1>5, SetInduction
<1>7. \A k \in 0..N : k \in S /\ k <= N
    BY <1>6
<1> QED
    BY <1>1, <1>3, <1>7

\* Evictions for a page to write to.
LEMMA EvictedForPage ==
    ASSUME NEW r, NEW c, NEW f, NEW x, NEW tab, PoolInv(r, c, f, x, tab), NEW slot, NEW tail
    PROVE  \E k \in 0..Len(x) :
             Evicted(r, c, f, x, tab, k,
                     FreePage(Pool(r, c, f, x), slot, tail))
<1>1. PICK N \in Nat : N = Len(x)
    BY SeqFacts DEF PoolInv, Directory
<1>2. PICK q : q = Pool(r, c, f, x)
    OBVIOUS
<1>3. PICK g : g = CHOOSE h : Drops(q, N, h)
    OBVIOUS
<1>4. Drops(q, N, g)
    BY <1>3, DropsExist
<1>5. PICK done : done = {k \in 0..N : k = N \/ (HasFree(g[k]) \/ writable(g[k], slot, tail))}
    OBVIOUS
<1>6. PICK m : m = CHOOSE k \in done : \A j \in done : k <= j
    OBVIOUS
<1>7. m \in done
  <2>1. done \in SUBSET Nat /\ N \in done
    BY <1>5
  <2> QED
    BY <1>6, <2>1, LeastOf
<1>8. m \in 0..N
    BY <1>5, <1>7
<1>9. FreePage(q, slot, tail) = g[m]
  <2>1. Len(q.prefixes) = N
    BY <1>1, <1>2, PoolFields
  <2> QED
    BY <1>3, <1>5, <1>6, <2>1 DEF FreePage, EvictUntil, Drops
<1>10. Evicted(r, c, f, x, tab, m, g[m])
    BY <1>1, <1>2, <1>4, <1>8, EvictMany
<1> QED
    BY <1>1, <1>2, <1>8, <1>9, <1>10

\* Evictions for a place in the directory.
LEMMA EvictedForEntry ==
    ASSUME NEW r, NEW c, NEW f, NEW x, NEW tab, PoolInv(r, c, f, x, tab), prefix_capacity # 0
    PROVE  \E k \in 0..Len(x) :
             /\ Evicted(r, c, f, x, tab, k,
                     RoomForEntry(Pool(r, c, f, x)))
             /\ Len(x) - k < prefix_capacity
<1>1. PICK N \in Nat : N = Len(x)
    BY SeqFacts DEF PoolInv, Directory
<1>2. PICK q : q = Pool(r, c, f, x)
    OBVIOUS
<1>3. PICK g : g = CHOOSE h : Drops(q, N, h)
    OBVIOUS
<1>4. Drops(q, N, g)
    BY <1>3, DropsExist
<1>5. PICK done : done = {k \in 0..N : k = N \/ Len(g[k].prefixes) < prefix_capacity}
    OBVIOUS
<1>6. PICK m : m = CHOOSE k \in done : \A j \in done : k <= j
    OBVIOUS
<1>7. m \in done
  <2>1. done \in SUBSET Nat /\ N \in done
    BY <1>5
  <2> QED
    BY <1>6, <2>1, LeastOf
<1>8. m \in 0..N
    BY <1>5, <1>7
<1>9. RoomForEntry(q) = g[m]
  <2>1. Len(q.prefixes) = N
    BY <1>1, <1>2, PoolFields
  <2> QED
    BY <1>3, <1>5, <1>6, <2>1 DEF RoomForEntry, EvictUntil, Drops
<1>10. Evicted(r, c, f, x, tab, m, g[m])
    BY <1>1, <1>2, <1>4, <1>8, EvictMany
<1>11. Len(x) - m < prefix_capacity
  <2>1. PICK r2, c2, f2, x2 : g[m] = Pool(r2, c2, f2, x2) /\ Len(x2) = Len(x) - m
    BY <1>10 DEF Evicted
  <2>2. g[m].prefixes = x2
    BY <2>1, PoolFields
  <2>3. m = N \/ N - m < prefix_capacity
    BY <1>1, <1>5, <1>7, <2>1, <2>2
  <2>4. prefix_capacity \in Nat
    BY PagesType
  <2> QED
    BY <1>1, <1>8, <2>3, <2>4
<1> QED
    BY <1>1, <1>2, <1>8, <1>9, <1>10, <1>11

-----------------------------------------------------------------------------
(* The sessions and the invariant.                                           *)

StreamType ==
    [phase : Phases, prompt : Seq(Token), context : Seq(Token), block_table : Seq(PageId),
     cached : Nat, published : BOOLEAN, drafts : Nat, remaining : Int, buffer : Nat]

Begins(prompt, text) == Len(prompt) <= Len(text) /\ \A i \in 1..Len(prompt) : text[i] = prompt[i]

\* A session's table has the rows of its context, which begins with the prompt for
\* as long as that may still be published.
StreamInv(r, st) ==
    /\ st \in StreamType /\ Backed(r, st.block_table, st.context, st.cached)
    /\ Len(st.context) <= context_length
    /\ st.phase # "none" /\ ~ st.published => Begins(st.prompt, st.context)
    /\ st.phase = "none" => st.block_table = << >>

Tables == [s \in Stream |-> stream[s].block_table]

CacheInv ==
    /\ stream \in [Stream -> StreamType]
    /\ kv = Pool(kv.rows, kv.references, kv.free_pages, kv.prefixes)
    /\ PoolInv(kv.rows, kv.references, kv.free_pages, kv.prefixes, Tables)
    /\ Len(kv.prefixes) <= prefix_capacity
    /\ \A s \in Stream : StreamInv(kv.rows, stream[s])

\* The invariant, with names for the parts of the pool.
LEMMA CacheParts ==
    ASSUME CacheInv
    PROVE  \E r, c, f, x :
              /\ kv = Pool(r, c, f, x) /\ kv.rows = r /\ kv.references = c
              /\ kv.free_pages = f /\ kv.prefixes = x
              /\ PoolInv(r, c, f, x, Tables) /\ Len(x) <= prefix_capacity
              /\ \A s \in Stream : StreamInv(r, stream[s]) /\ Tables[s] = stream[s].block_table
    BY DEF CacheInv, Tables

\* The fields of a session.
LEMMA StreamParts ==
    ASSUME NEW r, NEW st, StreamInv(r, st)
    PROVE  /\ Named(st.block_table) /\ Owned(st.block_table) \subseteq PageId
           /\ st.context \in Seq(Token) /\ Len(st.context) \in Nat
           /\ st.prompt \in Seq(Token) /\ Len(st.prompt) \in Nat
           /\ st.block_table \in Seq(PageId) /\ st.phase \in Phases
           /\ st.cached \in Nat /\ st.cached <= Len(st.context) /\ Len(st.context) <= context_length
           /\ st.published \in BOOLEAN /\ st.drafts \in Nat /\ st.remaining \in Int /\ st.buffer \in Nat
<1>1. st \in StreamType /\ Named(st.block_table) /\ st.cached <= Len(st.context)
      /\ Len(st.context) <= context_length
    BY DEF StreamInv, Backed
<1>2. /\ st.context \in Seq(Token) /\ st.prompt \in Seq(Token) /\ st.cached \in Nat
      /\ st.phase \in Phases
      /\ st.published \in BOOLEAN /\ st.drafts \in Nat /\ st.remaining \in Int /\ st.buffer \in Nat
    BY <1>1 DEF StreamType
<1>3. st.block_table \in Seq(PageId)
    BY <1>1 DEF Named
<1>4. Len(st.context) \in Nat /\ Len(st.prompt) \in Nat /\ Owned(st.block_table) \subseteq PageId
    BY <1>2, <1>3, SeqFacts
<1> QED
    BY <1>1, <1>2, <1>3, <1>4

Becomes(s, st) == stream' = [stream EXCEPT ![s] = st]
With(s, table) == [Tables EXCEPT ![s] = table]

\* A session changes, and the pool with it.
LEMMA SessionStep ==
    ASSUME CacheInv, NEW s \in Stream, NEW st,
           Becomes(s, st),
           NEW r, NEW c, NEW f, NEW x, kv' = Pool(r, c, f, x),
           PoolInv(r, c, f, x, With(s, st.block_table)),
           Len(x) <= prefix_capacity, StreamInv(r, st),
           \A z \in Stream : z # s => \A p \in Owned(stream[z].block_table) : r[p] = kv.rows[p]
    PROVE  CacheInv'
<1>1. st \in StreamType
    BY DEF StreamInv
<1>2. stream \in [Stream -> StreamType]
    BY DEF CacheInv
<1>3. stream' \in [Stream -> StreamType]
    BY <1>1, <1>2 DEF Becomes
<1>4. kv'.rows = r /\ kv'.references = c /\ kv'.free_pages = f /\ kv'.prefixes = x
    BY PoolFields
<1>5. kv' = Pool(kv'.rows, kv'.references, kv'.free_pages, kv'.prefixes)
    BY <1>4
<1>6. Tables' = With(s, st.block_table)
    BY <1>2 DEF Tables, Becomes, With
<1>7. ASSUME NEW z \in Stream PROVE StreamInv(kv'.rows, stream'[z])
  <2>1. CASE z = s
    BY <1>2, <1>4, <2>1 DEF Becomes
  <2>2. CASE z # s
    <3>1. stream'[z] = stream[z] /\ StreamInv(kv.rows, stream[z])
      BY <1>2, <2>2 DEF CacheInv, Becomes
    <3>2. Backed(r, stream[z].block_table, stream[z].context, stream[z].cached)
      BY <2>2, <3>1, BackedKeeps DEF StreamInv
    <3>3. StreamInv(r, stream[z])
      BY <3>1, <3>2 DEF StreamInv
    <3> QED
      BY <1>4, <3>1, <3>3
  <2> QED
    BY <2>1, <2>2
<1>8. PoolInv(kv'.rows, kv'.references, kv'.free_pages, kv'.prefixes, Tables')
    BY <1>4, <1>6
<1>9. Len(kv'.prefixes) <= prefix_capacity
    BY <1>4
<1> QED
    BY <1>3, <1>5, <1>7, <1>8, <1>9 DEF CacheInv

\* A session changes, and keeps its table.
LEMMA SessionOnly ==
    ASSUME CacheInv, NEW s \in Stream, NEW st, Becomes(s, st), kv' = kv,
           st.block_table = stream[s].block_table, StreamInv(kv.rows, st)
    PROVE  CacheInv'
<1>1. PICK r, c, f, x :
        /\ kv = Pool(r, c, f, x) /\ kv.rows = r
        /\ PoolInv(r, c, f, x, Tables) /\ Len(x) <= prefix_capacity
    BY CacheParts
<1>2. With(s, st.block_table) = Tables
    BY DEF Tables, With
<1>3. PoolInv(r, c, f, x, With(s, st.block_table))
    BY <1>1, <1>2
<1> QED
    BY <1>1, <1>3, SessionStep

\* What a table of another session names keeps its rows.
LEMMA OthersSpared ==
    ASSUME NEW r, NEW c, NEW r2, NEW c2, Spared(r, c, r2, c2), NEW tab2, NEW E, Counts(c2, tab2, E),
           NEW z \in Stream, Owned(tab2[z]) \subseteq PageId
    PROVE  \A p \in Owned(tab2[z]) : r2[p] = r[p]
    BY HeldCounts DEF Spared

\* A session gives its table back.
LEMMA SessionReleased ==
    ASSUME CacheInv, NEW s \in Stream
    PROVE  \E r, c, f, x :
              /\ release(kv, stream[s].block_table) = Pool(r, c, f, x)
              /\ PoolInv(r, c, f, x, With(s, << >>))
              /\ Len(x) <= prefix_capacity
              /\ \A z \in Stream : z # s => \A p \in Owned(stream[z].block_table) : r[p] = kv.rows[p]
<1>1. PICK r, c, f, x :
        /\ kv = Pool(r, c, f, x) /\ kv.rows = r
        /\ PoolInv(r, c, f, x, Tables) /\ Len(x) <= prefix_capacity
        /\ \A z \in Stream : StreamInv(r, stream[z]) /\ Tables[z] = stream[z].block_table
    BY CacheParts
<1>2. PICK table : table = stream[s].block_table
    OBVIOUS
<1>3. Named(table) /\ Owned(table) \subseteq PageId
    BY <1>1, <1>2, StreamParts
<1>4. Booked(r, c, f) /\ Counts(c, Tables, Owned(x)) /\ Directory(x)
    BY <1>1 DEF PoolInv
<1>5. \A p \in Owned(table) : c[p] # 0
    BY <1>1, <1>2, <1>3, <1>4, HeldCounts
<1>6. PICK r2, c2, f2 :
        /\ release(Pool(r, c, f, x), table) = Pool(r2, c2, f2, x)
        /\ Booked(r2, c2, f2)
        /\ \A p \in PageId : c2[p] = c[p] - In(p, table) /\ (c2[p] # 0 => r2[p] = r[p])
    BY <1>3, <1>4, <1>5, TableReleased
<1>7. PICK tab2 : tab2 = With(s, << >>)
    OBVIOUS
<1>8. tab2[s] = << >> /\ \A z \in Stream : z # s => tab2[z] = Tables[z]
    BY <1>7 DEF Tables, With
<1>9. c \in [PageId -> Nat] /\ c2 \in [PageId -> Nat]
    BY <1>4, <1>6 DEF Booked
<1>10. Counts(c2, tab2, Owned(x))
  <2>1. \A p \in PageId : In(p, << >>) = 0 /\ In(p, table) \in {0, 1}
    BY DEF In, Owned
  <2>2. \A p \in PageId : c2[p] = (c[p] - In(p, Tables[s])) + In(p, << >>)
    <3>1. ASSUME NEW p \in PageId PROVE c2[p] = (c[p] - In(p, table)) + 0
      BY <1>6, <1>9, <2>1
    <3> QED
      BY <1>1, <1>2, <2>1, <3>1
  <2> QED
    BY <1>4, <1>8, <2>2, CountsTable
<1>11. Spared(r, c, r2, c2)
  <2>1. \A p \in PageId : c2[p] # 0 => c[p] # 0
    BY <1>6, <1>9 DEF In
  <2> QED
    BY <1>6, <2>1 DEF Spared
<1>12. \A e \in Owned(x) : Backed(r2, e.pages, e.tokens, Len(e.tokens))
    BY <1>1, <1>10, <1>11, EntriesSpared
<1>13. PoolInv(r2, c2, f2, x, tab2)
    BY <1>4, <1>6, <1>10, <1>12 DEF PoolInv
<1>14. ASSUME NEW z \in Stream, z # s
       PROVE  \A p \in Owned(stream[z].block_table) : r2[p] = kv.rows[p]
  <2>1. Owned(tab2[z]) \subseteq PageId /\ tab2[z] = stream[z].block_table
    BY <1>1, <1>8, <1>14, StreamParts
  <2> QED
    BY <1>1, <1>10, <1>11, <2>1, OthersSpared
<1> QED
    BY <1>1, <1>2, <1>6, <1>7, <1>13, <1>14

-----------------------------------------------------------------------------
(* The steps.                                                                *)

\* A session that does not exist.
LEMMA NoStreamInv ==
    ASSUME NEW r
    PROVE  StreamInv(r, NoStream) /\ NoStream.block_table = << >>
<1>1. NoStream \in StreamType
    BY DEF NoStream, StreamType, Phases
<1>2. NoStream.block_table = << >> /\ NoStream.context = << >> /\ NoStream.cached = 0
      /\ NoStream.phase = "none"
    BY DEF NoStream
<1>3. Backed(r, << >>, << >>, 0)
  <2>1. << >> \in Seq(Token)
    OBVIOUS
  <2> QED
    BY <2>1, BackedEmpty
<1>4. Len(<< >>) <= context_length
    BY PagesType
<1> QED
    BY <1>1, <1>2, <1>3, <1>4 DEF StreamInv

\* The step keeps the invariant: a session ends.
LEMMA DropStreamStep ==
    ASSUME CacheInv, NEW s \in Stream, DropStream(s)
    PROVE  CacheInv'
<1>1. kv' = release(kv, stream[s].block_table) /\ Becomes(s, NoStream)
    BY DEF DropStream, Becomes
<1>2. PICK r, c, f, x :
              /\ release(kv, stream[s].block_table) = Pool(r, c, f, x)
              /\ PoolInv(r, c, f, x, With(s, << >>))
              /\ Len(x) <= prefix_capacity
              /\ \A z \in Stream : z # s => \A p \in Owned(stream[z].block_table) : r[p] = kv.rows[p]
    BY SessionReleased
<1>3. StreamInv(r, NoStream) /\ NoStream.block_table = << >>
    BY NoStreamInv
<1> QED
    BY <1>1, <1>2, <1>3, SessionStep

\* Extend keeps the invariant: the context grows, or slides and loses its rows.
LEMMA ExtendStep ==
    ASSUME CacheInv, NEW s \in Stream, NEW tokens \in Seq(Token), NEW at \in StreamType,
           at.block_table = stream[s].block_table, at.cached = stream[s].cached,
           at.published = stream[s].published, at.prompt = stream[s].prompt,
           stream[s].phase # "none", at.phase # "none",
           Len(stream[s].context) + Len(tokens) <= context_length + 1,
           Extend(s, tokens, at)
    PROVE  CacheInv'
<1>1. PICK old, long : old = stream[s] /\ long = old.context \o tokens
    OBVIOUS
<1>2. StreamInv(kv.rows, old)
    BY <1>1 DEF CacheInv
<1>3. /\ old.context \in Seq(Token) /\ Len(old.context) \in Nat /\ Len(tokens) \in Nat
      /\ old.cached \in Nat /\ old.cached <= Len(old.context)
    BY <1>2, StreamParts
<1>4. /\ long \in Seq(Token) /\ Len(long) = Len(old.context) + Len(tokens) /\ Len(long) \in Nat
      /\ \A i \in 1..Len(old.context) : long[i] = old.context[i]
    BY <1>1, <1>3
<1>5. context_length \in Nat \ {0}
    BY PagesType
<1>6. CASE Len(long) <= context_length
  <2>1. PICK st : st = [at EXCEPT !.context = long]
    OBVIOUS
  <2>2. kv' = kv /\ Becomes(s, st)
    BY <1>1, <1>6, <2>1 DEF Extend, Becomes
  <2>3. /\ st \in StreamType /\ st.context = long /\ st.block_table = old.block_table
        /\ st.cached = old.cached /\ st.published = old.published /\ st.prompt = old.prompt
        /\ st.phase = at.phase
    BY <1>1, <1>4, <2>1 DEF StreamType
  <2>4. Backed(kv.rows, old.block_table, long, old.cached)
    <3>1. old.cached <= Len(long) /\ \A i \in 1..old.cached : long[i] = old.context[i]
      BY <1>3, <1>4
    <3> QED
      BY <1>2, <3>1, BackedTokens DEF StreamInv
  <2>5. ~ old.published => Begins(old.prompt, long)
    <3>1. ASSUME ~ old.published PROVE Begins(old.prompt, long)
      <4>1. Begins(old.prompt, old.context) /\ Len(old.prompt) \in Nat
        BY <1>1, <1>2, <3>1, StreamParts DEF StreamInv
      <4>2. Len(old.prompt) <= Len(long) /\ \A i \in 1..Len(old.prompt) : i \in 1..Len(old.context)
        BY <1>3, <1>4, <4>1 DEF Begins
      <4> QED
        BY <1>4, <4>1, <4>2 DEF Begins
    <3> QED
      BY <3>1
  <2>6. StreamInv(kv.rows, st)
    BY <1>6, <2>3, <2>4, <2>5 DEF StreamInv
  <2> QED
    BY <1>1, <2>2, <2>3, <2>6, SessionOnly
<1>7. CASE ~ (Len(long) <= context_length)
  <2>1. PICK short : short = RemoveAt(long, 2)
    OBVIOUS
  <2>2. short \in Seq(Token) /\ Len(short) = context_length
    <3>1. Len(long) = context_length + 1
      BY <1>1, <1>3, <1>4, <1>5, <1>7
    <3>2. 2 \in 1..Len(long) /\ Len(long) - 1 = context_length
      BY <1>5, <3>1
    <3> QED
      BY <1>4, <2>1, <3>2, RemoveAtIs
  <2>3. PICK st : st = [at EXCEPT !.context = short, !.block_table = << >>, !.cached = 0, !.published = TRUE]
    OBVIOUS
  <2>4. kv' = release(kv, stream[s].block_table) /\ Becomes(s, st)
    BY <1>1, <1>7, <2>1, <2>3 DEF Extend, Becomes
  <2>5. /\ st \in StreamType /\ st.context = short /\ st.block_table = << >>
        /\ st.cached = 0 /\ st.published = TRUE
    <3>1. PICK a1 : a1 = [at EXCEPT !.context = short]
      OBVIOUS
    <3>2. a1 \in StreamType /\ a1.context = short
      BY <2>2, <3>1 DEF StreamType
    <3>3. PICK a2 : a2 = [a1 EXCEPT !.block_table = << >>]
      OBVIOUS
    <3>4. a2 \in StreamType /\ a2.context = short /\ a2.block_table = << >>
      <4>1. << >> \in Seq(PageId)
        OBVIOUS
      <4> QED
        BY <3>2, <3>3, <4>1 DEF StreamType
    <3>5. PICK a3 : a3 = [a2 EXCEPT !.cached = 0]
      OBVIOUS
    <3>6. a3 \in StreamType /\ a3.context = short /\ a3.block_table = << >> /\ a3.cached = 0
      BY <3>4, <3>5 DEF StreamType
    <3>7. PICK a4 : a4 = [a3 EXCEPT !.published = TRUE]
      OBVIOUS
    <3>8. a4 \in StreamType /\ a4.context = short /\ a4.block_table = << >> /\ a4.cached = 0
          /\ a4.published = TRUE
      BY <3>6, <3>7 DEF StreamType
    <3>9. st = a4
      BY <2>3, <3>1, <3>3, <3>5, <3>7
    <3> QED
      BY <3>8, <3>9
  <2>6. PICK r, c, f, x :
              /\ release(kv, stream[s].block_table) = Pool(r, c, f, x)
              /\ PoolInv(r, c, f, x, With(s, << >>))
              /\ Len(x) <= prefix_capacity
              /\ \A z \in Stream : z # s => \A p \in Owned(stream[z].block_table) : r[p] = kv.rows[p]
    BY SessionReleased
  <2>7. Backed(r, << >>, short, 0)
    BY <2>2, BackedEmpty
  <2>8. StreamInv(r, st)
    BY <1>5, <2>2, <2>5, <2>7 DEF StreamInv
  <2> QED
    BY <2>4, <2>5, <2>6, <2>8, SessionStep
<1> QED
    BY <1>6, <1>7

\* The phases by name.
LEMMA PhasesAre ==
    /\ "none" \in Phases /\ "idle" \in Phases /\ "caching" \in Phases /\ "select" \in Phases
    /\ "exhausted" \in Phases /\ "inconsistent" \in Phases
    BY DEF Phases, Failed

\* The step keeps the invariant: a token is selected.
LEMMA SelectStep ==
    ASSUME CacheInv, NEW s \in Stream, Select(s)
    PROVE  CacheInv'
<1>1. PICK t \in Token :
        Extend(s, <<t>>, [stream[s] EXCEPT !.phase = "idle", !.remaining = @ - 1])
    BY DEF Select
<1>2. PICK st, at : st = stream[s] /\ at = [st EXCEPT !.phase = "idle", !.remaining = @ - 1]
    OBVIOUS
<1>3. st \in StreamType /\ Len(st.context) \in Nat /\ Len(st.context) <= context_length
      /\ st.remaining \in Int /\ st.phase = "select"
    BY <1>2, StreamParts DEF CacheInv, Select, StreamInv
<1>4. /\ at \in StreamType /\ at.block_table = st.block_table /\ at.cached = st.cached
      /\ at.published = st.published /\ at.prompt = st.prompt /\ at.phase = "idle"
  <2>1. st.remaining - 1 \in Int
    BY <1>3
  <2>2. PICK a1 : a1 = [st EXCEPT !.phase = "idle"]
    OBVIOUS
  <2>3. /\ a1 \in StreamType /\ a1.block_table = st.block_table /\ a1.cached = st.cached
        /\ a1.published = st.published /\ a1.prompt = st.prompt /\ a1.phase = "idle"
        /\ a1.remaining = st.remaining
    BY <1>3, <2>2, PhasesAre DEF StreamType
  <2>4. PICK a2 : a2 = [a1 EXCEPT !.remaining = st.remaining - 1]
    OBVIOUS
  <2>5. /\ a2 \in StreamType /\ a2.block_table = st.block_table /\ a2.cached = st.cached
        /\ a2.published = st.published /\ a2.prompt = st.prompt /\ a2.phase = "idle"
    BY <2>1, <2>3, <2>4 DEF StreamType
  <2>6. at = a2
    BY <1>2, <2>2, <2>4
  <2> QED
    BY <2>5, <2>6
<1>5. <<t>> \in Seq(Token) /\ Len(<<t>>) = 1
    OBVIOUS
<1>6. Len(st.context) + Len(<<t>>) <= context_length + 1
    BY <1>3, <1>5, PagesType
<1>7. Extend(s, <<t>>, at)
    BY <1>1, <1>2
<1> QED
    BY <1>2, <1>3, <1>4, <1>5, <1>6, <1>7, ExtendStep

\* The step keeps the invariant: a speculative cycle.
LEMMA PlanStep ==
    ASSUME CacheInv, NEW s \in Stream, plan_speculative(s)
    PROVE  CacheInv'
<1>1. PICK st : st = stream[s]
    OBVIOUS
<1>2. st \in StreamType /\ Len(st.context) \in Nat /\ Len(st.context) <= context_length
      /\ st.remaining \in Int /\ st.drafts \in Nat
    BY <1>1, StreamParts DEF CacheInv, StreamInv
<1>3. PICK left : left = context_length - Len(st.context) /\ left \in Int
    BY <1>2, PagesType
<1>4. PICK room : room = {st.drafts, st.remaining - 1, context_length - Len(st.context)}
    OBVIOUS
<1>5. PICK limit : limit = DraftLimit(st) /\ limit = CHOOSE n \in room : \A m \in room : n <= m
    BY <1>4 DEF DraftLimit
<1>6. limit \in Int /\ limit <= left
  <2>1. \E n \in room : \A m \in room : n <= m
    BY <1>2, <1>3, <1>4
  <2>2. limit \in room /\ \A m \in room : limit <= m
    BY <1>5, <2>1
  <2> QED
    BY <1>2, <1>3, <1>4, <2>2
<1>7. /\ st.phase = "idle"
      /\ \E n \in 1..(limit + 1) : \E tokens \in [1..n -> Token] :
            Extend(s, tokens, [st EXCEPT !.buffer = n - 1, !.remaining = @ - 1])
    BY <1>1, <1>5 DEF plan_speculative
<1>8. PICK n \in 1..(limit + 1) : \E tokens \in [1..n -> Token] :
        Extend(s, tokens, [st EXCEPT !.buffer = n - 1, !.remaining = @ - 1])
    BY <1>7
<1>9. PICK tokens \in [1..n -> Token] :
        Extend(s, tokens, [st EXCEPT !.buffer = n - 1, !.remaining = @ - 1])
    BY <1>8
<1>10. n \in Nat \ {0} /\ n <= left + 1
    BY <1>3, <1>6
<1>11. tokens \in Seq(Token) /\ Len(tokens) = n
    BY <1>10
<1>12. PICK at : at = [st EXCEPT !.buffer = n - 1, !.remaining = @ - 1]
    OBVIOUS
<1>13. n - 1 \in Nat /\ st.remaining - 1 \in Int
    BY <1>2, <1>10
<1>14. /\ at \in StreamType /\ at.block_table = st.block_table /\ at.cached = st.cached
       /\ at.published = st.published /\ at.prompt = st.prompt /\ at.phase = "idle"
    BY <1>2, <1>7, <1>12, <1>13 DEF StreamType
<1>15. Len(st.context) + Len(tokens) <= context_length + 1
    BY <1>2, <1>3, <1>10, <1>11, PagesType
<1>16. Extend(s, tokens, at)
    BY <1>9, <1>12
<1> QED
    BY <1>1, <1>7, <1>11, <1>14, <1>15, <1>16, ExtendStep

\* A session changes in its phase, its buffer and what remains only.
LEMMA MinorStep ==
    ASSUME CacheInv, NEW s \in Stream, NEW st \in StreamType, kv' = kv,
           Becomes(s, st), stream[s].phase # "none", st.phase # "none",
           st.block_table = stream[s].block_table, st.cached = stream[s].cached,
           st.published = stream[s].published, st.prompt = stream[s].prompt,
           st.context = stream[s].context
    PROVE  CacheInv'
<1>1. StreamInv(kv.rows, stream[s])
    BY DEF CacheInv
<1>2. StreamInv(kv.rows, st)
    BY <1>1 DEF StreamInv
<1> QED
    BY <1>2, SessionOnly

\* The step keeps the invariant: a token planned before is handed out.
LEMMA BufferedStep ==
    ASSUME CacheInv, NEW s \in Stream, NextBuffered(s)
    PROVE  CacheInv'
<1>1. PICK old, st : old = stream[s] /\ st = [old EXCEPT !.buffer = @ - 1, !.remaining = @ - 1]
    OBVIOUS
<1>2. stream \in [Stream -> StreamType] /\ old \in StreamType
    BY <1>1 DEF CacheInv
<1>3. old.phase = "idle" /\ old.buffer > 0 /\ kv' = kv
      /\ stream' = [stream EXCEPT ![s].buffer = @ - 1, ![s].remaining = @ - 1]
    BY <1>1 DEF NextBuffered
<1>4. Becomes(s, st)
    BY <1>1, <1>2, <1>3 DEF Becomes
<1>5. old.buffer - 1 \in Nat /\ old.remaining - 1 \in Int
  <2>1. old.buffer \in Nat /\ old.remaining \in Int
    BY <1>2 DEF StreamType
  <2> QED
    BY <1>3, <2>1
<1>6. /\ st \in StreamType /\ st.block_table = old.block_table /\ st.cached = old.cached
      /\ st.published = old.published /\ st.prompt = old.prompt /\ st.context = old.context
      /\ st.phase = "idle"
    BY <1>1, <1>2, <1>3, <1>5 DEF StreamType
<1> QED
    BY <1>1, <1>3, <1>4, <1>6, MinorStep

\* A session changes in its phase only.
LEMMA PhaseStep ==
    ASSUME CacheInv, NEW s \in Stream, NEW p \in Phases, p # "none", stream[s].phase # "none",
           stream' = [stream EXCEPT ![s].phase = p], kv' = kv
    PROVE  CacheInv'
<1>1. PICK old, st : old = stream[s] /\ st = [old EXCEPT !.phase = p]
    OBVIOUS
<1>2. stream \in [Stream -> StreamType] /\ old \in StreamType
    BY <1>1 DEF CacheInv
<1>3. Becomes(s, st)
    BY <1>1, <1>2 DEF Becomes
<1>4. /\ st \in StreamType /\ st.block_table = old.block_table /\ st.cached = old.cached
      /\ st.published = old.published /\ st.prompt = old.prompt /\ st.context = old.context
      /\ st.phase = p
    BY <1>1, <1>2 DEF StreamType
<1> QED
    BY <1>1, <1>3, <1>4, MinorStep

\* The step keeps the invariant: a session is stepped.
LEMMA BeginStepStep ==
    ASSUME CacheInv, NEW s \in Stream, BeginStep(s)
    PROVE  CacheInv'
<1>1. stream[s].phase = "idle" /\ stream' = [stream EXCEPT ![s].phase = "caching"] /\ kv' = kv
    BY DEF BeginStep
<1> QED
    BY <1>1, PhaseStep, PhasesAre

Wrote(r, page, rows) == [r EXCEPT ![page] = rows]

\* A page that only session s holds is written.
LEMMA PageWritten ==
    ASSUME NEW r, NEW c, NEW f, NEW x, NEW tab, PoolInv(r, c, f, x, tab), NEW s \in Stream,
           NEW page \in PageId, c[page] = 1, page \in Owned(tab[s]),
           NEW rows \in Seq(Row), Len(rows) <= page_tokens,
           NEW r2, r2 = Wrote(r, page, rows)
    PROVE  /\ PoolInv(r2, c, f, x, tab)
           /\ r2[page] = rows /\ \A p \in PageId : p # page => r2[p] = r[p]
           /\ \A z \in Stream : z # s => page \notin Owned(tab[z])
<1>1. Booked(r, c, f) /\ Counts(c, tab, Owned(x)) /\ Directory(x)
    BY DEF PoolInv
<1>2. /\ r \in [PageId -> Seq(Row)] /\ \A p \in PageId : Len(r[p]) <= page_tokens
      /\ c \in [PageId -> Nat] /\ Named(f)
      /\ \A p \in PageId : (p \in Owned(f) <=> c[p] = 0) /\ (c[p] = 0 => r[p] = << >>)
    BY <1>1 DEF Booked
<1>3. /\ r2 \in [PageId -> Seq(Row)] /\ r2[page] = rows
      /\ \A p \in PageId : p # page => r2[p] = r[p]
    BY <1>2 DEF Wrote
<1>4. /\ \A z \in Stream : page \in Owned(tab[z]) => z = s
      /\ \A e \in Owned(x) : page \notin Owned(e.pages)
    BY <1>1, SoleHolder
<1>5. Booked(r2, c, f)
  <2>1. \A p \in PageId : Len(r2[p]) <= page_tokens
    BY <1>2, <1>3
  <2>2. \A p \in PageId : c[p] = 0 => r2[p] = << >>
    BY <1>2, <1>3
  <2> QED
    BY <1>2, <1>3, <2>1, <2>2 DEF Booked
<1>6. ASSUME NEW e \in Owned(x) PROVE Backed(r2, e.pages, e.tokens, Len(e.tokens))
  <2>1. Backed(r, e.pages, e.tokens, Len(e.tokens))
    BY DEF PoolInv
  <2>2. Owned(e.pages) \subseteq PageId
    BY EntryPages
  <2>3. \A p \in Owned(e.pages) : r2[p] = r[p]
    BY <1>3, <1>4, <2>2
  <2> QED
    BY <2>1, <2>3, BackedKeeps
<1> QED
    BY <1>1, <1>3, <1>4, <1>5, <1>6 DEF PoolInv

\* After evictions every session's table still gives its rows.
LEMMA SessionsSpared ==
    ASSUME NEW r, NEW c, NEW r2, NEW c2, Spared(r, c, r2, c2), NEW E, Counts(c2, Tables, E),
           \A z \in Stream : StreamInv(r, stream[z]) /\ Tables[z] = stream[z].block_table
    PROVE  \A z \in Stream :
              StreamInv(r2, stream[z]) /\ \A p \in Owned(stream[z].block_table) : r2[p] = r[p] /\ c2[p] # 0
<1>1. SUFFICES ASSUME NEW z \in Stream
               PROVE  /\ StreamInv(r2, stream[z])
                      /\ \A p \in Owned(stream[z].block_table) : r2[p] = r[p] /\ c2[p] # 0
    OBVIOUS
<1>2. StreamInv(r, stream[z]) /\ Tables[z] = stream[z].block_table
    OBVIOUS
<1>3. Owned(stream[z].block_table) \subseteq PageId
    BY <1>2, StreamParts
<1>4. \A p \in Owned(stream[z].block_table) : r2[p] = r[p] /\ c2[p] # 0
    BY <1>2, <1>3, HeldCounts DEF Spared
<1>5. Backed(r2, stream[z].block_table, stream[z].context, stream[z].cached)
    BY <1>2, <1>4, BackedKeeps DEF StreamInv
<1> QED
    BY <1>2, <1>4, <1>5 DEF StreamInv

\* The pages of a table have the rows of the table it replaces.
SameRows(r, table, r0, old) == \A k \in 1..Len(old) : r[table[k]] = r0[old[k]]

\* What the sessions other than s name keeps its rows.
OthersKept(s, r) ==
    \A z \in Stream : z # s => \A p \in Owned(stream[z].block_table) : r[p] = kv.rows[p]

\* Session s has a row to cache.
Caching(s) == stream[s].phase = "caching" /\ stream[s].cached < Len(stream[s].context)

\* A session that caches has a token without a row.
LEMMA CachingRoom ==
    ASSUME NEW r, NEW s \in Stream, StreamInv(r, stream[s]), Caching(s)
    PROVE  stream[s].cached + 1 <= Len(stream[s].context)
<1>1. PICK a \in Nat, b \in Nat : a = stream[s].cached /\ b = Len(stream[s].context) /\ a < b
    BY StreamParts DEF Caching
<1>2. a + 1 <= b
    BY <1>1, Below
<1> QED
    BY <1>1, <1>2

\* The row is written to the last page of a table that only s has.
LEMMA WrittenStep ==
    ASSUME CacheInv, NEW s \in Stream, Caching(s),
           NEW n, n = stream[s].cached, NEW old, old = stream[s].block_table,
           NEW r, NEW c, NEW f, NEW x, NEW table, PoolInv(r, c, f, x, With(s, table)),
           Len(x) <= prefix_capacity,
           Named(table), Len(table) = Ceil(n + 1),
           c[Last(table)] = 1, Len(r[Last(table)]) = n % page_tokens,
           NEW r0, StreamInv(r0, stream[s]),
           SameRows(r, table, r0, old), OthersKept(s, r),
           Written(s, Pool(r, c, f, x), table)
    PROVE  CacheInv'
<1>1. PICK st, page, row :
        /\ st = stream[s] /\ n = st.cached /\ page = Last(table) /\ old = st.block_table
        /\ row = <<st.context[n + 1], n>>
    OBVIOUS
<1>2. n \in Nat /\ n < Len(st.context) /\ Len(st.context) <= context_length
      /\ st.context \in Seq(Token) /\ Len(st.context) \in Nat /\ st \in StreamType
    BY <1>1, StreamParts DEF StreamInv, Caching
<1>3. row \in Row
  <2>1. n + 1 \in 1..Len(st.context) /\ n \in 0..(context_length - 1)
    <3>1. context_length \in Nat
      BY PagesType
    <3> QED
      BY <1>2, <3>1, RowPlace, Zenon
  <2>2. st.context[n + 1] \in Token
    BY <1>2, <2>1
  <2> QED
    BY <1>1, <2>1, <2>2 DEF Row
<1>4. PICK L \in Nat \ {0} : L = Len(table) /\ L = Ceil(n + 1) /\ page = table[L]
  <2>1. Ceil(n + 1) = n \div page_tokens + 1 /\ n \div page_tokens \in Nat
    <3>1. n \div page_tokens \in Nat
      BY <1>2, DivMod, PageTokens
    <3> QED
      BY <1>2, <3>1, CeilIs
  <2> QED
    BY <1>1, <2>1 DEF Last
<1>5. table \in Seq(PageId) /\ DOMAIN table = 1..L /\ Owned(table) \subseteq PageId
    BY <1>4, SeqFacts DEF Named
<1>6. page \in Owned(table) /\ page \in PageId
    BY <1>4, <1>5 DEF Owned
<1>7. PICK tab : tab = With(s, table)
    OBVIOUS
<1>8. tab[s] = table /\ \A z \in Stream : z # s => tab[z] = stream[z].block_table
    BY <1>7 DEF With, Tables
<1>9. PICK rows : rows = Append(r[page], row)
    OBVIOUS
<1>10. r \in [PageId -> Seq(Row)] /\ r[page] \in Seq(Row) /\ \A p \in PageId : Len(r[p]) \in Nat
    BY <1>6, SeqFacts DEF PoolInv, Booked
<1>11. n % page_tokens \in 0..(page_tokens - 1)
    BY <1>2, DivMod, PageTokens
<1>12. /\ rows \in Seq(Row) /\ Len(rows) = (n % page_tokens) + 1
       /\ \A j \in 1..Len(r[page]) : rows[j] = r[page][j]
       /\ rows[(n % page_tokens) + 1] = row /\ Len(r[page]) = n % page_tokens
  <2>1. /\ rows \in Seq(Row) /\ Len(rows) = Len(r[page]) + 1
        /\ \A j \in 1..Len(r[page]) : rows[j] = r[page][j]
        /\ rows[Len(r[page]) + 1] = row
    BY <1>3, <1>9, <1>10, OwnedAppend
  <2> QED
    BY <1>1, <2>1
<1>13. Len(rows) <= page_tokens
    BY <1>11, <1>12, PageTokens
<1>14. PICK r2 : r2 = Wrote(r, page, rows)
    OBVIOUS
<1>15. /\ PoolInv(r2, c, f, x, tab)
       /\ r2[page] = rows /\ \A p \in PageId : p # page => r2[p] = r[p]
       /\ \A z \in Stream : z # s => page \notin Owned(tab[z])
    BY <1>1, <1>6, <1>7, <1>8, <1>12, <1>13, <1>14, PageWritten
<1>16. PICK st2 : st2 = [st EXCEPT !.block_table = table, !.cached = @ + 1]
    OBVIOUS
<1>17. /\ st2 \in StreamType /\ st2.block_table = table /\ st2.cached = n + 1
       /\ st2.context = st.context /\ st2.prompt = st.prompt /\ st2.published = st.published
       /\ st2.phase = st.phase
  <2>1. n + 1 \in Nat
    BY <1>2
  <2>2. PICK a1 : a1 = [st EXCEPT !.block_table = table]
    OBVIOUS
  <2>3. /\ a1 \in StreamType /\ a1.block_table = table /\ a1.cached = n
        /\ a1.context = st.context /\ a1.prompt = st.prompt /\ a1.published = st.published
        /\ a1.phase = st.phase
    BY <1>1, <1>2, <1>5, <2>2 DEF StreamType
  <2>4. PICK a2 : a2 = [a1 EXCEPT !.cached = n + 1]
    OBVIOUS
  <2>5. /\ a2 \in StreamType /\ a2.block_table = table /\ a2.cached = n + 1
        /\ a2.context = st.context /\ a2.prompt = st.prompt /\ a2.published = st.published
        /\ a2.phase = st.phase
    BY <2>1, <2>3, <2>4 DEF StreamType
  <2>6. st2 = a2
    BY <1>1, <1>16, <2>2, <2>4
  <2> QED
    BY <2>5, <2>6
<1>18. Becomes(s, st2) /\ kv' = Pool(r2, c, f, x)
  <2>1. /\ kv' = [Pool(r, c, f, x) EXCEPT !.rows[page] = Append(@, row)]
        /\ stream' = [stream EXCEPT ![s].block_table = table, ![s].cached = @ + 1]
    BY <1>1 DEF Written
  <2>2. Becomes(s, st2)
    BY <1>1, <1>16, <2>1 DEF CacheInv, Becomes
  <2>3. PICK q : q = Pool(r, c, f, x)
    OBVIOUS
  <2>4. q.rows = r
    BY <2>3, PoolFields
  <2>5. [q EXCEPT !.rows[page] = Append(@, row)]
          = [q EXCEPT !.rows = [q.rows EXCEPT ![page] = Append(q.rows[page], row)]]
    OBVIOUS
  <2>6. r2 = [q.rows EXCEPT ![page] = Append(q.rows[page], row)]
    BY <1>9, <1>14, <2>4 DEF Wrote
  <2>7. kv' = [q EXCEPT !.rows = r2]
    BY <2>1, <2>3, <2>5, <2>6
  <2>8. [q EXCEPT !.rows = r2] = Pool(r2, c, f, x)
    BY <2>3 DEF Pool
  <2> QED
    BY <2>2, <2>7, <2>8
<1>19. StreamInv(r2, st2)
  <2>1. Backed(r0, st.block_table, st.context, n)
    BY <1>1 DEF StreamInv
  <2>2. st.block_table \in Seq(PageId) /\ Len(st.block_table) = Ceil(n) /\ Ceil(n) \in Nat /\ Ceil(n) <= L
    <3>1. n <= n + 1 /\ n + 1 \in Nat
      BY <1>2
    <3> QED
      BY <1>2, <1>4, <2>1, <3>1, CeilGrows DEF Backed, Named
  <2>3. ASSUME NEW k \in 1..Len(st.block_table)
        PROVE  /\ Len(r0[st.block_table[k]]) <= Len(r2[table[k]]) /\ Len(r0[st.block_table[k]]) \in Nat
               /\ Len(r2[table[k]]) \in Nat
               /\ \A j \in 1..Len(r0[st.block_table[k]]) : r2[table[k]][j] = r0[st.block_table[k]][j]
    <3>1. k \in 1..L
      BY <2>2
    <3>2. table[k] \in PageId /\ r[table[k]] = r0[st.block_table[k]]
      BY <1>1, <1>5, <3>1 DEF Owned, SameRows
    <3>3. CASE table[k] = page
      <4>1. r2[table[k]] = rows /\ r0[st.block_table[k]] = r[page]
        BY <1>15, <3>2, <3>3
      <4>2. Len(r[page]) <= Len(rows) /\ Len(r[page]) \in Nat /\ Len(rows) \in Nat
        BY <1>11, <1>12
      <4> QED
        BY <1>12, <4>1, <4>2
    <3>4. CASE table[k] # page
      <4>1. r2[table[k]] = r0[st.block_table[k]] /\ Len(r[table[k]]) \in Nat
        BY <1>10, <1>15, <3>2, <3>4
      <4> QED
        BY <3>2, <4>1
    <3> QED
      BY <3>3, <3>4
  <2>4. r2[table[Ceil(n + 1)]] = rows
    BY <1>4, <1>15
  <2>5. n + 1 <= Len(st.context)
    <3>1. stream[s].cached + 1 <= Len(stream[s].context)
      BY CachingRoom, Zenon
    <3> QED
      BY <1>1, <3>1, Zenon
  <2>6. Backed(r2, table, st.context, n + 1)
    <3>1. /\ Named(table) /\ Len(table) = Ceil(n + 1)
          /\ (n % page_tokens) + 1 <= Len(r2[table[Ceil(n + 1)]])
          /\ r2[table[Ceil(n + 1)]][(n % page_tokens) + 1] = <<st.context[n + 1], n>>
      BY <1>1, <1>4, <1>11, <1>12, <2>4
    <3>2. Continues(r0, st.block_table, r2, table)
      BY <2>3 DEF Continues
    <3> QED
      BY <2>1, <2>5, <3>1, <3>2, BackedMore
  <2>7. st.phase # "none"
    BY <1>1 DEF Caching
  <2> QED
    BY <1>1, <1>2, <1>17, <2>6, <2>7 DEF StreamInv
<1>20. ASSUME NEW z \in Stream, z # s
       PROVE  \A p \in Owned(stream[z].block_table) : r2[p] = kv.rows[p]
  <2>1. Owned(stream[z].block_table) \subseteq PageId
    BY StreamParts DEF CacheInv
  <2> QED
    BY <1>8, <1>15, <1>20, <2>1 DEF OthersKept
<1> QED
    BY <1>7, <1>15, <1>17, <1>18, <1>19, <1>20, SessionStep

\* What append knows before it writes: the pool after its evictions.
Ready(s, r, c, f, x) ==
    /\ PoolInv(r, c, f, x, Tables) /\ Len(x) <= prefix_capacity
    /\ \A z \in Stream :
        /\ StreamInv(r, stream[z]) /\ Tables[z] = stream[z].block_table
        /\ \A p \in Owned(stream[z].block_table) : r[p] = kv.rows[p] /\ c[p] # 0

\* No page is left: the evictions stay.
LEMMA AppendFailed ==
    ASSUME CacheInv, NEW s \in Stream, stream[s].phase = "caching",
           NEW r, NEW c, NEW f, NEW x, Ready(s, r, c, f, x),
           NEW why \in Phases, why # "none", Fail(s, why), kv' = Pool(r, c, f, x)
    PROVE  CacheInv'
<1>1. PICK old, st : old = stream[s] /\ st = [old EXCEPT !.phase = why]
    OBVIOUS
<1>2. stream \in [Stream -> StreamType] /\ old \in StreamType
    BY <1>1 DEF CacheInv
<1>3. Becomes(s, st)
    BY <1>1, <1>2 DEF Becomes, Fail
<1>4. /\ st \in StreamType /\ st.block_table = old.block_table /\ st.cached = old.cached
      /\ st.published = old.published /\ st.prompt = old.prompt /\ st.context = old.context
      /\ st.phase = why
    BY <1>1, <1>2 DEF StreamType
<1>5. StreamInv(r, old) /\ old.phase = "caching"
    BY <1>1 DEF Ready
<1>6. StreamInv(r, st)
    BY <1>4, <1>5 DEF StreamInv
<1>7. With(s, st.block_table) = Tables
    BY <1>1, <1>4 DEF Tables, With
<1>8. PoolInv(r, c, f, x, With(s, st.block_table)) /\ Len(x) <= prefix_capacity
    BY <1>7 DEF Ready
<1>9. \A z \in Stream : z # s => \A p \in Owned(stream[z].block_table) : r[p] = kv.rows[p]
    BY DEF Ready
<1> QED
    BY <1>3, <1>6, <1>8, <1>9, SessionStep

\* The row begins a page.
LEMMA AppendToNew ==
    ASSUME CacheInv, NEW s \in Stream, Caching(s),
           NEW r, NEW c, NEW f, NEW x, Ready(s, r, c, f, x), f # << >>,
           stream[s].cached % page_tokens = 0,
           Written(s, allocate(Pool(r, c, f, x)), Append(stream[s].block_table, Last(f)))
    PROVE  CacheInv'
<1>1. PICK n, old, page, table : /\ n = stream[s].cached /\ old = stream[s].block_table
                                 /\ page = Last(f) /\ table = Append(old, page)
    OBVIOUS
<1>2. Booked(r, c, f) /\ Directory(x) /\ Counts(c, Tables, Owned(x))
      /\ \A e \in Owned(x) : Backed(r, e.pages, e.tokens, Len(e.tokens))
    BY DEF Ready, PoolInv
<1>3. PICK c2, f2 :
        /\ allocate(Pool(r, c, f, x)) = Pool(r, c2, f2, x) /\ Booked(r, c2, f2)
        /\ page \in PageId /\ c[page] = 0 /\ r[page] = << >>
        /\ \A p \in PageId : c2[p] = IF p = page THEN 1 ELSE c[p]
    BY <1>1, <1>2, Allocated
<1>4. StreamInv(r, stream[s]) /\ Tables[s] = old /\ n \in Nat
      /\ Named(old) /\ Owned(old) \subseteq PageId /\ Len(old) = Ceil(n) /\ old \in Seq(PageId)
      /\ \A p \in Owned(old) : c[p] # 0
    BY <1>1, StreamParts DEF Ready, StreamInv, Backed
<1>5. page \notin Owned(old)
    BY <1>3, <1>4
<1>6. /\ Named(table) /\ Len(table) = Len(old) + 1 /\ Owned(table) = Owned(old) \cup {page}
      /\ \A i \in 1..Len(old) : table[i] = old[i]
      /\ table[Len(old) + 1] = page
    BY <1>1, <1>3, <1>4, <1>5, NamedAppend, OwnedAppend
<1>7. Len(table) = Ceil(n + 1) /\ Last(table) = page
  <2>1. n % page_tokens = 0
    BY <1>1
  <2>2. Ceil(n + 1) = Ceil(n) + 1
    BY <1>4, <2>1, CeilIs
  <2>3. Len(table) = Ceil(n + 1)
    BY <1>4, <1>6, <2>2
  <2>4. Last(table) = table[Len(old) + 1]
    BY <1>6 DEF Last
  <2> QED
    BY <1>6, <2>3, <2>4
<1>8. PICK tab : tab = With(s, table)
    OBVIOUS
<1>9. tab[s] = table /\ \A z \in Stream : z # s => tab[z] = Tables[z]
    BY <1>8 DEF With, Tables
<1>10. c \in [PageId -> Nat]
    BY <1>2 DEF Booked
<1>11. \A p \in PageId : c2[p] = (c[p] - In(p, Tables[s])) + In(p, table)
    BY <1>3, <1>4, <1>5, <1>6, <1>10 DEF In
<1>12. Counts(c2, tab, Owned(x))
    BY <1>2, <1>9, <1>11, CountsTable
<1>13. PoolInv(r, c2, f2, x, tab)
    BY <1>2, <1>3, <1>12 DEF PoolInv
<1>14. c2[Last(table)] = 1 /\ Len(r[Last(table)]) = n % page_tokens
    BY <1>1, <1>3, <1>7
<1>15. SameRows(r, table, r, old)
    BY <1>6 DEF SameRows
<1>16. OthersKept(s, r)
    BY DEF Ready, OthersKept
<1>17. Len(x) <= prefix_capacity
    BY DEF Ready
<1>18. Written(s, Pool(r, c2, f2, x), table)
    BY <1>1, <1>3
<1> QED
    BY <1>1, <1>4, <1>6, <1>7, <1>8, <1>13, <1>14, <1>15, <1>16, <1>17, <1>18, WrittenStep

\* The last page of a session that has begun one.
LEMMA TailPageIs ==
    ASSUME CacheInv, NEW s \in Stream, stream[s].cached % page_tokens # 0
    PROVE  /\ stream[s].block_table # << >> /\ Last(stream[s].block_table) \in PageId
           /\ Last(stream[s].block_table) \in Owned(stream[s].block_table)
           /\ Len(stream[s].block_table) = Ceil(stream[s].cached + 1)
           /\ Len(stream[s].block_table) \in Nat \ {0}
<1>1. PICK n, old : n = stream[s].cached /\ old = stream[s].block_table
    OBVIOUS
<1>2. n \in Nat /\ Named(old) /\ Len(old) = Ceil(n)
    BY <1>1 DEF CacheInv, StreamInv, Backed
<1>3. Ceil(n + 1) = Ceil(n) /\ Ceil(n + 1) = n \div page_tokens + 1 /\ n \div page_tokens \in Nat
  <2>1. n \div page_tokens \in Nat
    BY <1>2, DivMod, PageTokens
  <2> QED
    BY <1>1, <1>2, <2>1, CeilIs
<1>4. Len(old) \in Nat \ {0} /\ Len(old) = Ceil(n + 1)
    BY <1>2, <1>3
<1>5. old # << >>
    BY <1>4
<1>6. Last(old) \in PageId /\ Last(old) \in Owned(old)
    BY <1>2, <1>5, FrontFacts
<1> QED
    BY <1>1, <1>4, <1>5, <1>6

\* The row goes to the tail page, which nobody shares.
LEMMA AppendToTail ==
    ASSUME CacheInv, NEW s \in Stream, Caching(s),
           NEW r, NEW c, NEW f, NEW x, Ready(s, r, c, f, x),
           stream[s].cached % page_tokens # 0, c[Last(stream[s].block_table)] = 1,
           Len(kv.rows[Last(stream[s].block_table)]) = stream[s].cached % page_tokens,
           Written(s, Pool(r, c, f, x), stream[s].block_table)
    PROVE  CacheInv'
<1>1. PICK n, old : n = stream[s].cached /\ old = stream[s].block_table
    OBVIOUS
<1>2. Last(old) \in Owned(old) /\ Len(old) = Ceil(n + 1)
    BY <1>1, TailPageIs
<1>3. StreamInv(r, stream[s]) /\ Named(old) /\ \A p \in Owned(old) : r[p] = kv.rows[p]
    BY <1>1, StreamParts DEF Ready
<1>4. With(s, old) = Tables
    BY <1>1 DEF Tables, With
<1>5. PoolInv(r, c, f, x, With(s, old)) /\ Len(x) <= prefix_capacity
    BY <1>4 DEF Ready
<1>6. Len(r[Last(old)]) = n % page_tokens
    BY <1>1, <1>2, <1>3
<1>7. OthersKept(s, r)
    BY DEF Ready, OthersKept
<1>8. SameRows(r, old, r, old)
    BY DEF SameRows
<1> QED
    BY <1>1, <1>2, <1>3, <1>5, <1>6, <1>7, <1>8, WrittenStep

\* The pool once a shared tail has been given up for a copy of it.
Copied(q, tail, page, copy) == [release(allocate(q), <<tail>>) EXCEPT !.rows[page] = copy]

\* The row goes to a copy of the tail page, which others keep.
LEMMA AppendToCopy ==
    ASSUME CacheInv, NEW s \in Stream, Caching(s),
           NEW r, NEW c, NEW f, NEW x, Ready(s, r, c, f, x), f # << >>,
           stream[s].cached % page_tokens # 0, c[Last(stream[s].block_table)] # 1,
           Len(kv.rows[Last(stream[s].block_table)]) = stream[s].cached % page_tokens,
           Written(s, Copied(Pool(r, c, f, x), Last(stream[s].block_table), Last(f),
                             SubSeq(kv.rows[Last(stream[s].block_table)], 1,
                                    stream[s].cached % page_tokens)),
                   Append(Front(stream[s].block_table), Last(f)))
    PROVE  CacheInv'
<1>1. PICK n, old, tail, page, front, table, copy :
        /\ n = stream[s].cached /\ old = stream[s].block_table /\ tail = Last(old)
        /\ page = Last(f) /\ front = Front(old) /\ table = Append(front, page)
        /\ copy = SubSeq(kv.rows[tail], 1, n % page_tokens)
    OBVIOUS
<1>2. /\ old # << >> /\ tail \in Owned(old) /\ tail \in PageId /\ Len(old) = Ceil(n + 1)
      /\ Len(old) \in Nat \ {0}
    BY <1>1, TailPageIs
<1>3. Booked(r, c, f) /\ Directory(x) /\ Counts(c, Tables, Owned(x))
      /\ \A e \in Owned(x) : Backed(r, e.pages, e.tokens, Len(e.tokens))
    BY DEF Ready, PoolInv
<1>4. PICK c2, f2 :
        /\ allocate(Pool(r, c, f, x)) = Pool(r, c2, f2, x) /\ Booked(r, c2, f2)
        /\ page \in PageId /\ c[page] = 0 /\ r[page] = << >>
        /\ \A p \in PageId : c2[p] = IF p = page THEN 1 ELSE c[p]
  <2>1. PICK c2, f2 :
          /\ allocate(Pool(r, c, f, x)) = Pool(r, c2, f2, x) /\ Booked(r, c2, f2)
          /\ Last(f) \in PageId /\ c[Last(f)] = 0 /\ r[Last(f)] = << >>
          /\ \A p \in PageId : c2[p] = IF p = Last(f) THEN 1 ELSE c[p]
    <3>1. Booked(r, c, f) /\ f # << >>
      BY <1>3
    <3> QED
      BY <3>1, Allocated
  <2>2. page = Last(f)
    BY <1>1
  <2> QED
    BY <2>1, <2>2
<1>5. StreamInv(r, stream[s]) /\ Tables[s] = old /\ n \in Nat
      /\ Named(old) /\ Owned(old) \subseteq PageId /\ old \in Seq(PageId)
      /\ \A p \in Owned(old) : c[p] # 0 /\ r[p] = kv.rows[p]
    BY <1>1, StreamParts DEF Ready
<1>6. page \notin Owned(old) /\ page # tail
    BY <1>2, <1>4, <1>5
<1>7. c \in [PageId -> Nat] /\ r \in [PageId -> Seq(Row)]
    BY <1>3 DEF Booked
<1>8. c[tail] \in Nat /\ c[tail] >= 2
    BY <1>1, <1>2, <1>5, <1>7
<1>9. Named(<<tail>>) /\ Owned(<<tail>>) = {tail}
    BY <1>2 DEF Named, IsInjective, Owned
<1>10. PICK r3, c3, f3 :
        /\ release(Pool(r, c2, f2, x), <<tail>>) = Pool(r3, c3, f3, x)
        /\ Booked(r3, c3, f3)
        /\ \A p \in PageId : c3[p] = c2[p] - In(p, <<tail>>) /\ (c3[p] # 0 => r3[p] = r[p])
  <2>1. \A p \in Owned(<<tail>>) : c2[p] # 0
    BY <1>2, <1>4, <1>6, <1>8, <1>9
  <2> QED
    BY <1>4, <1>9, <2>1, TableReleased
<1>11. \A p \in PageId : c3[p] = IF p = page THEN 1 ELSE IF p = tail THEN c[p] - 1 ELSE c[p]
    BY <1>4, <1>6, <1>7, <1>9, <1>10 DEF In
<1>12. \A p \in PageId : r3[p] = r[p]
  <2>1. ASSUME NEW p \in PageId, c3[p] = 0 PROVE r3[p] = r[p]
    <3>1. r3[p] = << >>
      BY <1>10, <2>1 DEF Booked
    <3>2. c[p] = 0
      BY <1>8, <1>11, <2>1
    <3>3. r[p] = << >>
      BY <1>3, <3>2 DEF Booked
    <3> QED
      BY <3>1, <3>3
  <2> QED
    BY <1>10, <2>1
<1>13. /\ Named(front) /\ Len(front) = Len(old) - 1
       /\ \A i \in 1..(Len(old) - 1) : front[i] = old[i]
       /\ Owned(front) = Owned(old) \ {tail}
    BY <1>1, <1>2, <1>5, FrontFacts
<1>14. /\ Named(table) /\ Len(table) = Len(front) + 1 /\ Owned(table) = Owned(front) \cup {page}
       /\ \A i \in 1..Len(front) : table[i] = front[i]
       /\ table[Len(front) + 1] = page
  <2>1. front \in Seq(PageId) /\ page \notin Owned(front)
    BY <1>6, <1>13 DEF Named
  <2> QED
    BY <1>1, <1>4, <1>13, <2>1, NamedAppend, OwnedAppend
<1>15. /\ Len(table) = Len(old) /\ Len(table) = Ceil(n + 1) /\ Last(table) = page
       /\ table[Len(old)] = page
       /\ \A i \in 1..Len(old) : i # Len(old) => table[i] = old[i]
  <2>1. PICK l \in Nat \ {0} : l = Len(old)
    BY <1>2
  <2>2. Len(front) = l - 1 /\ Len(table) = l /\ table[l] = page
    BY <1>13, <1>14, <2>1
  <2>3. ASSUME NEW i \in 1..l, i # l PROVE table[i] = old[i]
    <3>1. i \in 1..(l - 1)
      BY <2>3
    <3> QED
      BY <1>13, <1>14, <2>1, <2>2, <3>1
  <2> QED
    BY <1>2, <2>1, <2>2, <2>3 DEF Last
<1>16. PICK tab : tab = With(s, table)
    OBVIOUS
<1>17. tab[s] = table /\ \A z \in Stream : z # s => tab[z] = Tables[z]
    BY <1>16 DEF With, Tables
<1>18. Owned(table) = (Owned(old) \ {tail}) \cup {page}
    BY <1>13, <1>14
<1>19. \A p \in PageId : c3[p] = (c[p] - In(p, Tables[s])) + In(p, table)
  <2>1. SUFFICES ASSUME NEW p \in PageId PROVE c3[p] = (c[p] - In(p, old)) + In(p, table)
    BY <1>5
  <2>2. c[p] \in Nat
    BY <1>7
  <2>3. CASE p = page
    BY <1>4, <1>6, <1>11, <1>18, <2>3 DEF In
  <2>4. CASE p = tail
    BY <1>2, <1>6, <1>11, <1>18, <2>2, <2>4 DEF In
  <2>5. CASE p # page /\ p # tail
    BY <1>11, <1>18, <2>2, <2>5 DEF In
  <2> QED
    BY <2>3, <2>4, <2>5
<1>20. Counts(c3, tab, Owned(x))
    BY <1>3, <1>17, <1>19, CountsTable
<1>21. PoolInv(r3, c3, f3, x, tab)
  <2>1. ASSUME NEW e \in Owned(x) PROVE Backed(r3, e.pages, e.tokens, Len(e.tokens))
    <3>1. Owned(e.pages) \subseteq PageId
      BY EntryPages DEF Ready
    <3> QED
      BY <1>3, <1>12, <3>1, BackedKeeps
  <2> QED
    BY <1>3, <1>10, <1>20, <2>1 DEF PoolInv
<1>22. copy = r[tail] /\ copy \in Seq(Row) /\ Len(copy) = n % page_tokens /\ Len(copy) <= page_tokens
  <2>1. r[tail] = kv.rows[tail] /\ r[tail] \in Seq(Row) /\ Len(r[tail]) = n % page_tokens
    BY <1>1, <1>2, <1>5, <1>7
  <2>2. SubSeq(r[tail], 1, Len(r[tail])) = r[tail]
    BY <2>1
  <2>3. Len(r[tail]) <= page_tokens
    BY <1>2, <1>3 DEF Booked
  <2> QED
    BY <1>1, <2>1, <2>2, <2>3
<1>23. PICK r4 : r4 = Wrote(r3, page, copy)
    OBVIOUS
<1>24. page \in Owned(tab[s]) /\ c3[page] = 1
    BY <1>4, <1>11, <1>17, <1>18
<1>25. /\ PoolInv(r4, c3, f3, x, tab)
       /\ r4[page] = copy /\ \A p \in PageId : p # page => r4[p] = r3[p]
       /\ \A z \in Stream : z # s => page \notin Owned(tab[z])
    BY <1>4, <1>21, <1>22, <1>23, <1>24, PageWritten
<1>26. Written(s, Pool(r4, c3, f3, x), table)
  <2>1. PICK q : q = Pool(r3, c3, f3, x)
    OBVIOUS
  <2>2. q.rows = r3
    BY <2>1, PoolFields
  <2>3. [q EXCEPT !.rows[page] = copy] = [q EXCEPT !.rows = [q.rows EXCEPT ![page] = copy]]
    OBVIOUS
  <2>4. [q.rows EXCEPT ![page] = copy] = r4
    BY <1>23, <2>2 DEF Wrote
  <2>5. [q EXCEPT !.rows = r4] = Pool(r4, c3, f3, x)
    BY <2>1 DEF Pool
  <2>6. PICK q4 : q4 = [q EXCEPT !.rows[page] = copy]
    OBVIOUS
  <2>7. q4 = Pool(r4, c3, f3, x)
    BY <2>3, <2>4, <2>5, <2>6
  <2>8. q = release(allocate(Pool(r, c, f, x)), <<tail>>)
    BY <1>4, <1>10, <2>1
  <2>9. q4 = Copied(Pool(r, c, f, x), tail, page, copy)
    BY <2>6, <2>8 DEF Copied
  <2>10. Written(s, q4, table)
    BY <1>1, <2>9
  <2> QED
    BY <2>7, <2>10
<1>27. c3[Last(table)] = 1 /\ Len(r4[Last(table)]) = n % page_tokens
    BY <1>15, <1>22, <1>24, <1>25
<1>28. SameRows(r4, table, r, old)
  <2>1. ASSUME NEW k \in 1..Len(old) PROVE r4[table[k]] = r[old[k]]
    <3>1. CASE k = Len(old)
      BY <1>1, <1>15, <1>22, <1>25, <3>1, Zenon DEF Last
    <3>2. CASE k # Len(old)
      <4>0. DOMAIN old = 1..Len(old)
        BY <1>5, SeqFacts
      <4>1. table[k] = old[k] /\ old[k] \in Owned(old)
        BY <1>15, <3>2, <4>0 DEF Owned
      <4>2. old[k] \in PageId /\ old[k] # page
        BY <1>5, <1>6, <4>1
      <4> QED
        BY <1>12, <1>25, <4>1, <4>2
    <3> QED
      BY <3>1, <3>2, Zenon
  <2> QED
    BY <2>1 DEF SameRows
<1>29. OthersKept(s, r4)
  <2> SUFFICES ASSUME NEW z \in Stream, z # s
               PROVE  \A p \in Owned(stream[z].block_table) : r4[p] = kv.rows[p]
    BY DEF OthersKept
  <2>1. /\ Owned(stream[z].block_table) \subseteq PageId /\ Tables[z] = stream[z].block_table
        /\ \A p \in Owned(stream[z].block_table) : r[p] = kv.rows[p]
    BY StreamParts DEF Ready
  <2>2. \A p \in Owned(stream[z].block_table) : p # page
    BY <1>17, <1>25, <2>1
  <2> QED
    BY <1>12, <1>25, <2>1, <2>2
<1>30. Len(x) <= prefix_capacity
    BY DEF Ready
<1>31. n = stream[s].cached /\ old = stream[s].block_table /\ StreamInv(r, stream[s])
    BY <1>1, <1>5
<1>32. Named(table) /\ Len(table) = Ceil(n + 1)
    BY <1>14, <1>15
<1>33. PoolInv(r4, c3, f3, x, With(s, table))
    BY <1>16, <1>25
<1> QED
    BY <1>26, <1>27, <1>28, <1>29, <1>30, <1>31, <1>32, <1>33, WrittenStep

\* The step keeps the invariant: a row is cached, or the step fails.
LEMMA AppendStep ==
    ASSUME CacheInv, NEW s \in Stream, append(s)
    PROVE  CacheInv'
<1>1. PICK r, c, f, x :
        /\ kv = Pool(r, c, f, x) /\ kv.rows = r
        /\ PoolInv(r, c, f, x, Tables) /\ Len(x) <= prefix_capacity
        /\ \A z \in Stream : StreamInv(r, stream[z]) /\ Tables[z] = stream[z].block_table
    BY CacheParts
<1>2. PICK slot, tail, q, page, copy, old :
        /\ slot = stream[s].cached % page_tokens /\ old = stream[s].block_table
        /\ tail = Last(old) /\ q = FreePage(kv, slot, tail)
        /\ page = Last(q.free_pages) /\ copy = SubSeq(kv.rows[tail], 1, slot)
    OBVIOUS
<1>3. PICK k \in 0..Len(x) : Evicted(r, c, f, x, Tables, k, q)
    BY <1>1, <1>2, EvictedForPage
<1>4. PICK r1, c1, f1, x1 :
        /\ q = Pool(r1, c1, f1, x1)
        /\ PoolInv(r1, c1, f1, x1, Tables) /\ Spared(r, c, r1, c1)
        /\ Len(x1) = Len(x) - k
    BY <1>3 DEF Evicted
<1>5. q.free_pages = f1 /\ q.references = c1 /\ page = Last(f1)
    BY <1>2, <1>4, PoolFields
<1>6. Ready(s, r1, c1, f1, x1)
  <2>1. Counts(c1, Tables, Owned(x1))
    BY <1>4 DEF PoolInv
  <2>2. \A z \in Stream : /\ StreamInv(r1, stream[z])
                          /\ \A p \in Owned(stream[z].block_table) : r1[p] = r[p] /\ c1[p] # 0
    BY <1>1, <1>4, <2>1, SessionsSpared
  <2>3. Len(x) \in Nat
    BY <1>1, SeqFacts DEF PoolInv, Directory
  <2>4. Len(x1) <= prefix_capacity
    BY <1>1, <1>4, <2>3, PagesType, Fewer
  <2> QED
    BY <1>1, <1>4, <2>2, <2>4 DEF Ready
<1>7. Caching(s) /\ stream[s].phase # "none"
  <2>1. Caching(s)
    BY Zenon DEF append, Caching
  <2> QED
    BY <2>1 DEF Caching
<1>8. \/ Fail(s, "inconsistent") /\ UNCHANGED kv
      \/ slot = 0 /\ HasFree(q) /\ Written(s, allocate(q), Append(old, page))
      \/ slot # 0 /\ Len(kv.rows[tail]) = slot /\ writable(q, slot, tail) /\ Written(s, q, old)
      \/ /\ slot # 0 /\ Len(kv.rows[tail]) = slot /\ ~writable(q, slot, tail) /\ HasFree(q)
         /\ Written(s, Copied(q, tail, page, copy), Append(Front(old), page))
      \/ Fail(s, "exhausted") /\ kv' = q
    BY <1>2, Zenon DEF append, Copied
<1>9. CASE Fail(s, "inconsistent") /\ UNCHANGED kv
    BY <1>7, <1>9, PhaseStep, PhasesAre DEF Fail
<1>10. CASE slot = 0 /\ HasFree(q) /\ Written(s, allocate(q), Append(old, page))
  <2>1. f1 # << >>
    BY <1>5, <1>10 DEF HasFree
  <2>2. /\ stream[s].cached % page_tokens = 0
        /\ Written(s, allocate(Pool(r1, c1, f1, x1)), Append(stream[s].block_table, Last(f1)))
    BY <1>2, <1>4, <1>5, <1>10
  <2> QED
    BY <1>6, <1>7, <2>1, <2>2, AppendToNew
<1>11. CASE slot # 0 /\ Len(kv.rows[tail]) = slot /\ writable(q, slot, tail) /\ Written(s, q, old)
  <2>1. c1[tail] = 1
    BY <1>5, <1>11 DEF writable
  <2> QED
    BY <1>2, <1>4, <1>6, <1>7, <1>11, <2>1, AppendToTail
<1>12. CASE /\ slot # 0 /\ Len(kv.rows[tail]) = slot /\ ~writable(q, slot, tail) /\ HasFree(q)
            /\ Written(s, Copied(q, tail, page, copy), Append(Front(old), page))
  <2>1. f1 # << >> /\ c1[tail] # 1
    BY <1>5, <1>12 DEF HasFree, writable
  <2> QED
    BY <1>2, <1>4, <1>5, <1>6, <1>7, <1>12, <2>1, AppendToCopy
<1>13. CASE Fail(s, "exhausted") /\ kv' = q
    BY <1>4, <1>6, <1>7, <1>13, AppendFailed, PhasesAre DEF Caching
<1> QED
    BY <1>8, <1>9, <1>10, <1>11, <1>12, <1>13

\* What publishing leaves of the session.
LEMMA PublishedStream ==
    ASSUME CacheInv, NEW s \in Stream, stream[s].phase = "caching",
           stream' = [stream EXCEPT ![s].phase = "select", ![s].published = TRUE]
    PROVE  \E st : /\ Becomes(s, st) /\ st.block_table = stream[s].block_table
                   /\ With(s, st.block_table) = Tables
                   /\ \A r : StreamInv(r, stream[s]) => StreamInv(r, st)
<1>1. PICK old, a1, st : /\ old = stream[s] /\ a1 = [old EXCEPT !.phase = "select"]
                         /\ st = [a1 EXCEPT !.published = TRUE]
    OBVIOUS
<1>2. stream \in [Stream -> StreamType] /\ old \in StreamType
    BY <1>1 DEF CacheInv
<1>3. Becomes(s, st)
    BY <1>1, <1>2 DEF Becomes
<1>4. /\ a1 \in StreamType /\ a1.block_table = old.block_table /\ a1.cached = old.cached
      /\ a1.prompt = old.prompt /\ a1.context = old.context /\ a1.phase = "select"
    BY <1>1, <1>2, PhasesAre DEF StreamType
<1>5. /\ st \in StreamType /\ st.block_table = old.block_table /\ st.cached = old.cached
      /\ st.prompt = old.prompt /\ st.context = old.context /\ st.phase = "select"
      /\ st.published = TRUE
    BY <1>1, <1>4 DEF StreamType
<1>6. ASSUME NEW r, StreamInv(r, old) PROVE StreamInv(r, st)
    BY <1>5, <1>6 DEF StreamInv
<1>7. With(s, st.block_table) = Tables
    BY <1>1, <1>5 DEF Tables, With
<1> QED
    BY <1>1, <1>3, <1>5, <1>6, <1>7

\* The pages of the prompt, of a session whose rows are complete.
LEMMA PromptBacked ==
    ASSUME NEW r, NEW st, StreamInv(r, st), st.phase = "caching", ~ st.published,
           st.cached = Len(st.context)
    PROVE  /\ Backed(r, PromptPages(st), st.prompt, Len(st.prompt))
           /\ Owned(PromptPages(st)) \subseteq Owned(st.block_table)
           /\ PromptPages(st) \in Seq(PageId) /\ Named(PromptPages(st))
<1>1. PICK m \in Nat : m = Len(st.prompt)
    BY StreamParts
<1>2. Begins(st.prompt, st.context) /\ Backed(r, st.block_table, st.context, st.cached)
    BY DEF StreamInv
<1>3. m <= st.cached /\ \A i \in 1..m : st.prompt[i] = st.context[i]
    BY <1>1, <1>2 DEF Begins
<1>4. PromptPages(st) = SubSeq(st.block_table, 1, Ceil(m))
    BY <1>1 DEF PromptPages, Ceil
<1>5. Backed(r, PromptPages(st), st.prompt, m)
      /\ Owned(PromptPages(st)) \subseteq Owned(st.block_table)
  <2>1. m <= Len(st.prompt)
    BY <1>1
  <2> QED
    BY <1>2, <1>3, <1>4, <2>1, BackedPrefix
<1> QED
    BY <1>1, <1>5 DEF Backed, Named

\* A new entry of the directory.
LEMMA EntryAdded ==
    ASSUME NEW r, NEW c, NEW f, NEW x, NEW tab, PoolInv(r, c, f, x, tab),
           NEW e \in Entry, Backed(r, e.pages, e.tokens, Len(e.tokens)),
           \A p \in Owned(e.pages) : c[p] # 0,
           \A d \in Owned(x) : d.tokens # e.tokens
    PROVE  \E c2 : /\ retain(Pool(r, c, f, x), e.pages) = Pool(r, c2, f, x)
                   /\ PoolInv(r, c2, f, Append(x, e), tab)
                   /\ Len(Append(x, e)) = Len(x) + 1
<1>1. Booked(r, c, f) /\ Directory(x) /\ Counts(c, tab, Owned(x))
      /\ \A d \in Owned(x) : Backed(r, d.pages, d.tokens, Len(d.tokens))
    BY DEF PoolInv
<1>2. Named(e.pages)
    BY DEF Backed
<1>3. PICK c2 : /\ retain(Pool(r, c, f, x), e.pages) = Pool(r, c2, f, x)
                /\ Booked(r, c2, f)
                /\ \A p \in PageId : c2[p] = c[p] + In(p, e.pages)
    BY <1>1, <1>2, TableRetained
<1>4. PICK x2 : x2 = Append(x, e)
    OBVIOUS
<1>5. Directory(x2) /\ Len(x2) = Len(x) + 1 /\ Owned(x2) = Owned(x) \cup {e} /\ e \notin Owned(x)
    BY <1>1, <1>4, DirectoryAppend
<1>6. Counts(c2, tab, Owned(x2))
    BY <1>1, <1>3, <1>5, CountsAdd
<1>7. \A d \in Owned(x2) : Backed(r, d.pages, d.tokens, Len(d.tokens))
    BY <1>1, <1>5
<1> QED
    BY <1>3, <1>4, <1>5, <1>6, <1>7 DEF PoolInv

\* A page that still has a reference had one.
LEMMA StillHeld ==
    ASSUME NEW k \in Nat, NEW k3 \in Nat, NEW m \in {0, 1}, k3 = k - m, k3 # 0
    PROVE  k # 0
    OBVIOUS

\* An entry of the directory takes the pages of another session.
Replaced(q, i, e) ==
    [release(retain(q, e.pages), q.prefixes[i].pages) EXCEPT !.prefixes = Append(RemoveAt(@, i), e)]

\* The entry keeps its place in the count, and others their rows.
LEMMA EntryReplaced ==
    ASSUME NEW r, NEW c, NEW f, NEW x, NEW tab, PoolInv(r, c, f, x, tab),
           NEW e \in Entry, Backed(r, e.pages, e.tokens, Len(e.tokens)),
           \A p \in Owned(e.pages) : c[p] # 0,
           NEW i \in DOMAIN x, x[i].tokens = e.tokens
    PROVE  \E r3, c3, f3, x3 :
              /\ Replaced(Pool(r, c, f, x), i, e) = Pool(r3, c3, f3, x3)
              /\ PoolInv(r3, c3, f3, x3, tab) /\ Spared(r, c, r3, c3)
              /\ Len(x3) = Len(x)
<1>1. Booked(r, c, f) /\ Directory(x) /\ Counts(c, tab, Owned(x))
      /\ \A y \in Owned(x) : Backed(r, y.pages, y.tokens, Len(y.tokens))
    BY DEF PoolInv
<1>2. PICK d, x2, x3 : d = x[i] /\ x2 = RemoveAt(x, i) /\ x3 = Append(x2, e)
    OBVIOUS
<1>3. /\ Directory(x2) /\ Len(x2) = Len(x) - 1 /\ Owned(x2) = Owned(x) \ {d} /\ d \in Owned(x)
      /\ \A y \in Owned(x2) : y.tokens # e.tokens
    BY <1>1, <1>2, DirectoryRemove
<1>4. Directory(x3) /\ Len(x3) = Len(x2) + 1 /\ Owned(x3) = Owned(x2) \cup {e} /\ e \notin Owned(x2)
    BY <1>2, <1>3, DirectoryAppend
<1>5. Len(x3) = Len(x)
  <2>1. Len(x) \in Nat
    BY <1>1, SeqFacts DEF Directory
  <2> QED
    BY <1>3, <1>4, <2>1
<1>6. Named(e.pages) /\ Owned(e.pages) \subseteq PageId
    BY SeqFacts DEF Backed, Named
<1>7. PICK c2 : /\ retain(Pool(r, c, f, x), e.pages) = Pool(r, c2, f, x)
                /\ Booked(r, c2, f)
                /\ \A p \in PageId : c2[p] = c[p] + In(p, e.pages)
    BY <1>1, <1>6, TableRetained
<1>8. Named(d.pages) /\ Owned(d.pages) \subseteq PageId /\ \A p \in Owned(d.pages) : c[p] # 0
    BY <1>3, EntryPages, SeqFacts DEF Named
<1>9. c \in [PageId -> Nat] /\ c2 \in [PageId -> Nat]
    BY <1>1, <1>7 DEF Booked
<1>10. \A p \in Owned(d.pages) : c2[p] # 0
    BY <1>7, <1>8, <1>9 DEF In
<1>11. PICK r3, c3, f3 :
        /\ release(Pool(r, c2, f, x), d.pages) = Pool(r3, c3, f3, x)
        /\ Booked(r3, c3, f3)
        /\ \A p \in PageId : c3[p] = c2[p] - In(p, d.pages) /\ (c3[p] # 0 => r3[p] = r[p])
    BY <1>7, <1>8, <1>10, TableReleased
<1>12. c3 \in [PageId -> Nat]
    BY <1>11 DEF Booked
<1>13. Counts(c3, tab, Owned(x3))
  <2>1. PICK c1 : c1 = [p \in PageId |-> c[p] - In(p, d.pages)]
    OBVIOUS
  <2>2. Counts(c1, tab, Owned(x2))
    BY <1>1, <1>3, <2>1, CountsDrop
  <2>3. \A p \in PageId : c3[p] = c1[p] + In(p, e.pages)
    BY <1>7, <1>9, <1>11, <2>1 DEF In
  <2> QED
    BY <1>4, <2>2, <2>3, CountsAdd
<1>14. Spared(r, c, r3, c3)
  <2>1. ASSUME NEW p \in PageId, c3[p] # 0 PROVE c[p] # 0
    <3>1. CASE p \in Owned(e.pages)
      BY <3>1
    <3>2. CASE p \notin Owned(e.pages)
      <4>1. In(p, e.pages) = 0 /\ In(p, d.pages) \in {0, 1}
        BY <3>2 DEF In
      <4>2. c[p] \in Nat /\ c2[p] \in Nat /\ c3[p] \in Nat
        BY <1>9, <1>12
      <4>3. c2[p] = c[p] + In(p, e.pages) /\ c3[p] = c2[p] - In(p, d.pages)
        BY <1>7, <1>11
      <4>4. c2[p] = c[p]
        BY <4>1, <4>2, <4>3
      <4> QED
        BY <2>1, <4>1, <4>2, <4>3, <4>4, StillHeld
    <3> QED
      BY <3>1, <3>2
  <2> QED
    BY <1>11, <2>1 DEF Spared
<1>15. ASSUME NEW y \in Owned(x3) PROVE Backed(r3, y.pages, y.tokens, Len(y.tokens))
  <2>1. Backed(r, y.pages, y.tokens, Len(y.tokens))
    BY <1>1, <1>3, <1>4
  <2>2. Owned(y.pages) \subseteq PageId
    BY <2>1, SeqFacts DEF Backed, Named
  <2>3. \A p \in Owned(y.pages) : c3[p] # 0
    BY <1>13, <2>2, HeldCounts
  <2> QED
    BY <1>14, <2>1, <2>2, <2>3, BackedKeeps DEF Spared
<1>16. Replaced(Pool(r, c, f, x), i, e) = Pool(r3, c3, f3, x3)
  <2>1. PICK q, q3 : q = Pool(r, c, f, x) /\ q3 = Pool(r3, c3, f3, x)
    OBVIOUS
  <2>2. q.prefixes = x /\ q3.prefixes = x
    BY <2>1, PoolFields
  <2>3. q3 = release(retain(q, e.pages), q.prefixes[i].pages)
    BY <1>2, <1>7, <1>11, <2>1, <2>2
  <2>4. Replaced(q, i, e) = [q3 EXCEPT !.prefixes = Append(RemoveAt(@, i), e)]
    BY <2>3 DEF Replaced
  <2>5. [q3 EXCEPT !.prefixes = Append(RemoveAt(@, i), e)] = [q3 EXCEPT !.prefixes = x3]
    BY <1>2, <2>2
  <2>6. [q3 EXCEPT !.prefixes = x3] = Pool(r3, c3, f3, x3)
    BY <2>1 DEF Pool
  <2> QED
    BY <2>1, <2>4, <2>5, <2>6
<1>17. PoolInv(r3, c3, f3, x3, tab)
    BY <1>4, <1>11, <1>13, <1>15 DEF PoolInv
<1> QED
    BY <1>5, <1>14, <1>16, <1>17

\* Publishing leaves a sound pool, in which sessions keep their rows.
LEMMA PrefixPublished ==
    ASSUME CacheInv, NEW s \in Stream, stream[s].phase = "caching", ~ stream[s].published,
           stream[s].cached = Len(stream[s].context)
    PROVE  \E r2, c2, f2, x2 : /\ publish_prefix(kv, stream[s]) = Pool(r2, c2, f2, x2)
                               /\ Ready(s, r2, c2, f2, x2)
<1>1. PICK r, c, f, x :
        /\ kv = Pool(r, c, f, x) /\ kv.rows = r /\ kv.prefixes = x
        /\ PoolInv(r, c, f, x, Tables) /\ Len(x) <= prefix_capacity
        /\ \A z \in Stream : StreamInv(r, stream[z]) /\ Tables[z] = stream[z].block_table
    BY CacheParts
<1>2. PICK st, pages, e : /\ st = stream[s] /\ pages = PromptPages(st)
                          /\ e = [tokens |-> st.prompt, pages |-> pages]
    OBVIOUS
<1>3. PICK same, i : /\ same = {j \in DOMAIN x : x[j].tokens = st.prompt}
                     /\ i = CHOOSE j \in same : TRUE
    OBVIOUS
<1>4. e.tokens = st.prompt /\ e.pages = pages
    BY <1>2
<1>5. publish_prefix(kv, st) =
        IF prefix_capacity = 0 THEN kv
        ELSE IF same = {} THEN [retain(RoomForEntry(kv), pages) EXCEPT !.prefixes = Append(@, e)]
        ELSE Replaced(kv, i, e)
    BY <1>1, <1>2, <1>3, <1>4 DEF publish_prefix, Replaced
<1>6. ASSUME NEW r1, NEW c1, NEW f1, NEW x1, PoolInv(r1, c1, f1, x1, Tables), Spared(r, c, r1, c1),
             Len(x1) <= prefix_capacity
      PROVE  Ready(s, r1, c1, f1, x1)
  <2>1. Counts(c1, Tables, Owned(x1))
    BY <1>6 DEF PoolInv
  <2>2. \A z \in Stream : /\ StreamInv(r1, stream[z])
                          /\ \A p \in Owned(stream[z].block_table) : r1[p] = r[p] /\ c1[p] # 0
    BY <1>1, <1>6, <2>1, SessionsSpared
  <2> QED
    BY <1>1, <1>6, <2>2 DEF Ready
<1>7. e \in Entry
  <2>1. st.prompt \in Seq(Token) /\ pages \in Seq(PageId)
    BY <1>1, <1>2, StreamParts, PromptBacked
  <2> QED
    BY <1>2, <2>1 DEF Entry
<1>8. ASSUME NEW r1, NEW c1, NEW f1, NEW x1, Ready(s, r1, c1, f1, x1)
      PROVE  Backed(r1, e.pages, e.tokens, Len(e.tokens)) /\ \A p \in Owned(e.pages) : c1[p] # 0
  <2>1. StreamInv(r1, st) /\ \A p \in Owned(st.block_table) : c1[p] # 0
    BY <1>2, <1>8 DEF Ready
  <2>2. Backed(r1, pages, st.prompt, Len(st.prompt)) /\ Owned(pages) \subseteq Owned(st.block_table)
    BY <1>2, <2>1, PromptBacked
  <2> QED
    BY <1>4, <2>1, <2>2
<1>9. Spared(r, c, r, c)
    BY DEF Spared
<1>10. Ready(s, r, c, f, x)
    BY <1>1, <1>6, <1>9
<1>11. CASE prefix_capacity = 0
    BY <1>1, <1>2, <1>5, <1>10, <1>11
<1>12. CASE prefix_capacity # 0 /\ same = {}
  <2>1. PICK k \in 0..Len(x) :
            Evicted(r, c, f, x, Tables, k, RoomForEntry(kv)) /\ Len(x) - k < prefix_capacity
    BY <1>1, <1>12, EvictedForEntry
  <2>2. PICK r1, c1, f1, x1 :
        /\ RoomForEntry(kv) = Pool(r1, c1, f1, x1)
        /\ PoolInv(r1, c1, f1, x1, Tables) /\ Spared(r, c, r1, c1)
        /\ Len(x1) = Len(x) - k /\ Owned(x1) \subseteq Owned(x)
    BY <2>1 DEF Evicted
  <2>3. Len(x1) \in Nat /\ Len(x1) < prefix_capacity /\ prefix_capacity \in Nat
    BY <2>1, <2>2, SeqFacts, PagesType DEF PoolInv, Directory
  <2>4. Len(x1) <= prefix_capacity /\ Len(x1) + 1 <= prefix_capacity
    BY <2>3
  <2>5. Ready(s, r1, c1, f1, x1)
    BY <1>6, <2>2, <2>4
  <2>6. \A d \in Owned(x1) : d.tokens # e.tokens
    BY <1>3, <1>4, <1>12, <2>2 DEF Owned
  <2>7. Backed(r1, e.pages, e.tokens, Len(e.tokens)) /\ \A p \in Owned(e.pages) : c1[p] # 0
    BY <1>8, <2>5
  <2>8. PICK c2 : /\ retain(Pool(r1, c1, f1, x1), e.pages) = Pool(r1, c2, f1, x1)
                  /\ PoolInv(r1, c2, f1, Append(x1, e), Tables)
                  /\ Len(Append(x1, e)) = Len(x1) + 1
    BY <1>7, <2>2, <2>6, <2>7, EntryAdded
  <2>9. PICK x2 : x2 = Append(x1, e)
    OBVIOUS
  <2>10. publish_prefix(kv, st) = Pool(r1, c2, f1, x2)
    <3>1. PICK q : q = Pool(r1, c2, f1, x1)
      OBVIOUS
    <3>2. q.prefixes = x1
      BY <3>1, PoolFields
    <3>3. publish_prefix(kv, st) = [q EXCEPT !.prefixes = Append(@, e)]
      BY <1>4, <1>5, <1>12, <2>2, <2>8, <3>1
    <3>4. [q EXCEPT !.prefixes = Append(@, e)] = [q EXCEPT !.prefixes = x2]
      BY <2>9, <3>2
    <3>5. [q EXCEPT !.prefixes = x2] = Pool(r1, c2, f1, x2)
      BY <3>1, PoolExcept
    <3> QED
      BY <3>3, <3>4, <3>5
  <2>11. Ready(s, r1, c2, f1, x2)
    <3>1. PoolInv(r1, c2, f1, x2, Tables) /\ Len(x2) <= prefix_capacity
      BY <2>4, <2>8, <2>9
    <3>2. Counts(c2, Tables, Owned(x2))
      BY <3>1 DEF PoolInv
    <3>3. ASSUME NEW z \in Stream
          PROVE  \A p \in Owned(stream[z].block_table) : r1[p] = kv.rows[p] /\ c2[p] # 0
      <4>1. /\ StreamInv(r1, stream[z]) /\ Tables[z] = stream[z].block_table
            /\ \A p \in Owned(stream[z].block_table) : r1[p] = kv.rows[p]
        BY <2>5 DEF Ready
      <4>2. Owned(stream[z].block_table) \subseteq PageId
        BY <4>1, StreamParts
      <4> QED
        BY <3>2, <4>1, <4>2, HeldCounts
    <3> QED
      BY <2>5, <3>1, <3>3 DEF Ready
  <2> QED
    BY <1>2, <2>10, <2>11
<1>13. CASE prefix_capacity # 0 /\ same # {}
  <2>1. i \in same
    BY <1>3, <1>13
  <2>2. i \in DOMAIN x /\ x[i].tokens = e.tokens
    BY <1>3, <1>4, <2>1
  <2>3. Backed(r, e.pages, e.tokens, Len(e.tokens)) /\ \A p \in Owned(e.pages) : c[p] # 0
    BY <1>8, <1>10
  <2>4. PICK r3, c3, f3, x3 :
              /\ Replaced(Pool(r, c, f, x), i, e) = Pool(r3, c3, f3, x3)
              /\ PoolInv(r3, c3, f3, x3, Tables) /\ Spared(r, c, r3, c3)
              /\ Len(x3) = Len(x)
    BY <1>1, <1>7, <2>2, <2>3, EntryReplaced
  <2>5. Ready(s, r3, c3, f3, x3)
    BY <1>1, <1>6, <2>4
  <2>6. publish_prefix(kv, st) = Pool(r3, c3, f3, x3)
    BY <1>1, <1>5, <1>13, <2>4
  <2> QED
    BY <1>2, <2>5, <2>6
<1> QED
    BY <1>11, <1>12, <1>13

\* The step keeps the invariant: the prompt is published.
LEMMA PublishStep ==
    ASSUME CacheInv, NEW s \in Stream, Publish(s)
    PROVE  CacheInv'
<1>1. /\ stream[s].phase = "caching" /\ stream[s].cached = Len(stream[s].context)
      /\ kv' = IF stream[s].published THEN kv ELSE publish_prefix(kv, stream[s])
      /\ stream' = [stream EXCEPT ![s].phase = "select", ![s].published = TRUE]
    BY DEF Publish
<1>2. PICK st : /\ Becomes(s, st) /\ st.block_table = stream[s].block_table
                /\ With(s, st.block_table) = Tables
                /\ \A r : StreamInv(r, stream[s]) => StreamInv(r, st)
    BY <1>1, PublishedStream
<1>3. CASE stream[s].published
  <2>1. StreamInv(kv.rows, st)
    BY <1>2 DEF CacheInv
  <2> QED
    BY <1>1, <1>2, <1>3, <2>1, SessionOnly
<1>4. CASE ~ stream[s].published
  <2>1. PICK r, c, f, x : publish_prefix(kv, stream[s]) = Pool(r, c, f, x) /\ Ready(s, r, c, f, x)
    BY <1>1, <1>4, PrefixPublished
  <2>2. kv' = Pool(r, c, f, x)
    BY <1>1, <1>4, <2>1
  <2>3. PoolInv(r, c, f, x, With(s, st.block_table)) /\ Len(x) <= prefix_capacity
    BY <1>2, <2>1 DEF Ready
  <2>4. StreamInv(r, st)
    BY <1>2, <2>1 DEF Ready
  <2>5. \A z \in Stream : z # s => \A p \in Owned(stream[z].block_table) : r[p] = kv.rows[p]
    BY <2>1 DEF Ready
  <2> QED
    BY <1>2, <2>2, <2>3, <2>4, <2>5, SessionStep
<1> QED
    BY <1>3, <1>4

\* What a prompt of the model is.
LEMMA PromptIs ==
    ASSUME NEW prompt \in Prompt
    PROVE  prompt \in Seq(Token) /\ Len(prompt) \in Nat /\ Len(prompt) <= context_length
<1>1. PICK n \in 1..context_length : prompt \in [1..n -> Token]
    BY PromptType
<1>2. n \in Nat /\ n <= context_length
    BY PagesType
<1>3. prompt \in Seq(Token) /\ Len(prompt) = n
    BY <1>1, <1>2
<1> QED
    BY <1>2, <1>3

\* The longest of the entries found is one of them.
LEMMA LongestFound ==
    ASSUME NEW x, Directory(x), kv.prefixes = x, NEW prompt \in Seq(Token),
           NEW found, found = Matches(prompt), found # {}
    PROVE  /\ Longest(found) \in found /\ found \subseteq DOMAIN x
           /\ \A i \in found : IsPrefix(x[i].tokens, prompt)
<1>1. found \subseteq DOMAIN x /\ \A i \in found : IsPrefix(x[i].tokens, prompt)
    BY DEF Matches
<1>2. PICK L \in Nat : L = Len(prompt)
    OBVIOUS
<1>3. \A i \in found : Len(x[i].tokens) \in Nat /\ Len(x[i].tokens) <= L
  <2>1. \A i \in found : x[i] \in Entry
    BY <1>1, SeqFacts DEF Directory
  <2>2. \A i \in found : x[i].tokens \in Seq(Token)
    BY <2>1 DEF Entry
  <2> QED
    BY <1>1, <1>2, <2>2 DEF IsPrefix
<1>4. PICK short : short = {L - Len(x[i].tokens) : i \in found}
    OBVIOUS
<1>5. PICK m \in short : \A k \in short : m <= k
  <2>1. short \in SUBSET Nat /\ short # {}
    BY <1>3, <1>4
  <2> QED
    BY <2>1, LeastOf
<1>6. PICK i \in found : m = L - Len(x[i].tokens)
    BY <1>4
<1>7. ASSUME NEW j \in found PROVE Len(x[j].tokens) <= Len(x[i].tokens)
  <2>1. m <= L - Len(x[j].tokens)
    BY <1>4, <1>5
  <2> QED
    BY <1>3, <1>6, <2>1
<1>8. \E k \in found : \A j \in found : Len(kv.prefixes[j].tokens) <= Len(kv.prefixes[k].tokens)
    BY <1>7
<1>9. Longest(found) \in found
    BY <1>8 DEF Longest
<1> QED
    BY <1>1, <1>9

\* An entry found is used: its pages have one reader more and it moves to the end.
LEMMA EntryUsed ==
    ASSUME NEW r, NEW c, NEW f, NEW x, NEW tab, PoolInv(r, c, f, x, tab), NEW i \in DOMAIN x,
           NEW s \in Stream, tab[s] = << >>,
           NEW tab2, tab2[s] = x[i].pages, \A z \in Stream : z # s => tab2[z] = tab[z]
    PROVE  \E c2, x2 :
              /\ Used(retain(Pool(r, c, f, x), x[i].pages), i) = Pool(r, c2, f, x2)
              /\ PoolInv(r, c2, f, x2, tab2) /\ Len(x2) = Len(x)
<1>1. Booked(r, c, f) /\ Directory(x) /\ Counts(c, tab, Owned(x))
      /\ \A y \in Owned(x) : Backed(r, y.pages, y.tokens, Len(y.tokens))
    BY DEF PoolInv
<1>2. PICK d, x1, x2 : d = x[i] /\ x1 = RemoveAt(x, i) /\ x2 = Append(x1, d)
    OBVIOUS
<1>3. /\ Directory(x1) /\ Len(x1) = Len(x) - 1 /\ Owned(x1) = Owned(x) \ {d} /\ d \in Owned(x)
      /\ d \in Entry /\ \A y \in Owned(x1) : y.tokens # d.tokens
    BY <1>1, <1>2, DirectoryRemove
<1>4. Directory(x2) /\ Len(x2) = Len(x1) + 1 /\ Owned(x2) = Owned(x)
  <2>1. Directory(x2) /\ Len(x2) = Len(x1) + 1 /\ Owned(x2) = Owned(x1) \cup {d}
    BY <1>2, <1>3, DirectoryAppend
  <2> QED
    BY <1>3, <2>1
<1>5. Len(x2) = Len(x)
  <2>1. Len(x) \in Nat
    BY <1>1, SeqFacts DEF Directory
  <2> QED
    BY <1>3, <1>4, <2>1
<1>6. Named(d.pages) /\ \A p \in Owned(d.pages) : c[p] # 0
    BY <1>3, EntryPages
<1>7. PICK c2 : /\ retain(Pool(r, c, f, x), d.pages) = Pool(r, c2, f, x)
                /\ Booked(r, c2, f)
                /\ \A p \in PageId : c2[p] = c[p] + In(p, d.pages)
    BY <1>1, <1>6, TableRetained
<1>8. Counts(c2, tab2, Owned(x))
  <2>1. c \in [PageId -> Nat]
    BY <1>1 DEF Booked
  <2>2. ASSUME NEW p \in PageId PROVE c2[p] = (c[p] - In(p, tab[s])) + In(p, d.pages)
    <3>1. In(p, tab[s]) = 0
      BY DEF In, Owned
    <3>2. c[p] \in Nat /\ c2[p] = c[p] + In(p, d.pages)
      BY <1>7, <2>1
    <3>3. c[p] - In(p, tab[s]) = c[p]
      BY <3>1, <3>2
    <3> QED
      BY <3>2, <3>3
  <2>3. tab2[s] = d.pages
    BY <1>2
  <2> QED
    BY <1>1, <2>2, <2>3, CountsTable
<1>9. PoolInv(r, c2, f, x2, tab2)
    BY <1>1, <1>4, <1>7, <1>8 DEF PoolInv
<1>10. Used(retain(Pool(r, c, f, x), d.pages), i) = Pool(r, c2, f, x2)
  <2>1. PICK q : q = Pool(r, c2, f, x)
    OBVIOUS
  <2>2. q.prefixes = x
    BY <2>1, PoolFields
  <2>3. Used(q, i) = [q EXCEPT !.prefixes = x2]
    BY <1>2, <2>2 DEF Used
  <2>4. [q EXCEPT !.prefixes = x2] = Pool(r, c2, f, x2)
    BY <2>1 DEF Pool
  <2> QED
    BY <1>7, <2>1, <2>3, <2>4
<1> QED
    BY <1>2, <1>5, <1>9, <1>10

\* The session a handler creates, before it is given pages.
Fresh(prompt, drafts, remaining) ==
    [NoStream EXCEPT !.phase = "idle", !.prompt = prompt, !.context = prompt,
                     !.drafts = drafts, !.remaining = remaining]
Started(new, hit, prompt) ==
    [new EXCEPT !.block_table = hit.pages, !.cached = Len(hit.tokens),
                !.published = hit.tokens = prompt]

\* The fields of a session without pages.
LEMMA FreshIs ==
    ASSUME NEW prompt \in Seq(Token), NEW drafts \in Nat, NEW remaining \in Nat,
           NEW new, new = Fresh(prompt, drafts, remaining)
    PROVE  /\ new \in StreamType /\ new.phase = "idle" /\ new.prompt = prompt
           /\ new.context = prompt /\ new.block_table = << >> /\ new.cached = 0
<1>1. << >> \in Seq(PageId) /\ << >> \in Seq(Token)
    OBVIOUS
<1>2. new = [phase |-> "idle", prompt |-> prompt, context |-> prompt, block_table |-> << >>,
             cached |-> 0, published |-> FALSE, drafts |-> drafts, remaining |-> remaining,
             buffer |-> 0]
    BY DEF Fresh, NoStream
<1> QED
    BY <1>1, <1>2, PhasesAre DEF StreamType

\* The fields of a session that starts from a prefix.
LEMMA StartedIs ==
    ASSUME NEW new \in StreamType, NEW hit \in Entry, NEW prompt,
           NEW st, st = Started(new, hit, prompt)
    PROVE  /\ st \in StreamType /\ st.phase = new.phase /\ st.prompt = new.prompt
           /\ st.context = new.context /\ st.block_table = hit.pages /\ st.cached = Len(hit.tokens)
<1>1. hit.pages \in Seq(PageId) /\ hit.tokens \in Seq(Token) /\ Len(hit.tokens) \in Nat
    BY DEF Entry
<1>2. PICK n, b, u : n = Len(hit.tokens) /\ b = (hit.tokens = prompt) /\ u = hit.pages
    OBVIOUS
<1>3. n \in Nat /\ b \in BOOLEAN /\ u \in Seq(PageId)
    BY <1>1, <1>2
<1>4. PICK a1, a2, a3 : /\ a1 = [new EXCEPT !.block_table = u]
                        /\ a2 = [a1 EXCEPT !.cached = n] /\ a3 = [a2 EXCEPT !.published = b]
    OBVIOUS
<1>5. /\ a1 \in StreamType /\ a1.phase = new.phase /\ a1.prompt = new.prompt
      /\ a1.context = new.context /\ a1.block_table = u
    BY <1>3, <1>4 DEF StreamType
<1>6. /\ a2 \in StreamType /\ a2.phase = new.phase /\ a2.prompt = new.prompt
      /\ a2.context = new.context /\ a2.block_table = u /\ a2.cached = n
    BY <1>3, <1>4, <1>5 DEF StreamType
<1>7. /\ a3 \in StreamType /\ a3.phase = new.phase /\ a3.prompt = new.prompt
      /\ a3.context = new.context /\ a3.block_table = u /\ a3.cached = n
    BY <1>3, <1>4, <1>6 DEF StreamType
<1>8. st = a3
    BY <1>2, <1>4 DEF Started
<1> QED
    BY <1>2, <1>7, <1>8

\* The step keeps the invariant: a handler creates a session.
LEMMA CreateStreamStep ==
    ASSUME CacheInv, NEW s \in Stream, CreateStream(s)
    PROVE  CacheInv'
<1>1. PICK r, c, f, x :
        /\ kv = Pool(r, c, f, x) /\ kv.rows = r /\ kv.references = c
        /\ kv.free_pages = f /\ kv.prefixes = x
        /\ PoolInv(r, c, f, x, Tables) /\ Len(x) <= prefix_capacity
        /\ \A z \in Stream : StreamInv(r, stream[z]) /\ Tables[z] = stream[z].block_table
    BY CacheParts
<1>2. PICK prompt \in Prompt, remaining \in 1..MaxNew, drafts \in 0..MaxDraft :
        IF Matches(prompt) = {}
        THEN stream' = [stream EXCEPT ![s] = Fresh(prompt, drafts, remaining)] /\ UNCHANGED kv
        ELSE /\ stream' = [stream EXCEPT ![s] =
                    Started(Fresh(prompt, drafts, remaining),
                            kv.prefixes[Longest(Matches(prompt))], prompt)]
             /\ kv' = Used(retain(kv, kv.prefixes[Longest(Matches(prompt))].pages),
                           Longest(Matches(prompt)))
    BY DEF CreateStream, Fresh, Started
<1>3. remaining \in Nat /\ drafts \in Nat
    BY RequestBounds, PagesType
<1>4. prompt \in Seq(Token) /\ Len(prompt) \in Nat /\ Len(prompt) <= context_length
    BY PromptIs
<1>5. PICK found, new : found = Matches(prompt) /\ new = Fresh(prompt, drafts, remaining)
    OBVIOUS
<1>6. /\ new \in StreamType /\ new.phase = "idle" /\ new.prompt = prompt
      /\ new.context = prompt /\ new.block_table = << >> /\ new.cached = 0
    BY <1>3, <1>4, <1>5, FreshIs
<1>7. stream[s].phase = "none" /\ stream[s].block_table = << >> /\ Tables[s] = << >>
    BY <1>1 DEF CreateStream, StreamInv
<1>8. Begins(prompt, prompt)
    BY <1>4 DEF Begins
<1>9. CASE found = {}
  <2>1. Becomes(s, new) /\ kv' = kv
    BY <1>2, <1>5, <1>9 DEF Becomes
  <2>2. Backed(r, << >>, prompt, 0)
    BY <1>4, BackedEmpty
  <2>3. StreamInv(kv.rows, new)
    BY <1>1, <1>4, <1>6, <1>8, <2>2 DEF StreamInv
  <2> QED
    BY <1>6, <1>7, <2>1, <2>3, SessionOnly
<1>10. CASE found # {}
  <2>1. PICK i : i = Longest(found)
    OBVIOUS
  <2>2. i \in DOMAIN x /\ IsPrefix(x[i].tokens, prompt) /\ Directory(x)
    BY <1>1, <1>4, <1>5, <1>10, <2>1, LongestFound DEF PoolInv
  <2>3. PICK hit, st : hit = x[i] /\ st = Started(new, hit, prompt)
    OBVIOUS
  <2>4. Becomes(s, st) /\ kv' = Used(retain(Pool(r, c, f, x), x[i].pages), i)
    BY <1>1, <1>2, <1>5, <1>10, <2>1, <2>3 DEF Becomes
  <2>5. hit \in Owned(x) /\ hit \in Entry
    BY <2>2, <2>3, DirectoryRemove
  <2>6. /\ st \in StreamType /\ st.phase = "idle" /\ st.prompt = prompt /\ st.context = prompt
        /\ st.block_table = hit.pages /\ st.cached = Len(hit.tokens)
    BY <1>6, <2>3, <2>5, StartedIs
  <2>7. Backed(r, hit.pages, prompt, Len(hit.tokens))
    <3>1. Backed(r, hit.pages, hit.tokens, Len(hit.tokens))
      BY <1>1, <2>5 DEF PoolInv
    <3>2. hit.tokens \in Seq(Token)
      BY <2>5 DEF Entry
    <3>3. PICK u, m : u = hit.tokens /\ m = Len(u)
      OBVIOUS
    <3>4. u \in Seq(Token) /\ m \in Nat /\ m <= Len(prompt) /\ SubSeq(u, 1, m) = SubSeq(prompt, 1, m)
      BY <2>2, <2>3, <3>2, <3>3 DEF IsPrefix
    <3>5. ASSUME NEW j \in 1..m PROVE prompt[j] = u[j]
      <4>1. SubSeq(u, 1, m)[j] = u[j]
        BY <3>3, <3>4
      <4>2. SubSeq(prompt, 1, m)[j] = prompt[j]
        BY <1>4, <3>4
      <4> QED
        BY <3>4, <4>1, <4>2
    <3> QED
      BY <3>1, <3>3, <3>4, <3>5, BackedTokens
  <2>8. StreamInv(r, st)
    BY <1>4, <1>8, <2>6, <2>7 DEF StreamInv
  <2>9. PICK tab2 : tab2 = With(s, hit.pages)
    OBVIOUS
  <2>10. tab2[s] = x[i].pages /\ \A z \in Stream : z # s => tab2[z] = Tables[z]
    BY <2>3, <2>9 DEF With, Tables
  <2>11. PICK c2, x2 :
              /\ Used(retain(Pool(r, c, f, x), x[i].pages), i) = Pool(r, c2, f, x2)
              /\ PoolInv(r, c2, f, x2, tab2) /\ Len(x2) = Len(x)
    BY <1>1, <1>7, <2>2, <2>10, EntryUsed
  <2>12. PoolInv(r, c2, f, x2, With(s, st.block_table)) /\ Len(x2) <= prefix_capacity
    BY <1>1, <2>6, <2>9, <2>11
  <2>13. kv' = Pool(r, c2, f, x2)
    BY <2>4, <2>11
  <2>14. \A z \in Stream : z # s => \A p \in Owned(stream[z].block_table) : r[p] = kv.rows[p]
    BY <1>1
  <2> QED
    BY <2>4, <2>8, <2>12, <2>13, <2>14, SessionStep
<1> QED
    BY <1>9, <1>10

-----------------------------------------------------------------------------
(* The start, and what the invariant says of the pool and the sessions.      *)

\* The invariant holds in the empty pool.
LEMMA CacheStart ==
    ASSUME CacheInit
    PROVE  CacheInv
<1>1. PICK N \in Nat \ {0} : N = page_count
    BY PagesType
<1>2. PICK r, c, f, x : /\ r = [p \in PageId |-> << >>] /\ c = [p \in PageId |-> 0]
                        /\ f = Reverse([p \in PageId |-> p]) /\ x = << >>
    OBVIOUS
<1>3. kv = Pool(r, c, f, x) /\ kv.rows = r /\ kv.references = c /\ kv.free_pages = f /\ kv.prefixes = x
    BY <1>2 DEF CacheInit, NewPool, Pool
<1>4. f = [i \in 1..N |-> (N - i) + 1]
  <2>1. PICK u : u = [p \in PageId |-> p]
    OBVIOUS
  <2>2. u \in Seq(Nat) /\ Len(u) = N /\ \A i \in 1..N : u[i] = i
    BY <1>1, <2>1 DEF PageId
  <2>3. f = [i \in 1..N |-> u[(N - i) + 1]]
    BY <1>2, <2>1, <2>2 DEF Reverse
  <2>4. \A i \in 1..N : (N - i) + 1 \in 1..N
    OBVIOUS
  <2> QED
    BY <2>2, <2>3, <2>4
<1>5. f \in Seq(PageId) /\ DOMAIN f = 1..N
  <2>1. \A i \in 1..N : (N - i) + 1 \in 1..N
    OBVIOUS
  <2>2. f \in [1..N -> PageId]
    BY <1>1, <1>4, <2>1 DEF PageId
  <2> QED
    BY <2>2
<1>6. IsInjective(f)
    BY <1>4, <1>5 DEF IsInjective
<1>7. \A p \in PageId : p \in Owned(f)
  <2>1. ASSUME NEW p \in PageId PROVE p \in Owned(f)
    <3>1. (N - p) + 1 \in 1..N /\ (N - ((N - p) + 1)) + 1 = p
      BY <1>1 DEF PageId
    <3>2. f[(N - p) + 1] = p
      BY <1>4, <3>1
    <3> QED
      BY <1>5, <3>1, <3>2 DEF Owned
  <2> QED
    BY <2>1
<1>8. Booked(r, c, f)
  <2>1. /\ r \in [PageId -> Seq(Row)] /\ c \in [PageId -> Nat]
        /\ \A p \in PageId : c[p] = 0 /\ r[p] = << >>
    BY <1>2
  <2>2. \A p \in PageId : Len(r[p]) <= page_tokens
    BY <2>1, PageTokens
  <2> QED
    BY <1>5, <1>6, <1>7, <2>1, <2>2 DEF Booked, Named
<1>9. Directory(x) /\ Owned(x) = {} /\ Len(x) <= prefix_capacity
    BY <1>2, PagesType DEF Directory, Owned
<1>10. stream \in [Stream -> StreamType] /\ \A s \in Stream : stream[s] = NoStream
  <2>1. NoStream \in StreamType
    BY NoStreamInv DEF StreamInv
  <2> QED
    BY <2>1 DEF CacheInit
<1>11. \A s \in Stream : StreamInv(r, stream[s]) /\ Tables[s] = << >>
    BY <1>10, NoStreamInv DEF Tables
<1>12. Counts(c, Tables, Owned(x))
  <2>1. IsFiniteSet({}) /\ Cardinality({}) = 0
    BY FS_EmptySet
  <2>2. ASSUME NEW p \in PageId PROVE Holders(Tables, p) = {} /\ Listed({}, p) = {}
    BY <1>11 DEF Holders, Listed, Owned
  <2>3. ASSUME NEW p \in PageId
        PROVE  /\ IsFiniteSet(Holders(Tables, p))
               /\ c[p] = Cardinality(Holders(Tables, p)) + Cardinality(Listed({}, p))
    <3>1. c[p] = 0 /\ 0 + 0 = 0
      BY <1>2
    <3> QED
      BY <2>1, <2>2, <3>1
  <2> QED
    BY <1>9, <2>1, <2>3 DEF Counts
<1>13. PoolInv(r, c, f, x, Tables)
    BY <1>8, <1>9, <1>12 DEF PoolInv
<1> QED
    BY <1>3, <1>9, <1>10, <1>11, <1>13 DEF CacheInv

\* Entries of the directory are as many as their places.
LEMMA PlacesListed ==
    ASSUME NEW x, Directory(x), NEW p
    PROVE  Cardinality({i \in DOMAIN x : p \in Owned(x[i].pages)}) = Cardinality(Listed(Owned(x), p))
<1>1. PICK N \in Nat : N = Len(x) /\ DOMAIN x = 1..N
    BY SeqFacts DEF Directory
<1>2. PICK I, L : I = {i \in DOMAIN x : p \in Owned(x[i].pages)} /\ L = Listed(Owned(x), p)
    OBVIOUS
<1>3. IsFiniteSet(I)
  <2>1. IsFiniteSet(1..N)
    BY FS_Interval
  <2> QED
    BY <1>1, <1>2, <2>1, FS_Subset
<1>4. PICK g : g = [i \in I |-> x[i]]
    OBVIOUS
<1>5. g \in Bijection(I, L)
  <2>1. \A i \in I : i \in DOMAIN x /\ x[i] \in L
    BY <1>2 DEF Listed, Owned
  <2>2. g \in [I -> L]
    BY <1>4, <2>1
  <2>3. \A i, j \in I : g[i] = g[j] => i = j
    BY <1>4, <2>1 DEF Directory
  <2>4. \A e \in L : \E i \in I : g[i] = e
    BY <1>2, <1>4 DEF Listed, Owned
  <2> QED
    BY <2>2, <2>3, <2>4 DEF Bijection, Injection, Surjection, IsInjective
<1>6. Cardinality(I) = Cardinality(L)
    BY <1>3, <1>5, FS_Bijection DEF ExistsBijection
<1> QED
    BY <1>2, <1>6

\* The invariant implies what is promised.
LEMMA CacheMeans ==
    ASSUME CacheInv
    PROVE  CacheHolds
<1>1. PICK r, c, f, x :
        /\ kv.rows = r /\ kv.references = c /\ kv.free_pages = f /\ kv.prefixes = x
        /\ PoolInv(r, c, f, x, Tables) /\ Len(x) <= prefix_capacity
        /\ \A s \in Stream : StreamInv(r, stream[s]) /\ Tables[s] = stream[s].block_table
    BY CacheParts
<1>2. Booked(r, c, f) /\ Directory(x) /\ Counts(c, Tables, Owned(x))
      /\ \A e \in Owned(x) : Backed(r, e.pages, e.tokens, Len(e.tokens))
    BY <1>1 DEF PoolInv
<1>3. CacheTypeOK
  <2>1. /\ r \in [PageId -> Seq(Token \X (0..(context_length - 1)))]
        /\ \A p \in PageId : Len(r[p]) <= page_tokens
        /\ c \in [PageId -> Nat] /\ IsInjective(f) /\ f \in Seq(PageId)
    BY <1>2 DEF Booked, Row, Named
  <2>2. Owned(f) \subseteq PageId
    BY <2>1, SeqFacts
  <2>3. IsInjective([i \in DOMAIN x |-> x[i].tokens])
    BY <1>2 DEF Directory, IsInjective
  <2>4. ASSUME NEW s \in Live
        PROVE  /\ stream[s].phase \in Phases
               /\ stream[s].cached <= Len(stream[s].context)
               /\ Len(stream[s].context) <= context_length
               /\ Len(stream[s].block_table) = (stream[s].cached + page_tokens - 1) \div page_tokens
    <3>1. StreamInv(r, stream[s])
      BY <1>1 DEF Live
    <3>2. Len(stream[s].block_table) = Ceil(stream[s].cached)
      BY <3>1 DEF StreamInv, Backed
    <3> QED
      BY <3>1, <3>2, StreamParts DEF Ceil
  <2> QED
    BY <1>1, <2>1, <2>2, <2>3, <2>4 DEF CacheTypeOK
<1>4. ReferencesExact
  <2>1. SUFFICES ASSUME NEW p \in PageId
                 PROVE  /\ c[p] = Cardinality({s \in Stream : p \in Owned(stream[s].block_table)})
                                  + Cardinality({i \in DOMAIN x : p \in Owned(x[i].pages)})
                        /\ p \in Owned(f) <=> c[p] = 0
                        /\ c[p] = 0 => r[p] = << >>
    BY <1>1 DEF ReferencesExact
  <2>2. Holders(Tables, p) = {s \in Stream : p \in Owned(stream[s].block_table)}
    BY <1>1 DEF Holders
  <2>3. Cardinality({i \in DOMAIN x : p \in Owned(x[i].pages)}) = Cardinality(Listed(Owned(x), p))
    BY <1>2, PlacesListed
  <2>4. c[p] = Cardinality(Holders(Tables, p)) + Cardinality(Listed(Owned(x), p))
    BY <1>2 DEF Counts
  <2>5. (p \in Owned(f) <=> c[p] = 0) /\ (c[p] = 0 => r[p] = << >>)
    BY <1>2 DEF Booked
  <2> QED
    BY <2>2, <2>3, <2>4, <2>5
<1>5. \A table, tokens, n : Backed(r, table, tokens, n) => Holds(table, tokens, n)
    BY <1>1 DEF Backed, Reads, Holds, Page, Slot
<1>6. RowsAreOwn
  <2>1. \A s \in Live : Holds(stream[s].block_table, stream[s].context, stream[s].cached)
    BY <1>1, <1>5 DEF StreamInv, Live
  <2>2. \A i \in DOMAIN x : x[i] \in Owned(x)
    BY DEF Owned
  <2>3. \A i \in DOMAIN x : Holds(x[i].pages, x[i].tokens, Len(x[i].tokens))
    BY <1>2, <1>5, <2>2
  <2> QED
    BY <1>1, <2>1, <2>3 DEF RowsAreOwn
<1> QED
    BY <1>3, <1>4, <1>6 DEF CacheHolds

\* Nothing happens.
LEMMA CacheStutter ==
    ASSUME CacheInv, UNCHANGED cacheVars
    PROVE  CacheInv'
<1>1. kv' = kv /\ stream' = stream
    BY DEF cacheVars
<1>2. Tables' = Tables
    BY <1>1 DEF Tables
<1> QED
    BY <1>1, <1>2 DEF CacheInv

\* For any number of sessions, prompts, pages, rows to a page and entries of the
\* directory, however sessions share, copy, evict, drop and speculate: a page of
\* PagedKvPool has one reference for each block table and each prefix that names it,
\* it is in the free list exactly when it has none (retain_locked, release_locked,
\* allocate_locked), and the rows that Session reads through its block table, or that
\* a prefix would give the next session, are those of its own tokens, in order.
THEOREM PagesAreHeld == CacheSpec => []CacheHolds
<1>1. CacheInit => CacheInv
    BY CacheStart
<1>2. CacheInv /\ [CacheNext]_cacheVars => CacheInv'
  <2>1. SUFFICES ASSUME CacheInv, [CacheNext]_cacheVars PROVE CacheInv'
    OBVIOUS
  <2>2. ASSUME NEW s \in Stream, CreateStream(s) PROVE CacheInv'
    BY <2>1, <2>2, CreateStreamStep
  <2>3. ASSUME NEW s \in Stream, DropStream(s) PROVE CacheInv'
    BY <2>1, <2>3, DropStreamStep
  <2>4. ASSUME NEW s \in Stream, NextBuffered(s) PROVE CacheInv'
    BY <2>1, <2>4, BufferedStep
  <2>5. ASSUME NEW s \in Stream, plan_speculative(s) PROVE CacheInv'
    BY <2>1, <2>5, PlanStep
  <2>6. ASSUME NEW s \in Stream, BeginStep(s) PROVE CacheInv'
    BY <2>1, <2>6, BeginStepStep
  <2>7. ASSUME NEW s \in Stream, append(s) PROVE CacheInv'
    BY <2>1, <2>7, AppendStep
  <2>8. ASSUME NEW s \in Stream, Publish(s) PROVE CacheInv'
    BY <2>1, <2>8, PublishStep
  <2>9. ASSUME NEW s \in Stream, Select(s) PROVE CacheInv'
    BY <2>1, <2>9, SelectStep
  <2>10. CASE UNCHANGED cacheVars
    BY <2>1, <2>10, CacheStutter
  <2> QED
    BY <2>1, <2>2, <2>3, <2>4, <2>5, <2>6, <2>7, <2>8, <2>9, <2>10 DEF CacheNext
<1>3. CacheInv => CacheHolds
    BY CacheMeans
<1> QED
    BY <1>1, <1>2, <1>3, PTL DEF CacheSpec
=============================================================================
