-------------------------- MODULE BatchQueueProofs --------------------------
(***************************************************************************)
(* Proofs about BatchQueue, for every set of keys, bodies and consumers    *)
(* and all bounds: the log is the queue and always opens again, what       *)
(* producers and consumers were told stays true, and a claim is honoured   *)
(* until its deadline.                                                     *)
(*                                                                         *)
(* Memory, file and stable storage are three points of one history of      *)
(* legal records: stable storage comes first, then memory, then the file.  *)
(* What a client was told is true at the first of them, and nothing that   *)
(* comes later takes it back.                                              *)
(***************************************************************************)
EXTENDS BatchQueue, FiniteSetTheorems, TLAPS

-----------------------------------------------------------------------------
(* The queue that a replay gives.                                            *)

\* A job's claim and attempts fit its status.
JobFits(job, nextClaim) ==
    /\ IF job.status = "Claimed" THEN job.claim.token \in 1..(nextClaim - 1)
                                 ELSE job.claim = NoClaim
    /\ job.attempts <= Limit[job.body]
    /\ job.status = "Pending" => job.attempts < Limit[job.body]

OfStatus(d, s) == {j \in DOMAIN d.jobs : d.jobs[j].status = s}

DataType(d) ==
    /\ d \in [jobs : {d.jobs}, index : [Key -> Nat], nextJob : Job,
              nextClaim : Job, count : [JobStatus -> Nat], valid : {TRUE}]
    /\ d.jobs \in [DOMAIN d.jobs -> JobRecord]
    /\ IsFiniteSet(DOMAIN d.jobs)
    /\ DOMAIN d.jobs \subseteq 1..(d.nextJob - 1)

Indexed(d) ==
    /\ \A k \in Key : d.index[k] # 0 => /\ d.index[k] \in DOMAIN d.jobs
                                        /\ d.jobs[d.index[k]].key = k
    /\ \A j \in DOMAIN d.jobs : d.index[d.jobs[j].key] = j

Fitting(d) ==
    /\ \A j \in DOMAIN d.jobs : JobFits(d.jobs[j], d.nextClaim)
    /\ \A s \in JobStatus : d.count[s] = Cardinality(OfStatus(d, s))

DataOK(d) == DataType(d) /\ Indexed(d) /\ Fitting(d)

\* f has the records of d and more.
Follows(d, f) ==
    /\ d.nextClaim <= f.nextClaim
    /\ \A j \in DOMAIN d.jobs :
          /\ j \in DOMAIN f.jobs
          /\ f.jobs[j].key = d.jobs[j].key /\ f.jobs[j].body = d.jobs[j].body
          /\ d.jobs[j].attempts <= f.jobs[j].attempts
          /\ d.jobs[j].status \in Terminal => f.jobs[j] = d.jobs[j]
    /\ \A k \in Key : d.index[k] # 0 => f.index[k] = d.index[k]

\* d is a record with the fields of QueueData.
IsData(d) ==
    d \in [jobs : {d.jobs}, index : {d.index}, nextJob : {d.nextJob},
           nextClaim : {d.nextClaim}, count : {d.count}, valid : {d.valid}]

\* f is d with a new job.
Added(d, f, k, b) ==
    /\ IsData(f)
    /\ f.jobs = [j \in DOMAIN d.jobs \cup {d.nextJob} |->
                    IF j = d.nextJob
                    THEN [key |-> k, body |-> b, attempts |-> 0,
                          status |-> "Pending", claim |-> NoClaim]
                    ELSE d.jobs[j]]
    /\ f.index = [d.index EXCEPT ![k] = d.nextJob]
    /\ f.nextJob = d.nextJob + 1 /\ f.nextClaim = d.nextClaim
    /\ f.count = [d.count EXCEPT !["Pending"] = @ + 1] /\ f.valid = TRUE

\* f is d with another claim, status or number of attempts of the job j.
Changed(d, f, j) ==
    /\ IsData(f) /\ f.index = d.index /\ f.nextJob = d.nextJob /\ f.valid = TRUE
    /\ f.count = Moved(d.count, d.jobs[j].status, f.jobs[j].status)
    /\ DOMAIN f.jobs = DOMAIN d.jobs
    /\ f.jobs = [i \in DOMAIN f.jobs |-> f.jobs[i]]
    /\ f.jobs[j] \in JobRecord
    /\ f.jobs[j].key = d.jobs[j].key /\ f.jobs[j].body = d.jobs[j].body
    /\ \A i \in DOMAIN d.jobs \ {j} : f.jobs[i] = d.jobs[i]

\* The records the queue writes.
LegalEnqueue(d, e) ==
    \E k \in Key, b \in Body : e = Enqueued(d.nextJob, k, b) /\ d.index[k] = 0
LegalClaim(d, e) ==
    \E j \in DOMAIN d.jobs, claim \in ClaimLease :
        /\ e = Claimed(j, claim, d.jobs[j].attempts + 1)
        /\ d.jobs[j].status = "Pending" /\ claim.token = d.nextClaim
LegalEnd(d, e) ==
    \E j \in DOMAIN d.jobs, s \in JobStatus \ {"Claimed"} :
        /\ e = Ended(j, d.jobs[j].claim.token, s)
        /\ d.jobs[j].status = "Claimed"
        /\ s = "Pending" => d.jobs[j].attempts < Limit[d.jobs[j].body]
Legal(d, e) == LegalEnqueue(d, e) \/ LegalClaim(d, e) \/ LegalEnd(d, e)

-----------------------------------------------------------------------------
\* A nonempty set of numbers up to N has a smallest element, which the CHOOSE of
\* Smallest picks.
LEMMA SmallestIn ==
    ASSUME NEW N \in Nat, NEW S, S \subseteq 0..N, S # {}
    PROVE  Smallest(S) \in S
<1> DEFINE Below(i) == 0..(i - 1)
           T == {Below(i) : i \in S}
           R == StrictSubsetOrdering(0..N)
<1>1. \A i \in S : Below(i) \in FiniteSubsetsOf(0..N)
  <2> TAKE i \in S
  <2>1. 0 \in Int /\ i - 1 \in Int
    OBVIOUS
  <2>2. IsFiniteSet(Below(i))
    BY <2>1, FS_Interval
  <2>3. Below(i) \subseteq 0..N
    OBVIOUS
  <2> QED BY <2>2, <2>3 DEF FiniteSubsetsOf
<1>2. T \subseteq FiniteSubsetsOf(0..N) /\ T # {}
  BY <1>1
<1>3. IsWellFoundedOn(R, FiniteSubsetsOf(0..N))
  BY FS_StrictSubsetOrderingWellFounded
<1> HIDE DEF T, R
<1>4. PICK x \in T : \A y \in T : ~(<<y, x>> \in R)
  BY <1>2, <1>3, WFMin
<1> USE DEF T, R
<1>5. PICK i \in S : x = Below(i)
  BY <1>4
<1>6. \A j \in S : i <= j
  <2> SUFFICES ASSUME NEW j \in S, ~(i <= j) PROVE FALSE
    OBVIOUS
  <2>1. i \in 0..N /\ j \in 0..N /\ j < i
    OBVIOUS
  <2>2. Below(j) \subseteq Below(i) /\ j \in Below(i) /\ j \notin Below(j)
    BY <2>1
  <2>3. Below(j) \in SUBSET (0..N) /\ Below(i) \in SUBSET (0..N)
    BY <1>1 DEF FiniteSubsetsOf
  <2>4. <<Below(j), x>> \in R
    BY <1>5, <2>2, <2>3 DEF StrictSubsetOrdering
  <2>5. Below(j) \in T
    OBVIOUS
  <2> QED BY <1>4, <2>4, <2>5
<1> QED BY <1>6 DEF Smallest


-----------------------------------------------------------------------------
(* What a record makes of the queue.                                         *)

LEMMA EnqueuedGives ==
    ASSUME NEW d, DataType(d), NEW k \in Key, NEW b \in Body, d.index[k] = 0,
           NEW f, f = apply_event(d, Enqueued(d.nextJob, k, b))
    PROVE  Added(d, f, k, b)
<1> DEFINE e == Enqueued(d.nextJob, k, b)
<1>1. /\ e.type = "Enqueued" /\ e.job = d.nextJob /\ e.key = k /\ e.body = b
      /\ enqueued_job(e) = [key |-> k, body |-> b, attempts |-> 0,
                            status |-> "Pending", claim |-> NoClaim]
  BY DEF Enqueued, enqueued_job
<1>2. d.nextJob \in Nat /\ d.nextJob \notin DOMAIN d.jobs
  BY DEF DataType, Job
<1>3. f = apply_event(d, e)
  OBVIOUS
<1> HIDE DEF e
<1>4. Applies(d, e)
  BY <1>1, <1>2 DEF Applies
<1>5. Later(d.nextJob, e.job + 1) = d.nextJob + 1
  BY <1>1, <1>2 DEF Later
<1>6. f = [d EXCEPT !.jobs = [j \in DOMAIN d.jobs \cup {e.job} |->
                                 IF j = e.job THEN enqueued_job(e) ELSE d.jobs[j]],
                    !.index[e.key] = e.job,
                    !.nextJob = d.nextJob + 1,
                    !.count["Pending"] = @ + 1]
  BY <1>1, <1>3, <1>4, <1>5 DEF apply_event, ApplyEnqueued
<1>7. d \in [jobs : {d.jobs}, index : [Key -> Nat], nextJob : Job,
             nextClaim : Job, count : [JobStatus -> Nat], valid : {TRUE}]
  BY DEF DataType
<1>8. /\ f.jobs = [j \in DOMAIN d.jobs \cup {e.job} |->
                      IF j = e.job THEN enqueued_job(e) ELSE d.jobs[j]]
      /\ f.index = [d.index EXCEPT ![e.key] = e.job]
      /\ f.nextJob = d.nextJob + 1 /\ f.nextClaim = d.nextClaim
      /\ f.count = [d.count EXCEPT !["Pending"] = @ + 1] /\ f.valid = TRUE
  BY <1>6, <1>7
<1>9. IsData(f)
  BY <1>6, <1>7, Zenon DEF IsData
<1> QED BY <1>1, <1>8, <1>9 DEF Added

LEMMA ClaimedGives ==
    ASSUME NEW d, DataType(d), NEW j \in DOMAIN d.jobs, NEW claim \in ClaimLease,
           d.jobs[j].status = "Pending", claim.token = d.nextClaim,
           NEW f, f = apply_event(d, Claimed(j, claim, d.jobs[j].attempts + 1))
    PROVE  /\ Changed(d, f, j) /\ f.nextClaim = d.nextClaim + 1
           /\ f.jobs[j].attempts = d.jobs[j].attempts + 1
           /\ f.jobs[j].status = "Claimed" /\ f.jobs[j].claim = claim
<1> DEFINE e == Claimed(j, claim, d.jobs[j].attempts + 1)
<1>1. /\ e.type = "Claimed" /\ e.job = j /\ e.claim = claim
      /\ e.attempt = d.jobs[j].attempts + 1
  BY DEF Claimed
<1>2. f = apply_event(d, e)
  OBVIOUS
<1> HIDE DEF e
<1>3. Applies(d, e)
  BY <1>1 DEF Applies, HasStatus
<1>4. Later(d.nextClaim, e.claim.token + 1) = d.nextClaim + 1
  BY <1>1 DEF Later, DataType, Job
<1>5. f = [d EXCEPT !.jobs[e.job].status = "Claimed",
                    !.jobs[e.job].attempts = e.attempt,
                    !.jobs[e.job].claim = e.claim,
                    !.nextClaim = d.nextClaim + 1,
                    !.count = Moved(@, "Pending", "Claimed")]
  BY <1>1, <1>2, <1>3, <1>4 DEF apply_event, ApplyClaimed
<1>6. /\ d \in [jobs : {d.jobs}, index : [Key -> Nat], nextJob : Job,
                nextClaim : Job, count : [JobStatus -> Nat], valid : {TRUE}]
      /\ d.jobs \in [DOMAIN d.jobs -> JobRecord] /\ e.job \in DOMAIN d.jobs
  BY <1>1 DEF DataType
<1>7. /\ f.jobs = [d.jobs EXCEPT ![e.job].status = "Claimed",
                                 ![e.job].attempts = e.attempt,
                                 ![e.job].claim = e.claim]
      /\ f.index = d.index /\ f.nextJob = d.nextJob
      /\ f.nextClaim = d.nextClaim + 1
      /\ f.count = Moved(d.count, "Pending", "Claimed") /\ f.valid = TRUE
  BY <1>5, <1>6, ZenonT(40)
<1>8. IsData(f)
  BY <1>5, <1>6 DEF IsData
<1>9. e.attempt \in Nat /\ e.claim \in ClaimLease /\ "Claimed" \in JobStatus
  BY <1>1, <1>6 DEF JobRecord, JobStatus
<1>10. /\ DOMAIN f.jobs = DOMAIN d.jobs
       /\ f.jobs[e.job].key = d.jobs[e.job].key
       /\ f.jobs[e.job].body = d.jobs[e.job].body
       /\ f.jobs[e.job].attempts = e.attempt
       /\ f.jobs[e.job].status = "Claimed" /\ f.jobs[e.job].claim = e.claim
       /\ f.jobs = [i \in DOMAIN f.jobs |-> f.jobs[i]]
       /\ \A i \in DOMAIN d.jobs \ {e.job} : f.jobs[i] = d.jobs[i]
  <2> DEFINE J == d.jobs
             g == f.jobs
             x == e.job
             a == e.attempt
             c == e.claim
  <2>1. J \in [DOMAIN J -> JobRecord] /\ x \in DOMAIN J
    BY <1>6
  <2>2. g = [J EXCEPT ![x].status = "Claimed", ![x].attempts = a, ![x].claim = c]
    BY <1>7
  <2> HIDE DEF J, g, x, a, c
  <2>3. /\ DOMAIN g = DOMAIN J /\ g[x].key = J[x].key /\ g[x].body = J[x].body
        /\ g[x].attempts = a /\ g[x].status = "Claimed" /\ g[x].claim = c
        /\ g = [i \in DOMAIN g |-> g[i]]
        /\ \A i \in DOMAIN J \ {x} : g[i] = J[i]
    BY <2>1, <2>2 DEF JobRecord
  <2> QED BY <2>3, Zenon DEF J, g, x, a, c
<1>11. f.jobs[e.job] \in JobRecord
  BY <1>6, <1>7, <1>9, SMTT(30) DEF JobRecord
<1>12. /\ f.index = d.index /\ f.nextJob = d.nextJob /\ f.valid = TRUE
       /\ f.nextClaim = d.nextClaim + 1
       /\ f.count = Moved(d.count, "Pending", "Claimed")
  BY <1>7
<1> QED BY <1>1, <1>8, <1>10, <1>11, <1>12, ZenonT(40) DEF Changed

LEMMA EndedGives ==
    ASSUME NEW d, DataType(d), NEW j \in DOMAIN d.jobs, NEW s \in JobStatus,
           d.jobs[j].status = "Claimed",
           NEW f, f = apply_event(d, Ended(j, d.jobs[j].claim.token, s))
    PROVE  /\ Changed(d, f, j) /\ f.nextClaim = d.nextClaim
           /\ f.jobs[j].attempts = d.jobs[j].attempts
           /\ f.jobs[j].status = s /\ f.jobs[j].claim = NoClaim
<1> DEFINE e == Ended(j, d.jobs[j].claim.token, s)
<1>1. /\ e.type = "Ended" /\ e.job = j /\ e.status = s
      /\ e.token = d.jobs[j].claim.token
  BY DEF Ended
<1>2. f = apply_event(d, e)
  OBVIOUS
<1> HIDE DEF e
<1>3. Applies(d, e)
  BY <1>1, SMTT(30) DEF Applies, HasStatus
<1>4. f = [d EXCEPT !.jobs[e.job].status = e.status,
                    !.jobs[e.job].claim = NoClaim,
                    !.count = Moved(@, "Claimed", e.status)]
  BY <1>1, <1>2, <1>3 DEF apply_event, ApplyEnded
<1>5. /\ d \in [jobs : {d.jobs}, index : [Key -> Nat], nextJob : Job,
                nextClaim : Job, count : [JobStatus -> Nat], valid : {TRUE}]
      /\ d.jobs \in [DOMAIN d.jobs -> JobRecord] /\ e.job \in DOMAIN d.jobs
  BY <1>1 DEF DataType
<1>6. /\ f.jobs = [d.jobs EXCEPT ![e.job].status = e.status, ![e.job].claim = NoClaim]
      /\ f.index = d.index /\ f.nextJob = d.nextJob /\ f.nextClaim = d.nextClaim
      /\ f.count = Moved(d.count, "Claimed", e.status) /\ f.valid = TRUE
  BY <1>4, <1>5
<1>7. IsData(f)
  BY <1>4, <1>5 DEF IsData
<1>8. e.status \in JobStatus /\ NoClaim \in ClaimLease
  BY <1>1 DEF NoClaim, ClaimLease
<1>9. /\ DOMAIN f.jobs = DOMAIN d.jobs
      /\ f.jobs[e.job].key = d.jobs[e.job].key
      /\ f.jobs[e.job].body = d.jobs[e.job].body
      /\ f.jobs[e.job].attempts = d.jobs[e.job].attempts
      /\ f.jobs[e.job].status = e.status /\ f.jobs[e.job].claim = NoClaim
      /\ f.jobs = [i \in DOMAIN f.jobs |-> f.jobs[i]]
      /\ \A i \in DOMAIN d.jobs \ {e.job} : f.jobs[i] = d.jobs[i]
  <2> DEFINE J == d.jobs
             g == f.jobs
             x == e.job
             t == e.status
  <2>1. J \in [DOMAIN J -> JobRecord] /\ x \in DOMAIN J
    BY <1>5
  <2>2. g = [J EXCEPT ![x].status = t, ![x].claim = NoClaim]
    BY <1>6
  <2> HIDE DEF J, g, x, t
  <2>3. /\ DOMAIN g = DOMAIN J /\ g[x].key = J[x].key /\ g[x].body = J[x].body
        /\ g[x].attempts = J[x].attempts /\ g[x].status = t /\ g[x].claim = NoClaim
        /\ g = [i \in DOMAIN g |-> g[i]]
        /\ \A i \in DOMAIN J \ {x} : g[i] = J[i]
    BY <2>1, <2>2 DEF JobRecord
  <2> QED BY <2>3, Zenon DEF J, g, x, t
<1>10. f.jobs[e.job] \in JobRecord
  BY <1>5, <1>6, <1>8 DEF JobRecord
<1> QED BY <1>1, <1>6, <1>7, <1>9, <1>10 DEF Changed

\* The jobs of a status are finitely many.
LEMMA OfStatusFinite ==
    ASSUME NEW d, IsFiniteSet(DOMAIN d.jobs), NEW s
    PROVE  IsFiniteSet(OfStatus(d, s)) /\ Cardinality(OfStatus(d, s)) \in Nat
<1>1. OfStatus(d, s) \in SUBSET (DOMAIN d.jobs)
  BY DEF OfStatus
<1>2. IsFiniteSet(OfStatus(d, s))
  BY <1>1, FS_Subset
<1> QED BY <1>2, FS_CardinalityType

\* The gauges follow a job that changes its status.
LEMMA StatusMoved ==
    ASSUME NEW d, DataType(d), Fitting(d), NEW f, DOMAIN f.jobs = DOMAIN d.jobs,
           NEW j \in DOMAIN d.jobs, NEW from \in JobStatus, NEW to \in JobStatus,
           from # to, d.jobs[j].status = from, f.jobs[j].status = to,
           \A i \in DOMAIN d.jobs \ {j} : f.jobs[i] = d.jobs[i]
    PROVE  /\ Moved(d.count, from, to) \in [JobStatus -> Nat]
           /\ \A s \in JobStatus :
                 Moved(d.count, from, to)[s] = Cardinality(OfStatus(f, s))
<1>1. /\ d.count \in [JobStatus -> Nat]
      /\ \A s \in JobStatus : d.count[s] = Cardinality(OfStatus(d, s))
  BY DEF DataType, Fitting
<1>2. /\ OfStatus(f, from) = OfStatus(d, from) \ {j} /\ j \in OfStatus(d, from)
      /\ OfStatus(f, to) = OfStatus(d, to) \cup {j} /\ j \notin OfStatus(d, to)
      /\ \A s \in JobStatus \ {from, to} : OfStatus(f, s) = OfStatus(d, s)
  BY DEF OfStatus
<1>3. \A s \in JobStatus : IsFiniteSet(OfStatus(d, s))
  BY OfStatusFinite DEF DataType
<1>4. /\ Cardinality(OfStatus(f, from)) = d.count[from] - 1
      /\ IsFiniteSet(OfStatus(f, from))
  BY <1>1, <1>2, <1>3, FS_RemoveElement
<1>5. Cardinality(OfStatus(f, to)) = d.count[to] + 1
  <2>1. Cardinality(OfStatus(d, to) \cup {j}) = Cardinality(OfStatus(d, to)) + 1
    BY <1>2, <1>3, FS_AddElement
  <2> QED BY <1>1, <1>2, <2>1
<1>6. Cardinality(OfStatus(f, from)) \in Nat
  BY <1>4, FS_CardinalityType
<1>7. \A s \in JobStatus \ {from, to} : Cardinality(OfStatus(f, s)) = d.count[s]
  BY <1>1, <1>2
<1>8. Moved(d.count, from, to) = [s \in JobStatus |-> IF s = from THEN d.count[s] - 1
                                   ELSE IF s = to THEN d.count[s] + 1 ELSE d.count[s]]
  BY <1>1 DEF Moved
<1> QED BY <1>1, <1>4, <1>5, <1>6, <1>7, <1>8

\* The three kinds of records keep the queue in order and only add to it.
LEMMA EnqueuedKeeps ==
    ASSUME NEW d, DataOK(d), NEW k \in Key, NEW b \in Body, d.index[k] = 0,
           NEW f, f = apply_event(d, Enqueued(d.nextJob, k, b))
    PROVE  /\ DataOK(f) /\ Follows(d, f) /\ f.nextClaim = d.nextClaim
           /\ \A i \in DOMAIN d.jobs : f.jobs[i] = d.jobs[i]
           /\ f.index[k] = d.nextJob /\ f.jobs[d.nextJob].body = b
<1>0. Added(d, f, k, b)
  BY EnqueuedGives DEF DataOK
<1> DEFINE n == d.nextJob
           job == [key |-> k, body |-> b, attempts |-> 0,
                   status |-> "Pending", claim |-> NoClaim]
<1>1. /\ DataType(d) /\ n \in Job /\ n \notin DOMAIN d.jobs
      /\ d.index \in [Key -> Nat] /\ d.nextClaim \in Job
      /\ d.count \in [JobStatus -> Nat]
      /\ \A i \in DOMAIN d.jobs : d.jobs[i] \in JobRecord /\ i \in 1..(n - 1)
  <2>1. DataType(d) /\ d.jobs \in [DOMAIN d.jobs -> JobRecord]
    BY DEF DataOK, DataType
  <2>2. n \in Job /\ d.nextClaim \in Job /\ DOMAIN d.jobs \subseteq 1..(n - 1)
    BY <2>1 DEF DataType
  <2>3. n \notin DOMAIN d.jobs
    BY <2>2 DEF Job
  <2> QED BY <2>1, <2>2, <2>3 DEF DataType
<1>2. /\ IsData(f)
      /\ f.jobs = [i \in DOMAIN d.jobs \cup {n} |-> IF i = n THEN job ELSE d.jobs[i]]
      /\ f.index = [d.index EXCEPT ![k] = n]
      /\ f.nextJob = n + 1 /\ f.nextClaim = d.nextClaim
      /\ f.count = [d.count EXCEPT !["Pending"] = @ + 1] /\ f.valid = TRUE
  BY <1>0 DEF Added
<1> HIDE DEF n
<1>3. /\ DOMAIN f.jobs = DOMAIN d.jobs \cup {n} /\ f.jobs[n] = job
      /\ \A i \in DOMAIN d.jobs : f.jobs[i] = d.jobs[i]
  BY <1>1, <1>2
<1>4. /\ f.index[k] = n /\ \A l \in Key \ {k} : f.index[l] = d.index[l]
      /\ f.index \in [Key -> Nat]
  BY <1>1, <1>2 DEF Job
<1>5. f.nextJob = n + 1 /\ f.nextClaim = d.nextClaim /\ f.valid = TRUE
  BY <1>2
<1>6. job \in JobRecord
  BY DEF JobRecord, JobStatus, ClaimLease, NoClaim
<1>7. DataType(f)
  <2>1. IsFiniteSet(DOMAIN f.jobs)
    BY <1>1, <1>3, FS_AddElement DEF DataType
  <2>2. f.jobs \in [DOMAIN f.jobs -> JobRecord]
    BY <1>1, <1>2, <1>3, <1>6
  <2>3. DOMAIN f.jobs \subseteq 1..(f.nextJob - 1)
    BY <1>1, <1>3, <1>5 DEF Job
  <2>4. f.count \in [JobStatus -> Nat]
    <3>1. f.count = [d.count EXCEPT !["Pending"] = @ + 1] /\ d.count \in [JobStatus -> Nat]
      BY <1>1, <1>2
    <3>2. "Pending" \in JobStatus /\ d.count["Pending"] \in Nat
      BY <1>1 DEF JobStatus
    <3> QED BY <3>1, <3>2
  <2>5. f \in [jobs : {f.jobs}, index : [Key -> Nat], nextJob : Job,
               nextClaim : Job, count : [JobStatus -> Nat], valid : {TRUE}]
    <3>1. f.nextJob \in Job /\ f.nextClaim \in Job /\ f.valid = TRUE /\ IsData(f)
      BY <1>1, <1>2, <1>5 DEF Job
    <3> QED BY <1>4, <2>4, <3>1 DEF IsData
  <2> QED BY <2>1, <2>2, <2>3, <2>5 DEF DataType
<1>8. Indexed(f)
  <2>1. \A i \in DOMAIN d.jobs : d.jobs[i].key \in Key /\ d.jobs[i].key # k
    BY <1>1 DEF DataOK, Indexed, JobRecord, Job
  <2>2. \A l \in Key : f.index[l] # 0 => /\ f.index[l] \in DOMAIN f.jobs
                                         /\ f.jobs[f.index[l]].key = l
    BY <1>3, <1>4 DEF DataOK, Indexed
  <2>3. \A i \in DOMAIN f.jobs : f.index[f.jobs[i].key] = i
    BY <1>3, <1>4, <2>1 DEF DataOK, Indexed
  <2> QED BY <2>2, <2>3 DEF Indexed
<1>9. Fitting(f)
  <2>1. \A i \in DOMAIN f.jobs : JobFits(f.jobs[i], f.nextClaim)
    <3>1. JobFits(job, d.nextClaim)
      BY LimitType DEF JobFits
    <3> QED BY <1>3, <1>5, <3>1 DEF DataOK, Fitting
  <2>2. /\ OfStatus(f, "Pending") = OfStatus(d, "Pending") \cup {n}
        /\ n \notin OfStatus(d, "Pending")
        /\ \A s \in JobStatus \ {"Pending"} : OfStatus(f, s) = OfStatus(d, s)
    BY <1>1, <1>3 DEF OfStatus
  <2>3. Cardinality(OfStatus(f, "Pending")) = Cardinality(OfStatus(d, "Pending")) + 1
    BY <1>1, <2>2, FS_AddElement, OfStatusFinite DEF DataType
  <2>4. \A s \in JobStatus : d.count[s] = Cardinality(OfStatus(d, s))
    BY DEF DataOK, Fitting
  <2>5. \A s \in JobStatus : f.count[s] = IF s = "Pending" THEN d.count[s] + 1 ELSE d.count[s]
    BY <1>1, <1>2
  <2>6. \A s \in JobStatus : f.count[s] = Cardinality(OfStatus(f, s))
    BY <2>2, <2>3, <2>4, <2>5
  <2> QED BY <2>1, <2>6 DEF Fitting
<1>10. Follows(d, f)
  <2>1. \A l \in Key : d.index[l] # 0 => f.index[l] = d.index[l]
    BY <1>4
  <2>2. \A i \in DOMAIN d.jobs : d.jobs[i].attempts \in Nat
    BY <1>1 DEF JobRecord
  <2> QED BY <1>1, <1>3, <1>5, <2>1, <2>2 DEF Follows, Job
<1> QED BY <1>3, <1>4, <1>5, <1>7, <1>8, <1>9, <1>10 DEF DataOK, n

\* A record that changes one job and not its key or body.
LEMMA ChangedKeeps ==
    ASSUME NEW d, DataOK(d), NEW f, NEW j \in DOMAIN d.jobs, Changed(d, f, j),
           f.nextClaim \in Job, d.nextClaim <= f.nextClaim,
           d.jobs[j].attempts <= f.jobs[j].attempts, JobFits(f.jobs[j], f.nextClaim),
           d.jobs[j].status \notin Terminal, f.jobs[j].status # d.jobs[j].status
    PROVE  DataOK(f) /\ Follows(d, f)
<1>1. /\ DataType(d) /\ d.nextJob \in Job /\ d.nextClaim \in Job
      /\ d.index \in [Key -> Nat] /\ d.jobs \in [DOMAIN d.jobs -> JobRecord]
      /\ IsFiniteSet(DOMAIN d.jobs) /\ DOMAIN d.jobs \subseteq 1..(d.nextJob - 1)
  BY DEF DataOK, DataType
<1>2. /\ IsData(f) /\ f.jobs[j] \in JobRecord
      /\ f.index = d.index /\ f.nextJob = d.nextJob /\ f.valid = TRUE
      /\ f.count = Moved(d.count, d.jobs[j].status, f.jobs[j].status)
      /\ DOMAIN f.jobs = DOMAIN d.jobs
      /\ f.jobs[j].key = d.jobs[j].key /\ f.jobs[j].body = d.jobs[j].body
      /\ f.jobs = [i \in DOMAIN f.jobs |-> f.jobs[i]]
      /\ \A i \in DOMAIN d.jobs \ {j} : f.jobs[i] = d.jobs[i]
  BY DEF Changed
<1>3. \A i \in DOMAIN d.jobs : d.jobs[i] \in JobRecord /\ f.jobs[i] \in JobRecord
  BY <1>1, <1>2
<1>4. /\ f.count \in [JobStatus -> Nat]
      /\ \A s \in JobStatus : f.count[s] = Cardinality(OfStatus(f, s))
  <2>1. d.jobs[j].status \in JobStatus /\ f.jobs[j].status \in JobStatus
    BY <1>3 DEF JobRecord
  <2> QED BY <1>1, <1>2, <2>1, StatusMoved DEF DataOK
<1>5. DataType(f)
  <2>1. f \in [jobs : {f.jobs}, index : [Key -> Nat], nextJob : Job,
               nextClaim : Job, count : [JobStatus -> Nat], valid : {TRUE}]
    BY <1>1, <1>2, <1>4 DEF IsData
  <2>2. f.jobs \in [DOMAIN f.jobs -> JobRecord]
    BY <1>2, <1>3
  <2> QED BY <1>1, <1>2, <2>1, <2>2 DEF DataType
<1>6. Indexed(f)
  <2>1. \A i \in DOMAIN d.jobs : f.jobs[i].key = d.jobs[i].key
    BY <1>2
  <2> QED BY <1>2, <2>1 DEF DataOK, Indexed
<1>7. \A i \in DOMAIN f.jobs : JobFits(f.jobs[i], f.nextClaim)
  <2> SUFFICES ASSUME NEW i \in DOMAIN d.jobs, i # j PROVE JobFits(d.jobs[i], f.nextClaim)
    BY <1>2
  <2>1. JobFits(d.jobs[i], d.nextClaim)
    BY DEF DataOK, Fitting
  <2>2. d.jobs[i].claim.token \in Nat
    BY <1>3 DEF JobRecord, ClaimLease
  <2> QED BY <1>1, <2>1, <2>2 DEF JobFits, Job
<1>8. Follows(d, f)
  <2>1. \A i \in DOMAIN d.jobs : d.jobs[i].attempts \in Nat
    BY <1>3, SMTT(30) DEF JobRecord
  <2> QED BY <1>2, <2>1 DEF Follows
<1> QED BY <1>4, <1>5, <1>6, <1>7, <1>8 DEF DataOK, Fitting

LEMMA ClaimedKeeps ==
    ASSUME NEW d, DataOK(d), NEW j \in DOMAIN d.jobs, NEW claim \in ClaimLease,
           d.jobs[j].status = "Pending", claim.token = d.nextClaim,
           NEW f, f = apply_event(d, Claimed(j, claim, d.jobs[j].attempts + 1))
    PROVE  /\ DataOK(f) /\ Follows(d, f) /\ DOMAIN f.jobs = DOMAIN d.jobs
           /\ f.jobs[j].status = "Claimed" /\ f.jobs[j].claim = claim
           /\ f.jobs[j].attempts = d.jobs[j].attempts + 1
           /\ f.nextClaim = d.nextClaim + 1 /\ f.index = d.index
           /\ \A i \in DOMAIN d.jobs \ {j} : f.jobs[i] = d.jobs[i]
<1>1. DataType(d) /\ d.nextClaim \in Job /\ d.jobs[j] \in JobRecord
  BY DEF DataOK, DataType
<1>2. /\ Changed(d, f, j) /\ f.nextClaim = d.nextClaim + 1
      /\ f.jobs[j].attempts = d.jobs[j].attempts + 1
      /\ f.jobs[j].status = "Claimed" /\ f.jobs[j].claim = claim
  BY <1>1, ClaimedGives
<1>3. f.nextClaim \in Job /\ d.nextClaim <= f.nextClaim
  BY <1>1, <1>2 DEF Job
<1>4. /\ d.jobs[j].attempts \in Nat /\ d.jobs[j].body \in Body
      /\ d.jobs[j].attempts < Limit[d.jobs[j].body]
      /\ d.jobs[j].attempts <= f.jobs[j].attempts
  BY <1>1, <1>2 DEF JobRecord, DataOK, Fitting, JobFits
<1>5. JobFits(f.jobs[j], f.nextClaim)
  <2>1. f.jobs[j].attempts <= Limit[f.jobs[j].body]
    BY <1>2, <1>4, LimitType DEF Changed
  <2> QED BY <1>1, <1>2, <2>1, SMTT(30) DEF JobFits, Job
<1>6. "Pending" \notin Terminal
  BY DEF Terminal
<1>7. DataOK(f) /\ Follows(d, f)
  BY <1>2, <1>3, <1>4, <1>5, <1>6, ChangedKeeps
<1> QED BY <1>2, <1>7 DEF Changed

LEMMA EndedKeeps ==
    ASSUME NEW d, DataOK(d), NEW j \in DOMAIN d.jobs, NEW s \in JobStatus \ {"Claimed"},
           d.jobs[j].status = "Claimed",
           s = "Pending" => d.jobs[j].attempts < Limit[d.jobs[j].body],
           NEW f, f = apply_event(d, Ended(j, d.jobs[j].claim.token, s))
    PROVE  /\ DataOK(f) /\ Follows(d, f) /\ f.jobs[j].status = s
           /\ f.nextClaim = d.nextClaim /\ DOMAIN f.jobs = DOMAIN d.jobs
           /\ f.index = d.index
           /\ \A i \in DOMAIN d.jobs \ {j} : f.jobs[i] = d.jobs[i]
<1>1. DataType(d) /\ d.nextClaim \in Job /\ d.jobs[j] \in JobRecord
  BY DEF DataOK, DataType
<1>2. /\ Changed(d, f, j) /\ f.nextClaim = d.nextClaim
      /\ f.jobs[j].attempts = d.jobs[j].attempts
      /\ f.jobs[j].status = s /\ f.jobs[j].claim = NoClaim
  BY <1>1, EndedGives
<1>3. d.nextClaim <= d.nextClaim /\ d.jobs[j].attempts <= d.jobs[j].attempts
  BY <1>1 DEF Job, JobRecord
<1>4. JobFits(f.jobs[j], f.nextClaim)
  <2>1. JobFits(d.jobs[j], d.nextClaim) /\ f.jobs[j].body = d.jobs[j].body
    BY <1>2, Zenon DEF DataOK, Fitting, Changed
  <2> QED BY <1>2, <2>1, SMTT(30) DEF JobFits
<1>5. "Claimed" \notin Terminal
  BY DEF Terminal
<1>6. DataOK(f) /\ Follows(d, f)
  BY <1>1, <1>2, <1>3, <1>4, <1>5, ChangedKeeps
<1> QED BY <1>2, <1>6, Zenon DEF Changed

\* Every record the queue writes keeps it in order; a claim that runs afterwards
\* ran before or has the next number.
LEMMA LegalKeeps ==
    ASSUME NEW d, DataOK(d), NEW e, Legal(d, e), NEW f, f = apply_event(d, e)
    PROVE  /\ DataOK(f) /\ Follows(d, f)
           /\ \A i \in DOMAIN d.jobs : \/ f.jobs[i] = d.jobs[i]
                                       \/ f.jobs[i].status # "Claimed"
                                       \/ f.jobs[i].claim.token = d.nextClaim
<1>1. CASE LegalEnqueue(d, e)
  <2>1. PICK k \in Key, b \in Body : e = Enqueued(d.nextJob, k, b) /\ d.index[k] = 0
    BY <1>1 DEF LegalEnqueue
  <2> QED BY <2>1, EnqueuedKeeps
<1>2. CASE LegalClaim(d, e)
  <2>1. PICK j \in DOMAIN d.jobs, claim \in ClaimLease :
            /\ e = Claimed(j, claim, d.jobs[j].attempts + 1)
            /\ d.jobs[j].status = "Pending" /\ claim.token = d.nextClaim
    BY <1>2 DEF LegalClaim
  <2>2. /\ DataOK(f) /\ Follows(d, f) /\ f.jobs[j].claim = claim
        /\ \A i \in DOMAIN d.jobs \ {j} : f.jobs[i] = d.jobs[i]
    BY <2>1, ClaimedKeeps, SMTT(30)
  <2> QED BY <2>1, <2>2
<1>3. CASE LegalEnd(d, e)
  <2>1. PICK j \in DOMAIN d.jobs, s \in JobStatus \ {"Claimed"} :
            /\ e = Ended(j, d.jobs[j].claim.token, s)
            /\ d.jobs[j].status = "Claimed"
            /\ s = "Pending" => d.jobs[j].attempts < Limit[d.jobs[j].body]
    BY <1>3 DEF LegalEnd
  <2>2. /\ DataOK(f) /\ Follows(d, f) /\ f.jobs[j].status = s
        /\ \A i \in DOMAIN d.jobs \ {j} : f.jobs[i] = d.jobs[i]
    BY <2>1, EndedKeeps
  <2> QED BY <2>1, <2>2
<1> QED BY <1>1, <1>2, <1>3 DEF Legal

\* Records accumulate.
LEMMA FollowsItself ==
    ASSUME NEW d, DataOK(d)
    PROVE  Follows(d, d)
<1>1. d.nextClaim \in Nat /\ \A j \in DOMAIN d.jobs : d.jobs[j].attempts \in Nat
  BY DEF DataOK, DataType, JobRecord, Job
<1> QED BY <1>1 DEF Follows

LEMMA FollowsOn ==
    ASSUME NEW a, DataOK(a), NEW b, DataOK(b), NEW c, DataOK(c),
           Follows(a, b), Follows(b, c)
    PROVE  Follows(a, c)
<1>1. /\ a.nextClaim \in Nat /\ b.nextClaim \in Nat /\ c.nextClaim \in Nat
      /\ \A j \in DOMAIN a.jobs : a.jobs[j].attempts \in Nat
      /\ \A j \in DOMAIN b.jobs : b.jobs[j].attempts \in Nat
      /\ \A j \in DOMAIN c.jobs : c.jobs[j].attempts \in Nat
  BY DEF DataOK, DataType, JobRecord, Job
<1>2. a.nextClaim <= c.nextClaim
  BY <1>1 DEF Follows
<1>3. ASSUME NEW j \in DOMAIN a.jobs
      PROVE  /\ j \in DOMAIN c.jobs
             /\ c.jobs[j].key = a.jobs[j].key /\ c.jobs[j].body = a.jobs[j].body
             /\ a.jobs[j].attempts <= c.jobs[j].attempts
             /\ a.jobs[j].status \in Terminal => c.jobs[j] = a.jobs[j]
  <2>1. j \in DOMAIN b.jobs /\ j \in DOMAIN c.jobs
    BY DEF Follows
  <2> QED BY <1>1, <2>1 DEF Follows
<1>4. \A k \in Key : a.index[k] # 0 => c.index[k] = a.index[k]
  BY DEF Follows
<1> QED BY <1>2, <1>3, <1>4 DEF Follows

-----------------------------------------------------------------------------
(* What consumers were told.                                                 *)

\* The queue d knows of the claim l and has given the job to no earlier one.
Knows(d, l) ==
    /\ l.job \in DOMAIN d.jobs /\ l.token < d.nextClaim
    /\ d.jobs[l.job].status = "Claimed" => l.token <= d.jobs[l.job].claim.token

Active(d, l) == d.jobs[l.job].status = "Claimed" /\ d.jobs[l.job].claim.token = l.token

Deliveries(L, j) == {l \in L : l.job = j}

\* L are the claims given out, A those whose acknowledgement was answered; m, f
\* and s are memory, file and stable storage.
Told(L, A, m, f, s) ==
    /\ L \subseteq Lease /\ A \subseteq L /\ IsFiniteSet(L)
    /\ \A l \in L : Knows(m, l) /\ Knows(f, l) /\ Knows(s, l)
    /\ \A l \in L : Active(f, l) => s.jobs[l.job] = f.jobs[l.job]
    /\ \A j \in DOMAIN s.jobs : Cardinality(Deliveries(L, j)) <= s.jobs[j].attempts
    /\ \A l, k \in L : l.token = k.token => l = k
    /\ \A a \in A : /\ HasStatus(s, a.job, "Completed")
                    /\ \A l \in L : l.job = a.job => l.token <= a.token

\* Deliveries are counted in whatever comes after stable storage.
LEMMA CountedLater ==
    ASSUME NEW L, NEW A, NEW m, NEW f, NEW s, DataOK(s), Told(L, A, m, f, s),
           NEW g, DataOK(g), Follows(s, g)
    PROVE  /\ \A j \in DOMAIN g.jobs : Cardinality(Deliveries(L, j)) <= g.jobs[j].attempts
           /\ \A a \in A : HasStatus(g, a.job, "Completed")
<1>1. \A j : IsFiniteSet(Deliveries(L, j)) /\ Cardinality(Deliveries(L, j)) \in Nat
  <2> TAKE j
  <2>1. Deliveries(L, j) \in SUBSET L /\ IsFiniteSet(L)
    BY DEF Deliveries, Told
  <2>2. IsFiniteSet(Deliveries(L, j))
    BY <2>1, FS_Subset
  <2> QED BY <2>2, FS_CardinalityType
<1>2. ASSUME NEW j \in DOMAIN g.jobs
      PROVE  Cardinality(Deliveries(L, j)) <= g.jobs[j].attempts
  <2>1. g.jobs[j].attempts \in Nat
    BY DEF DataOK, DataType, JobRecord
  <2>2. CASE j \in DOMAIN s.jobs
    <3>1. s.jobs[j].attempts \in Nat /\ s.jobs[j].attempts <= g.jobs[j].attempts
      BY <2>2 DEF DataOK, DataType, JobRecord, Follows
    <3>2. Cardinality(Deliveries(L, j)) <= s.jobs[j].attempts
      BY <2>2 DEF Told
    <3> QED BY <1>1, <2>1, <3>1, <3>2
  <2>3. CASE j \notin DOMAIN s.jobs
    <3>1. Deliveries(L, j) = {}
      BY <2>3 DEF Deliveries, Told, Knows
    <3> QED BY <2>1, <3>1, FS_EmptySet
  <2> QED BY <2>2, <2>3
<1>3. ASSUME NEW a \in A PROVE HasStatus(g, a.job, "Completed")
  <2>1. a.job \in DOMAIN s.jobs /\ s.jobs[a.job].status = "Completed"
    BY DEF Told, HasStatus
  <2> QED BY <2>1 DEF Follows, Terminal, HasStatus
<1> QED BY <1>2, <1>3

\* A record more, in the file alone or everywhere.
LEMMA ToldOfRecord ==
    ASSUME NEW L, NEW A, NEW d, DataOK(d), NEW s, DataOK(s), Follows(s, d),
           Told(L, A, d, d, s), NEW e, Legal(d, e), NEW g, g = apply_event(d, e)
    PROVE  Told(L, A, g, g, g) /\ Told(L, A, d, g, s)
<1>1. /\ DataOK(g) /\ Follows(d, g)
      /\ \A i \in DOMAIN d.jobs : \/ g.jobs[i] = d.jobs[i]
                                  \/ g.jobs[i].status # "Claimed"
                                  \/ g.jobs[i].claim.token = d.nextClaim
  BY LegalKeeps
<1>2. Follows(s, g)
  BY <1>1, FollowsOn
<1>3. d.nextClaim \in Nat /\ g.nextClaim \in Nat /\ d.nextClaim <= g.nextClaim
  BY <1>1 DEF DataOK, DataType, Job, Follows
<1>4. \A l \in L : l.token \in Nat /\ l.job \in DOMAIN d.jobs /\ l.token < d.nextClaim
  BY DEF Told, Knows, Lease, Job
<1>5. ASSUME NEW l \in L
      PROVE  Knows(g, l) /\ (Active(g, l) => g.jobs[l.job] = d.jobs[l.job])
  <2>1. l.job \in DOMAIN g.jobs
    BY <1>1, <1>4 DEF Follows
  <2>2. Knows(d, l)
    BY DEF Told
  <2>3. l.token < g.nextClaim
    BY <1>3, <1>4
  <2>4. CASE g.jobs[l.job] = d.jobs[l.job]
    BY <2>1, <2>2, <2>3, <2>4 DEF Knows
  <2>5. CASE g.jobs[l.job].status # "Claimed"
    BY <2>1, <2>3, <2>5 DEF Knows, Active
  <2>6. CASE g.jobs[l.job].claim.token = d.nextClaim
    BY <1>3, <1>4, <2>1, <2>3, <2>6 DEF Knows, Active
  <2> QED BY <1>1, <1>4, <2>4, <2>5, <2>6
<1>6. \A l \in L : Active(g, l) => s.jobs[l.job] = g.jobs[l.job]
  <2> SUFFICES ASSUME NEW l \in L, Active(g, l) PROVE s.jobs[l.job] = g.jobs[l.job]
    OBVIOUS
  <2>1. g.jobs[l.job] = d.jobs[l.job]
    BY <1>5
  <2>2. Active(d, l)
    BY <2>1 DEF Active
  <2> QED BY <2>1, <2>2 DEF Told
<1>7. /\ \A j \in DOMAIN g.jobs : Cardinality(Deliveries(L, j)) <= g.jobs[j].attempts
      /\ \A a \in A : HasStatus(g, a.job, "Completed")
  BY <1>1, <1>2, CountedLater
<1> QED BY <1>5, <1>6, <1>7 DEF Told

\* A process that starts has the file, or what a power loss left of it.
LEMMA ToldAtStart ==
    ASSUME NEW L, NEW A, NEW m, NEW f, DataOK(f), NEW s, DataOK(s), Follows(s, f),
           Told(L, A, m, f, s)
    PROVE  Told(L, A, f, f, f) /\ Told(L, A, f, f, s) /\ Told(L, A, s, s, s)
<1>1. /\ \A j \in DOMAIN f.jobs : Cardinality(Deliveries(L, j)) <= f.jobs[j].attempts
      /\ \A a \in A : HasStatus(f, a.job, "Completed")
  BY CountedLater
<1> QED BY <1>1 DEF Told

\* A claim is given out.
LEMMA ToldOfClaim ==
    ASSUME NEW L, NEW A, NEW d, DataOK(d), NEW s, DataOK(s), Follows(s, d),
           Told(L, A, d, d, s), NEW j \in DOMAIN d.jobs, NEW claim \in ClaimLease,
           d.jobs[j].status = "Pending", claim.token = d.nextClaim,
           claim.consumer \in Consumer,
           NEW g, g = apply_event(d, Claimed(j, claim, d.jobs[j].attempts + 1))
    PROVE  Told(L \cup {[job |-> j, token |-> claim.token, consumer |-> claim.consumer]},
                A, g, g, g)
<1> DEFINE x == [job |-> j, token |-> claim.token, consumer |-> claim.consumer]
           M == L \cup {x}
<1>1. Legal(d, Claimed(j, claim, d.jobs[j].attempts + 1))
  BY DEF Legal, LegalClaim
<1>2. Told(L, A, g, g, g)
  BY <1>1, ToldOfRecord
<1>3. /\ DataOK(g) /\ Follows(d, g) /\ DOMAIN g.jobs = DOMAIN d.jobs
      /\ g.jobs[j].status = "Claimed" /\ g.jobs[j].claim = claim
      /\ g.jobs[j].attempts = d.jobs[j].attempts + 1
      /\ g.nextClaim = d.nextClaim + 1
      /\ \A i \in DOMAIN d.jobs \ {j} : g.jobs[i] = d.jobs[i]
  BY ClaimedKeeps
<1>4. /\ d.nextClaim \in Nat /\ d.nextClaim > 0 /\ j \in Job
      /\ d.jobs[j].attempts \in Nat
  BY DEF DataOK, DataType, Job, JobRecord
<1>5. x \in Lease /\ x.job = j /\ x.token = d.nextClaim
  BY <1>4 DEF Lease, Job
<1>6. Knows(g, x)
  BY <1>3, <1>4, <1>5 DEF Knows
<1>7. \A l \in L : l.token \in Nat /\ l.token < d.nextClaim
  BY DEF Told, Knows, Lease, Job
<1>8. IsFiniteSet(M)
  BY <1>2, FS_AddElement DEF Told
<1>9. \A a \in A : a.job # j
  <2>1. \A a \in A : HasStatus(d, a.job, "Completed")
    BY CountedLater
  <2> QED BY <2>1 DEF HasStatus
<1>10. \A i \in DOMAIN g.jobs : Cardinality(Deliveries(M, i)) <= g.jobs[i].attempts
  <2> SUFFICES ASSUME NEW i \in DOMAIN g.jobs
               PROVE  Cardinality(Deliveries(M, i)) <= g.jobs[i].attempts
    OBVIOUS
  <2>1. CASE i # j
    <3>1. Deliveries(M, i) = Deliveries(L, i)
      BY <1>5, <2>1 DEF Deliveries
    <3> QED BY <1>2, <3>1 DEF Told
  <2>2. CASE i = j
    <3>1. Cardinality(Deliveries(L, j)) <= d.jobs[j].attempts
      BY CountedLater
    <3>2. Deliveries(M, j) = Deliveries(L, j) \cup {x} /\ x \notin Deliveries(L, j)
      BY <1>5, <1>7 DEF Deliveries
    <3>3. Deliveries(L, j) \in SUBSET L /\ IsFiniteSet(L)
      BY DEF Deliveries, Told
    <3>4. IsFiniteSet(Deliveries(L, j))
      BY <3>3, FS_Subset
    <3>5. Cardinality(Deliveries(L, j)) \in Nat
      BY <3>4, FS_CardinalityType
    <3>6. Cardinality(Deliveries(M, j)) = Cardinality(Deliveries(L, j)) + 1
      BY <3>2, <3>4, FS_AddElement, ZenonT(30)
    <3> QED BY <1>3, <1>4, <2>2, <3>1, <3>5, <3>6
  <2> QED BY <2>1, <2>2
<1> HIDE DEF x
<1>11. \A l, k \in M : l.token = k.token => l = k
  BY <1>2, <1>4, <1>5, <1>7 DEF Told
<1>12. \A a \in A : \A l \in M : l.job = a.job => l.token <= a.token
  BY <1>2, <1>5, <1>9 DEF Told
<1>13. M \subseteq Lease /\ A \subseteq M /\ \A l \in M : Knows(g, l)
  BY <1>2, <1>5, <1>6 DEF Told
<1> HIDE DEF M
<1>14. Told(M, A, g, g, g)
  BY <1>2, <1>8, <1>10, <1>11, <1>12, <1>13 DEF Told
<1> QED BY <1>14 DEF M, x

\* An acknowledgement is answered.
LEMMA ToldOfAck ==
    ASSUME NEW L, NEW A, NEW g, Told(L, A, g, g, g), NEW a \in L,
           HasStatus(g, a.job, "Completed"),
           \A l \in L : l.job = a.job => l.token <= a.token
    PROVE  Told(L, A \cup {a}, g, g, g)
BY DEF Told

-----------------------------------------------------------------------------
(* The invariant.                                                            *)

StoreInv ==
    /\ DataOK(mem) /\ DataOK(file) /\ DataOK(stable)
    /\ Follows(stable, mem) /\ Follows(mem, file)
    /\ torn \in BOOLEAN /\ poisoned \in BOOLEAN
    /\ ~poisoned => file = mem /\ torn = FALSE

NoJob == [job : {0}, token : {0}, consumer : Consumer \cup {Nobody}]

OpInv ==
    /\ clock \in Nat
    /\ op \in [kind : {"idle", "claim", "read", "ack", "fail"}, now : 0..clock,
               lease : Lease \cup NoJob]
    /\ op.kind \in {"ack", "fail"} => op.lease \in leases
    /\ op.kind = "claim" => op.lease.consumer \in Consumer

BoundInv ==
    /\ failures \in 0..MaxFailures /\ restarts \in 0..MaxRestarts
    /\ powerLosses \in 0..MaxPowerLosses

LeaseInv == Told(leases, acked, mem, file, stable)

\* Until the power fails, an answered enqueue is in memory.
AcceptInv ==
    /\ accepted \subseteq [key : Key, body : Body, job : Job]
    /\ powerLosses = 0 =>
          \A a \in accepted : mem.index[a.key] = a.job /\ mem.jobs[a.job].body = a.body

QueueInv == StoreInv /\ OpInv /\ BoundInv /\ LeaseInv /\ AcceptInv

\* The empty queue.
LEMMA EmptyOK == DataOK(EmptyData)
<1>1. /\ EmptyData.jobs = [j \in {} |-> {}] /\ DOMAIN EmptyData.jobs = {}
      /\ EmptyData.index = [k \in Key |-> 0]
      /\ EmptyData.nextJob = 1 /\ EmptyData.nextClaim = 1
      /\ EmptyData.count = [s \in JobStatus |-> 0] /\ EmptyData.valid = TRUE
  BY DEF EmptyData
<1>2. EmptyData \in [jobs : {EmptyData.jobs}, index : [Key -> Nat], nextJob : Job,
                     nextClaim : Job, count : [JobStatus -> Nat], valid : {TRUE}]
  BY DEF EmptyData, Job
<1>3. DataType(EmptyData)
  BY <1>1, <1>2, FS_EmptySet DEF DataType
<1>4. Indexed(EmptyData)
  BY <1>1 DEF Indexed
<1>5. \A s \in JobStatus : OfStatus(EmptyData, s) = {}
  BY <1>1 DEF OfStatus
<1>6. Fitting(EmptyData)
  BY <1>1, <1>5, FS_EmptySet DEF Fitting
<1> QED BY <1>3, <1>4, <1>6 DEF DataOK

LEMMA QueueInit ==
    ASSUME Init
    PROVE  QueueInv
<1>1. StoreInv
  BY EmptyOK, FollowsItself DEF Init, StoreInv
<1>2. OpInv
  BY DEF Init, OpInv, Idle, NoLease, NoJob
<1>3. BoundInv
  BY QueueBounds DEF Init, BoundInv
<1>4. LeaseInv
  <2>1. leases = {} /\ acked = {} /\ stable = EmptyData
    BY DEF Init
  <2>2. DOMAIN EmptyData.jobs = {}
    BY DEF EmptyData
  <2> QED BY <2>1, <2>2, FS_EmptySet DEF LeaseInv, Told
<1>5. AcceptInv
  BY DEF Init, AcceptInv
<1> QED BY <1>1, <1>2, <1>3, <1>4, <1>5 DEF QueueInv

-----------------------------------------------------------------------------
(* The write-ahead log.                                                      *)

\* A record is written, or its append fails.
LEMMA RecordStep ==
    ASSUME StoreInv, LeaseInv, NEW e, Legal(mem, e), Commit(e) \/ AppendFails(e)
    PROVE  /\ StoreInv' /\ Told(leases, acked, mem', file', stable')
           /\ Follows(mem, mem') /\ mem = file
           /\ file' = file \/ file' = apply_event(mem, e)
<1> DEFINE g == apply_event(mem, e)
<1>1. ~poisoned /\ file = mem /\ torn = FALSE
  BY DEF Commit, AppendFails, StoreInv
<1>2. Written(e) = g
  BY <1>1 DEF Written
<1>3. DataOK(mem) /\ DataOK(stable) /\ Follows(stable, mem)
  BY DEF StoreInv
<1>4. DataOK(g) /\ Follows(mem, g)
  BY <1>3, LegalKeeps
<1>5. Follows(g, g) /\ Follows(mem, mem)
  BY <1>3, <1>4, FollowsItself
<1>6. Told(leases, acked, mem, mem, stable)
  BY <1>1 DEF LeaseInv
<1>7. Told(leases, acked, g, g, g) /\ Told(leases, acked, mem, g, stable)
  BY <1>3, <1>6, ToldOfRecord
<1> HIDE DEF g
<1>8. CASE Commit(e)
  <2>1. mem' = g /\ file' = g /\ stable' = g /\ torn' = torn /\ poisoned' = poisoned
    BY <1>2, <1>8 DEF Commit, g
  <2>2. StoreInv'
    BY <1>1, <1>4, <1>5, <2>1 DEF StoreInv
  <2> QED BY <1>1, <1>4, <1>7, <2>1, <2>2 DEF g
<1>9. CASE AppendFails(e)
  <2>1. /\ mem' = mem /\ stable' = stable /\ poisoned' = TRUE
        /\ \/ file' = file /\ torn' = torn
           \/ file' = file /\ torn' = TRUE
           \/ file' = g /\ torn' = torn
    BY <1>2, <1>9 DEF AppendFails
  <2>2. StoreInv'
    BY <1>1, <1>3, <1>4, <1>5, <2>1 DEF StoreInv
  <2>3. Told(leases, acked, mem', file', stable')
    BY <1>1, <1>6, <1>7, <2>1
  <2> QED BY <1>1, <1>5, <2>1, <2>2, <2>3 DEF g
<1> QED BY <1>8, <1>9

\* What producers were told stays true when records are added to memory.
LEMMA AcceptedOn ==
    ASSUME AcceptInv, DataOK(mem), Follows(mem, mem'),
           accepted' = accepted, powerLosses' = powerLosses
    PROVE  AcceptInv'
<1> SUFFICES ASSUME powerLosses = 0, NEW a \in accepted
             PROVE  mem'.index[a.key] = a.job /\ mem'.jobs[a.job].body = a.body
  BY DEF AcceptInv
<1>1. /\ mem.index[a.key] = a.job /\ mem.jobs[a.job].body = a.body
      /\ a.key \in Key /\ a.job # 0
  BY DEF AcceptInv, Job
<1>2. a.job \in DOMAIN mem.jobs
  BY <1>1 DEF DataOK, Indexed
<1> QED BY <1>1, <1>2 DEF Follows

\* The queue is opened on the file or on what a power loss left of it.
LEMMA OpenStep ==
    ASSUME StoreInv, LeaseInv, NEW content, NEW onDisk, Open(content, onDisk),
           \/ content = file /\ onDisk = stable
           \/ content \in {file, stable} /\ onDisk = content
    PROVE  StoreInv' /\ LeaseInv'
<1>1. /\ mem' = content /\ file' = content /\ stable' \in {content, onDisk}
      /\ torn' = FALSE /\ poisoned' = FALSE /\ leases' = leases /\ acked' = acked
  BY DEF Open, clients
<1>2. /\ DataOK(mem) /\ DataOK(file) /\ DataOK(stable)
      /\ Follows(stable, mem) /\ Follows(mem, file)
  BY DEF StoreInv
<1>3. Follows(stable, file) /\ Follows(file, file) /\ Follows(stable, stable)
  BY <1>2, FollowsOn, FollowsItself
<1>4. /\ Told(leases, acked, file, file, file) /\ Told(leases, acked, file, file, stable)
      /\ Told(leases, acked, stable, stable, stable)
  BY <1>2, <1>3, ToldAtStart DEF LeaseInv
<1>5. \/ mem' = file /\ file' = file /\ stable' = file
      \/ mem' = file /\ file' = file /\ stable' = stable
      \/ mem' = stable /\ file' = stable /\ stable' = stable
  BY <1>1
<1>6. StoreInv'
  BY <1>1, <1>2, <1>3, <1>5 DEF StoreInv
<1>7. LeaseInv'
  BY <1>1, <1>4, <1>5 DEF LeaseInv
<1> QED BY <1>6, <1>7

-----------------------------------------------------------------------------
(* The records of the requests are legal.                                    *)

LEMMA EnqueueLegal ==
    ASSUME NEW k \in Key, NEW b \in Body, mem.index[k] = 0
    PROVE  Legal(mem, Enqueued(mem.nextJob, k, b))
BY DEF Legal, LegalEnqueue

\* refresh_expired_claims takes a running claim past its deadline.
LEMMA RefreshLegal ==
    ASSUME StoreInv, OpInv, Expired(op.now) # {},
           NEW j, j = Smallest(Expired(op.now))
    PROVE  /\ j \in DOMAIN mem.jobs /\ mem.jobs[j].status = "Claimed"
           /\ mem.jobs[j].claim.deadline <= op.now
           /\ Legal(mem, Ended(j, mem.jobs[j].claim.token, Released(j)))
           /\ Released(j) \in JobStatus \ {"Claimed"}
           /\ Released(j) = "Pending" => mem.jobs[j].attempts < Limit[mem.jobs[j].body]
<1>1. mem.nextJob \in Nat /\ DOMAIN mem.jobs \subseteq 0..mem.nextJob
  BY DEF StoreInv, DataOK, DataType, Job
<1>2. Expired(op.now) \subseteq 0..mem.nextJob
  BY <1>1 DEF Expired
<1>3. j \in Expired(op.now)
  BY <1>1, <1>2, SmallestIn
<1>4. /\ j \in DOMAIN mem.jobs /\ mem.jobs[j].status = "Claimed"
      /\ mem.jobs[j].claim.deadline <= op.now
  BY <1>3, Zenon DEF Expired
<1>5. mem.jobs[j].attempts \in Nat /\ mem.jobs[j].body \in Body
  BY <1>4 DEF StoreInv, DataOK, DataType, JobRecord
<1>6. Released(j) = "Pending" => mem.jobs[j].attempts < Limit[mem.jobs[j].body]
  BY <1>5, LimitType DEF Released, Exhausted
<1>7. Released(j) \in JobStatus \ {"Claimed"}
  BY DEF Released, JobStatus
<1> QED BY <1>4, <1>6, <1>7 DEF Legal, LegalEnd

\* claim takes a pending job and the next number.
LEMMA ClaimLegal ==
    ASSUME StoreInv, OpInv, op.lease.consumer \in Consumer,
           NEW pending, pending = {i \in DOMAIN mem.jobs : mem.jobs[i].status = "Pending"},
           pending # {}, NEW j, j = Smallest(pending),
           NEW claim, claim = [consumer |-> op.lease.consumer, token |-> mem.nextClaim,
                               deadline |-> op.now + Timeout]
    PROVE  /\ j \in DOMAIN mem.jobs /\ mem.jobs[j].status = "Pending"
           /\ claim \in ClaimLease /\ claim.token = mem.nextClaim
           /\ claim.consumer \in Consumer
           /\ Legal(mem, Claimed(j, claim, mem.jobs[j].attempts + 1))
<1>1. mem.nextJob \in Nat /\ DOMAIN mem.jobs \subseteq 0..mem.nextJob
  BY DEF StoreInv, DataOK, DataType, Job
<1>2. j \in pending
  BY <1>1, SmallestIn
<1>3. mem.nextClaim \in Nat /\ op.now \in Nat
  BY DEF StoreInv, DataOK, DataType, Job, OpInv
<1>4. claim \in ClaimLease
  BY <1>3, TimeoutType DEF ClaimLease
<1> QED BY <1>2, <1>4 DEF Legal, LegalClaim

\* A report ends a claim that its lease names.
LEMMA ReportLegal ==
    ASSUME StoreInv, NEW lease, require_active_claim(lease),
           NEW s, s = "Completed" \/ s = Released(lease.job)
    PROVE  /\ lease.job \in DOMAIN mem.jobs /\ mem.jobs[lease.job].status = "Claimed"
           /\ mem.jobs[lease.job].claim.token = lease.token
           /\ s \in JobStatus \ {"Claimed"}
           /\ s = "Pending" => mem.jobs[lease.job].attempts < Limit[mem.jobs[lease.job].body]
           /\ Legal(mem, Ended(lease.job, lease.token, s))
<1>1. /\ lease.job \in DOMAIN mem.jobs /\ mem.jobs[lease.job].status = "Claimed"
      /\ mem.jobs[lease.job].claim.token = lease.token
  BY DEF require_active_claim, HasStatus
<1>2. mem.jobs[lease.job].attempts \in Nat /\ mem.jobs[lease.job].body \in Body
  BY <1>1 DEF StoreInv, DataOK, DataType, JobRecord
<1>3. s = "Pending" => mem.jobs[lease.job].attempts < Limit[mem.jobs[lease.job].body]
  BY <1>2, LimitType DEF Released, Exhausted
<1>4. s \in JobStatus \ {"Claimed"}
  BY DEF Released, JobStatus
<1> QED BY <1>1, <1>3, <1>4 DEF Legal, LegalEnd

-----------------------------------------------------------------------------
(* Every step keeps the invariant.                                           *)

LEMMA IdleOK == Idle \in [kind : {"idle"}, now : {0}, lease : NoJob]
BY DEF Idle, NoLease, NoJob

\* An operation that is idle again.
LEMMA OpIdle ==
    ASSUME OpInv, clock' = clock, op' = Idle
    PROVE  OpInv'
<1>1. op'.kind = "idle" /\ op' \in [kind : {"idle"}, now : {0}, lease : NoJob]
  BY IdleOK DEF Idle
<1>2. 0 \in 0..clock' /\ clock' \in Nat
  BY DEF OpInv
<1> QED BY <1>1, <1>2 DEF OpInv

LEMMA FailureBound ==
    ASSUME BoundInv, NEW e, Commit(e) \/ AppendFails(e) \/ AppendRefused,
           UNCHANGED crashes
    PROVE  BoundInv'
<1>1. failures' \in 0..MaxFailures
  BY QueueBounds DEF BoundInv, Commit, AppendFails, AppendRefused, log
<1> QED BY <1>1 DEF BoundInv, crashes

\* A refused append leaves everything as it is.
LEMMA RefusedStep ==
    ASSUME StoreInv, LeaseInv, AppendRefused
    PROVE  /\ StoreInv' /\ Told(leases, acked, mem', file', stable')
           /\ Follows(mem, mem') /\ file' = file
<1>1. /\ mem' = mem /\ file' = file /\ stable' = stable
      /\ torn' = torn /\ poisoned' = poisoned
  BY DEF AppendRefused, log
<1>2. Follows(mem, mem)
  BY FollowsItself DEF StoreInv
<1> QED BY <1>1, <1>2 DEF StoreInv, LeaseInv

LEMMA EnqueueKeeps ==
    ASSUME QueueInv, NEW k \in Key, NEW b \in Body, Enqueue(k, b)
    PROVE  QueueInv'
<1> USE DEF QueueInv
<1> DEFINE j == mem.nextJob
           e == Enqueued(j, k, b)
           x == [key |-> k, body |-> b, job |-> j]
<1>1. /\ op = Idle /\ mem.index[k] = 0
      /\ \/ Commit(e) /\ accepted' \in {accepted, accepted \cup {x}}
         \/ AppendFails(e) /\ accepted' = accepted
      /\ clock' = clock /\ op' = op /\ leases' = leases /\ acked' = acked
      /\ UNCHANGED crashes
  BY DEF Enqueue
<1>2. Legal(mem, e)
  BY <1>1, EnqueueLegal
<1>3. /\ DataOK(mem) /\ j \in Job /\ x \in [key : Key, body : Body, job : Job]
  BY DEF StoreInv, DataOK, DataType
<1>4. Commit(e) => mem'.index[k] = j /\ mem'.jobs[j].body = b
  <2>1. Commit(e) => mem' = apply_event(mem, e)
    BY DEF Commit
  <2> QED BY <1>1, <1>3, <2>1, EnqueuedKeeps
<1>5. x.key = k /\ x.job = j /\ x.body = b
  OBVIOUS
<1> HIDE DEF e, x, j
<1>6. /\ StoreInv' /\ Told(leases, acked, mem', file', stable')
      /\ Follows(mem, mem')
  BY <1>1, <1>2, RecordStep
<1>7. LeaseInv'
  BY <1>1, <1>6 DEF LeaseInv
<1>8. OpInv'
  BY <1>1 DEF OpInv
<1>9. BoundInv'
  BY <1>1, FailureBound
<1>10. AcceptInv'
  <2> DEFINE P(a) == mem'.index[a.key] = a.job /\ mem'.jobs[a.job].body = a.body
  <2>1. powerLosses' = powerLosses
    BY <1>1 DEF crashes
  <2>2. powerLosses = 0 => \A a \in accepted : P(a)
    <3> SUFFICES ASSUME powerLosses = 0, NEW a \in accepted PROVE P(a)
      OBVIOUS
    <3>1. /\ mem.index[a.key] = a.job /\ mem.jobs[a.job].body = a.body
          /\ a.key \in Key /\ a.job # 0
      BY DEF AcceptInv, Job
    <3>2. a.job \in DOMAIN mem.jobs
      BY <1>3, <3>1 DEF DataOK, Indexed
    <3> QED BY <1>6, <3>1, <3>2 DEF Follows
  <2>3. Commit(e) => P(x)
    BY <1>4, <1>5
  <2> HIDE DEF P
  <2>4. powerLosses' = 0 => \A a \in accepted' : P(a)
    BY <1>1, <2>1, <2>2, <2>3
  <2>5. accepted' \subseteq [key : Key, body : Body, job : Job]
    BY <1>1, <1>3 DEF AcceptInv
  <2> QED BY <2>4, <2>5 DEF AcceptInv, P
<1> QED BY <1>6, <1>7, <1>8, <1>9, <1>10

LEMMA EnqueueAgainKeeps ==
    ASSUME QueueInv, NEW k \in Key, NEW b \in Body, EnqueueAgain(k, b)
    PROVE  QueueInv'
<1> USE DEF QueueInv
<1> DEFINE j == mem.index[k]
           x == [key |-> k, body |-> b, job |-> j]
<1>1. /\ j # 0 /\ mem.jobs[j].body = b
      /\ accepted' = accepted \cup {x}
      /\ UNCHANGED <<mem, log, clock, op, leases, acked, crashes>>
  BY DEF EnqueueAgain
<1>2. j \in Job
  BY <1>1 DEF StoreInv, DataOK, DataType, Job
<1>3. x \in [key : Key, body : Body, job : Job]
  BY <1>2
<1>4. mem.index[x.key] = x.job /\ mem.jobs[x.job].body = x.body
  BY <1>1
<1> HIDE DEF x
<1>5. AcceptInv'
  BY <1>1, <1>3, <1>4 DEF AcceptInv, crashes
<1> QED BY <1>1, <1>5 DEF StoreInv, OpInv, BoundInv, LeaseInv, log, crashes

\* A request takes the mutex.
LEMMA BeginKeeps ==
    ASSUME QueueInv, NEW kind \in {"claim", "read", "ack", "fail"}, NEW now \in 0..clock,
           NEW lease \in Lease \cup NoJob, Begin(kind, now, lease),
           kind \in {"ack", "fail"} => lease \in leases,
           kind = "claim" => lease.consumer \in Consumer
    PROVE  QueueInv'
<1> USE DEF QueueInv
<1>1. /\ op' = [kind |-> kind, now |-> now, lease |-> lease]
      /\ UNCHANGED <<mem, log, clock, clients, crashes>>
  BY DEF Begin
<1>2. OpInv'
  BY <1>1 DEF OpInv, clients
<1> QED BY <1>1, <1>2 DEF StoreInv, BoundInv, LeaseInv, AcceptInv, log, crashes, clients

LEMMA BeginsKeep ==
    ASSUME QueueInv,
           \/ \E c \in Consumer : BeginClaim(c)
           \/ BeginRead
           \/ \E kind \in {"ack", "fail"} : BeginReport(kind)
    PROVE  QueueInv'
<1>1. CASE \E c \in Consumer : BeginClaim(c)
  <2>1. PICK c \in Consumer, now \in 0..clock :
            Begin("claim", now, [NoLease EXCEPT !.consumer = c])
    BY <1>1 DEF BeginClaim
  <2>2. /\ [NoLease EXCEPT !.consumer = c] \in NoJob
        /\ [NoLease EXCEPT !.consumer = c].consumer = c
    BY DEF NoLease, NoJob
  <2> QED BY <2>1, <2>2, BeginKeeps
<1>2. CASE BeginRead
  <2>1. PICK now \in 0..clock : Begin("read", now, NoLease)
    BY <1>2 DEF BeginRead
  <2>2. NoLease \in NoJob
    BY DEF NoLease, NoJob
  <2> QED BY <2>1, <2>2, BeginKeeps
<1>3. CASE \E kind \in {"ack", "fail"} : BeginReport(kind)
  <2>1. PICK kind \in {"ack", "fail"}, now \in 0..clock, lease \in leases :
            Begin(kind, now, lease)
    BY <1>3 DEF BeginReport
  <2>2. lease \in Lease
    BY DEF QueueInv, LeaseInv, Told
  <2> QED BY <2>1, <2>2, BeginKeeps
<1> QED BY <1>1, <1>2, <1>3

\* A step that writes a record, or fails to, and tells no client of it.
LEMMA UntoldKeeps ==
    ASSUME QueueInv, NEW e, Legal(mem, e),
           Commit(e) \/ AppendFails(e) \/ AppendRefused,
           op' = op \/ op' = Idle, UNCHANGED <<clock, clients, crashes>>
    PROVE  QueueInv'
<1> USE DEF QueueInv
<1>1. /\ StoreInv' /\ Told(leases, acked, mem', file', stable')
      /\ Follows(mem, mem')
  BY RecordStep, RefusedStep
<1>2. /\ clock' = clock /\ accepted' = accepted /\ leases' = leases
      /\ acked' = acked /\ powerLosses' = powerLosses
  BY DEF clients, crashes
<1>3. LeaseInv'
  BY <1>1, <1>2 DEF LeaseInv
<1>4. OpInv'
  <2>1. CASE op' = op
    BY <1>2, <2>1 DEF OpInv
  <2>2. CASE op' = Idle
    BY <1>2, <2>2, OpIdle
  <2> QED BY <2>1, <2>2
<1>5. BoundInv'
  BY FailureBound
<1>6. AcceptInv'
  BY <1>1, <1>2, AcceptedOn DEF StoreInv
<1> QED BY <1>1, <1>3, <1>4, <1>5, <1>6

LEMMA RefreshKeeps ==
    ASSUME QueueInv, RefreshExpiredClaim
    PROVE  QueueInv'
<1> DEFINE j == Smallest(Expired(op.now))
           e == Ended(j, mem.jobs[j].claim.token, Released(j))
<1>1. /\ Expired(op.now) # {}
      /\ \/ Commit(e) /\ op' = op
         \/ (AppendFails(e) \/ AppendRefused) /\ op' = Idle
      /\ UNCHANGED <<clock, clients, crashes>>
  BY DEF RefreshExpiredClaim
<1>2. Legal(mem, e)
  BY <1>1, RefreshLegal DEF QueueInv
<1> QED BY <1>1, <1>2, UntoldKeeps

LEMMA FailKeeps ==
    ASSUME QueueInv, Fail
    PROVE  QueueInv'
<1> DEFINE e == Ended(op.lease.job, op.lease.token, Released(op.lease.job))
<1>1. /\ require_active_claim(op.lease)
      /\ Commit(e) \/ AppendFails(e) \/ AppendRefused
      /\ op' = Idle /\ UNCHANGED <<clock, clients, crashes>>
  BY DEF Fail
<1>2. Legal(mem, e)
  BY <1>1, ReportLegal DEF QueueInv
<1> QED BY <1>1, <1>2, UntoldKeeps

LEMMA ClaimKeeps ==
    ASSUME QueueInv, Claim
    PROVE  QueueInv'
<1> USE DEF QueueInv
<1> DEFINE pending == {i \in DOMAIN mem.jobs : mem.jobs[i].status = "Pending"}
           j == Smallest(pending)
           claim == [consumer |-> op.lease.consumer, token |-> mem.nextClaim,
                     deadline |-> op.now + Timeout]
           e == Claimed(j, claim, mem.jobs[j].attempts + 1)
           x == [job |-> j, token |-> claim.token, consumer |-> claim.consumer]
<1>1. /\ op.kind = "claim" /\ pending # {}
      /\ \/ Commit(e) /\ leases' \in {leases, leases \cup {x}}
         \/ (AppendFails(e) \/ AppendRefused) /\ leases' = leases
      /\ op' = Idle /\ UNCHANGED <<clock, accepted, acked, crashes>>
  BY DEF Claim, Refreshed
<1>2. /\ j \in DOMAIN mem.jobs /\ mem.jobs[j].status = "Pending"
      /\ claim \in ClaimLease /\ claim.token = mem.nextClaim
      /\ claim.consumer \in Consumer /\ Legal(mem, e)
  <2>1. op.lease.consumer \in Consumer
    BY <1>1 DEF OpInv
  <2> QED BY <1>1, <2>1, ClaimLegal
<1>3. /\ DataOK(mem) /\ DataOK(stable) /\ Follows(stable, mem)
  BY DEF StoreInv
<1>4. Commit(e) => Told(leases \cup {x}, acked, mem', file', stable')
  <2> SUFFICES ASSUME Commit(e) PROVE Told(leases \cup {x}, acked, mem', file', stable')
    OBVIOUS
  <2>1. file = mem /\ torn = FALSE
    BY DEF Commit, StoreInv
  <2>2. mem' = apply_event(mem, e) /\ file' = mem' /\ stable' = mem'
    BY <2>1 DEF Commit, Written
  <2>3. Told(leases, acked, mem, mem, stable)
    BY <2>1 DEF LeaseInv
  <2>4. Told(leases \cup {x}, acked, apply_event(mem, e), apply_event(mem, e),
             apply_event(mem, e))
    BY <1>2, <1>3, <2>3, ToldOfClaim
  <2> QED BY <2>2, <2>4, Zenon
<1> HIDE DEF pending, j, claim, e, x
<1>5. /\ StoreInv' /\ Told(leases, acked, mem', file', stable')
      /\ Follows(mem, mem')
  BY <1>1, <1>2, RecordStep, RefusedStep
<1>6. LeaseInv'
  BY <1>1, <1>4, <1>5 DEF LeaseInv
<1>7. OpInv'
  BY <1>1, OpIdle
<1>8. BoundInv'
  BY <1>1, FailureBound
<1>9. AcceptInv'
  BY <1>1, <1>3, <1>5, AcceptedOn DEF crashes
<1> QED BY <1>5, <1>6, <1>7, <1>8, <1>9

LEMMA AcknowledgeKeeps ==
    ASSUME QueueInv, Acknowledge
    PROVE  QueueInv'
<1> USE DEF QueueInv
<1> DEFINE a == op.lease
           e == Ended(a.job, a.token, "Completed")
<1>1. /\ op.kind = "ack" /\ require_active_claim(a)
      /\ \/ Commit(e) /\ acked' \in {acked, acked \cup {a}}
         \/ (AppendFails(e) \/ AppendRefused) /\ acked' = acked
      /\ op' = Idle /\ UNCHANGED <<clock, accepted, leases, crashes>>
  BY DEF Acknowledge, Refreshed
<1>2. /\ a.job \in DOMAIN mem.jobs /\ mem.jobs[a.job].status = "Claimed"
      /\ mem.jobs[a.job].claim.token = a.token
      /\ Legal(mem, e)
  BY <1>1, ReportLegal
<1>3. DataOK(mem) /\ a \in leases
  BY <1>1 DEF StoreInv, OpInv
<1>4. \A l \in leases : l.job = a.job => l.token <= a.token
  BY <1>2 DEF LeaseInv, Told, Knows
<1>5. Commit(e) => HasStatus(mem', a.job, "Completed") /\ file' = mem' /\ stable' = mem'
  <2> SUFFICES ASSUME Commit(e)
               PROVE  HasStatus(mem', a.job, "Completed") /\ file' = mem' /\ stable' = mem'
    OBVIOUS
  <2>1. file = mem /\ torn = FALSE
    BY DEF Commit, StoreInv
  <2>2. mem' = apply_event(mem, e) /\ file' = mem' /\ stable' = mem'
    BY <2>1 DEF Commit, Written
  <2>3. e = Ended(a.job, mem.jobs[a.job].claim.token, "Completed")
    BY <1>2
  <2>4. "Completed" \in JobStatus \ {"Claimed"}
    BY DEF JobStatus
  <2>5. mem'.jobs[a.job].status = "Completed" /\ DOMAIN mem'.jobs = DOMAIN mem.jobs
    BY <1>2, <1>3, <2>2, <2>3, <2>4, EndedKeeps
  <2> QED BY <1>2, <2>2, <2>5 DEF HasStatus
<1> HIDE DEF a, e
<1>6. /\ StoreInv' /\ Told(leases, acked, mem', file', stable')
      /\ Follows(mem, mem')
  BY <1>1, <1>2, RecordStep, RefusedStep
<1>7. Commit(e) => Told(leases, acked \cup {a}, mem', file', stable')
  BY <1>3, <1>4, <1>5, <1>6, ToldOfAck
<1>8. LeaseInv'
  BY <1>1, <1>6, <1>7 DEF LeaseInv
<1>9. OpInv'
  BY <1>1, OpIdle
<1>10. BoundInv'
  BY <1>1, FailureBound
<1>11. AcceptInv'
  BY <1>1, <1>3, <1>6, AcceptedOn DEF crashes
<1> QED BY <1>6, <1>8, <1>9, <1>10, <1>11

\* The operation ends, or time passes.
LEMMA QuietKeeps ==
    ASSUME QueueInv, Finish \/ Tick
    PROVE  QueueInv'
<1> USE DEF QueueInv
<1>1. CASE Finish
  <2>1. op' = Idle /\ UNCHANGED <<mem, log, clock, clients, crashes>>
    BY <1>1 DEF Finish
  <2>2. OpInv'
    BY <2>1, OpIdle
  <2> QED BY <2>1, <2>2 DEF StoreInv, BoundInv, LeaseInv, AcceptInv, log, crashes, clients
<1>2. CASE Tick
  <2>1. clock' = clock + 1 /\ UNCHANGED <<mem, log, op, clients, crashes>>
    BY <1>2 DEF Tick
  <2>2. OpInv'
    <3>1. 0..clock \subseteq 0..clock' /\ clock' \in Nat
      BY <2>1 DEF OpInv
    <3> QED BY <2>1, <3>1 DEF OpInv, clients
  <2> QED BY <2>1, <2>2 DEF StoreInv, BoundInv, LeaseInv, AcceptInv, log, crashes, clients
<1> QED BY <1>1, <1>2

LEMMA StartKeeps ==
    ASSUME QueueInv, Restart \/ PowerLoss
    PROVE  QueueInv'
<1> USE DEF QueueInv
<1>1. CASE Restart
  <2>1. /\ Open(file, stable) /\ powerLosses' = powerLosses
        /\ restarts' = IF poisoned THEN restarts ELSE restarts + 1
        /\ poisoned \/ restarts < MaxRestarts
    BY <1>1 DEF Restart
  <2>2. /\ mem' = file /\ op' = Idle /\ clock' = clock /\ accepted' = accepted
        /\ failures' = failures
    BY <2>1 DEF Open, clients
  <2>3. StoreInv' /\ LeaseInv'
    BY <2>1, OpenStep
  <2>4. OpInv'
    BY <2>2, OpIdle
  <2>5. BoundInv'
    BY <2>1, <2>2, QueueBounds DEF BoundInv
  <2>6. AcceptInv'
    BY <2>1, <2>2, AcceptedOn DEF StoreInv
  <2> QED BY <2>3, <2>4, <2>5, <2>6
<1>2. CASE PowerLoss
  <2>1. PICK content \in {file, stable} : Open(content, content)
    BY <1>2 DEF PowerLoss
  <2>2. /\ powerLosses < MaxPowerLosses /\ powerLosses' = powerLosses + 1
        /\ restarts' = restarts
    BY <1>2 DEF PowerLoss
  <2>3. /\ op' = Idle /\ clock' = clock /\ accepted' = accepted
        /\ failures' = failures
    BY <2>1 DEF Open, clients
  <2>4. StoreInv' /\ LeaseInv'
    BY <2>1, OpenStep
  <2>5. OpInv'
    BY <2>3, OpIdle
  <2>6. BoundInv' /\ powerLosses' # 0
    BY <2>2, <2>3, QueueBounds DEF BoundInv
  <2>7. AcceptInv'
    BY <2>3, <2>6 DEF AcceptInv
  <2> QED BY <2>4, <2>5, <2>6, <2>7
<1> QED BY <1>1, <1>2

LEMMA QueueNext ==
    ASSUME QueueInv, [Next]_vars
    PROVE  QueueInv'
<1>1. CASE Next
  BY <1>1, EnqueueAgainKeeps, EnqueueKeeps, BeginsKeep, RefreshKeeps, ClaimKeeps,
     AcknowledgeKeeps, FailKeeps, QuietKeeps, StartKeeps DEF Next
<1>2. CASE UNCHANGED vars
  <2>1. UNCHANGED <<mem, log, clock, op, clients, crashes>>
    BY <1>2 DEF vars
  <2> QED BY <2>1 DEF QueueInv, StoreInv, OpInv, BoundInv, LeaseInv, AcceptInv,
                      log, crashes, clients
<1> QED BY <1>1, <1>2

LEMMA QueueInvariant == Spec => []QueueInv
<1>1. Init => QueueInv
  BY QueueInit
<1>2. QueueInv /\ [Next]_vars => QueueInv'
  BY QueueNext
<1> QED BY <1>1, <1>2, PTL DEF Spec

-----------------------------------------------------------------------------
(* The theorems.                                                             *)

LEMMA QueueTyped ==
    ASSUME NEW d \in {mem, file, stable}, DataOK(d)
    PROVE  d \in QueueData
<1>1. /\ d \in [jobs : {d.jobs}, index : [Key -> Nat], nextJob : Job,
                nextClaim : Job, count : [JobStatus -> Nat], valid : {TRUE}]
      /\ d.jobs \in [DOMAIN d.jobs -> JobRecord]
      /\ DOMAIN d.jobs \subseteq 1..(d.nextJob - 1)
  BY DEF DataOK, DataType
<1>2. DOMAIN d.jobs \subseteq Job
  BY <1>1 DEF Job
<1>3. d.jobs \in {q.jobs : q \in {mem, file, stable}}
  OBVIOUS
<1>4. d \in [jobs : {q.jobs : q \in {mem, file, stable}}, index : [Key -> Nat],
             nextJob : Job, nextClaim : Job, count : [JobStatus -> Nat], valid : BOOLEAN]
  BY <1>1, <1>3
<1> QED BY <1>1, <1>2, <1>4 DEF QueueData

LEMMA BooksOf ==
    ASSUME NEW d, DataOK(d)
    PROVE  /\ \A k \in Key, j \in 1..d.nextJob :
                 d.index[k] = j <=> j \in DOMAIN d.jobs /\ d.jobs[j].key = k
           /\ \A s \in JobStatus :
                 d.count[s] = Cardinality({j \in DOMAIN d.jobs : d.jobs[j].status = s})
           /\ \A j \in DOMAIN d.jobs :
                 IF d.jobs[j].status = "Claimed"
                 THEN d.jobs[j].claim.token \in 1..(d.nextClaim - 1)
                 ELSE d.jobs[j].claim = NoClaim
<1>1. \A s \in JobStatus :
         d.count[s] = Cardinality({j \in DOMAIN d.jobs : d.jobs[j].status = s})
  BY DEF DataOK, Fitting, OfStatus
<1>2. \A j \in DOMAIN d.jobs :
         IF d.jobs[j].status = "Claimed"
         THEN d.jobs[j].claim.token \in 1..(d.nextClaim - 1)
         ELSE d.jobs[j].claim = NoClaim
  BY DEF DataOK, Fitting, JobFits
<1>3. ASSUME NEW k \in Key, NEW j \in 1..d.nextJob
      PROVE  d.index[k] = j <=> j \in DOMAIN d.jobs /\ d.jobs[j].key = k
  <2>1. j # 0
    BY DEF DataOK, DataType, Job
  <2> QED BY <2>1 DEF DataOK, Indexed
<1> QED BY <1>1, <1>2, <1>3

LEMMA QueueInvImplies ==
    ASSUME QueueInv
    PROVE  LogIsTheQueue /\ PromisesKept
<1> USE DEF QueueInv
<1>1. /\ DataOK(mem) /\ DataOK(file) /\ DataOK(stable)
      /\ Follows(stable, mem) /\ Follows(mem, file)
  BY DEF StoreInv
<1>2. TypeOK
  <2>1. mem \in QueueData /\ file \in QueueData /\ stable \in QueueData
    BY <1>1, QueueTyped
  <2>2. /\ clock \in Nat /\ op.kind \in {"idle", "claim", "read", "ack", "fail"}
        /\ op.now \in 0..clock
        /\ op.lease \in Lease \cup [job : {0}, token : {0}, consumer : Consumer \cup {Nobody}]
    BY DEF OpInv, NoJob
  <2>3. leases \subseteq Lease /\ acked \subseteq leases
    BY DEF LeaseInv, Told
  <2>4. accepted \subseteq [key : Key, body : Body, job : Job]
    BY DEF AcceptInv
  <2> QED BY <2>1, <2>2, <2>3, <2>4 DEF TypeOK, StoreInv, BoundInv
<1>3. LogReopens
  BY <1>1 DEF LogReopens, DataOK, DataType
<1>4. MemoryFollowsFile
  BY <1>1 DEF MemoryFollowsFile, StoreInv, Follows
<1>5. BooksAgree
  BY <1>1, BooksOf DEF BooksAgree
<1>6. TokensUnique
  BY DEF TokensUnique, LeaseInv, Told
<1>7. AckedIsFinal
  BY DEF AckedIsFinal, LeaseInv, Told
<1>8. DeliveriesBounded
  <2> SUFFICES ASSUME NEW j \in DOMAIN stable.jobs
               PROVE  Cardinality({l \in leases : l.job = j}) <= Limit[stable.jobs[j].body]
    BY DEF DeliveriesBounded
  <2>1. Cardinality(Deliveries(leases, j)) <= stable.jobs[j].attempts
    BY DEF LeaseInv, Told
  <2>2. /\ stable.jobs[j].attempts \in Nat /\ stable.jobs[j].body \in Body
        /\ stable.jobs[j].attempts <= Limit[stable.jobs[j].body]
    BY <1>1 DEF DataOK, DataType, JobRecord, Fitting, JobFits
  <2>3. Cardinality(Deliveries(leases, j)) \in Nat
    <3>1. Deliveries(leases, j) \in SUBSET leases /\ IsFiniteSet(leases)
      BY DEF Deliveries, LeaseInv, Told
    <3>2. IsFiniteSet(Deliveries(leases, j))
      BY <3>1, FS_Subset
    <3> QED BY <3>2, FS_CardinalityType
  <2>4. Cardinality(Deliveries(leases, j)) <= Limit[stable.jobs[j].body]
    BY <2>1, <2>2, <2>3, LimitType
  <2> QED BY <2>4 DEF Deliveries
<1>9. KeyNamesOneJob
  <2> SUFFICES ASSUME powerLosses = 0, NEW a \in accepted, NEW b \in accepted,
                      a.key = b.key
               PROVE  a = b
    BY DEF KeyNamesOneJob
  <2>1. /\ a \in [key : Key, body : Body, job : Job]
        /\ b \in [key : Key, body : Body, job : Job]
        /\ a.job = b.job /\ a.body = b.body
    BY DEF AcceptInv
  <2> QED BY <2>1
<1> QED BY <1>2, <1>3, <1>4, <1>5, <1>6, <1>7, <1>8, <1>9
        DEF LogIsTheQueue, PromisesKept

\* The log is the queue: whatever fails and whenever the process dies, the file
\* can be opened again, memory is what a replay gives until an append fails
\* and never ahead of the file, and index, gauges and claims fit the jobs.
THEOREM LogIsQueue == Spec => []LogIsTheQueue
BY QueueInvariant, QueueInvImplies, PTL

\* What clients were told stays true: a claim number is given out once, an
\* answered acknowledgement is final, a job is delivered at most max_attempts
\* times, and a key names one job until the machine loses its power.
THEOREM PromisesHold == Spec => []PromisesKept
BY QueueInvariant, QueueInvImplies, PTL

\* A claim that the file holds ends in a record only at its deadline or by a
\* report of the consumer that holds it.
LEMMA RecordHonours ==
    ASSUME StoreInv, LeaseInv, NEW e, Legal(mem, e), Commit(e) \/ AppendFails(e),
           NEW l \in leases, HasStatus(file, l.job, "Claimed"),
           LegalEnd(mem, e) => e.job # l.job
    PROVE  HasStatus(file', l.job, "Claimed") /\ file'.jobs[l.job] = file.jobs[l.job]
<1>1. mem = file /\ (file' = file \/ file' = apply_event(mem, e)) /\ DataOK(mem)
  BY RecordStep DEF StoreInv
<1>2. l.job \in DOMAIN mem.jobs /\ mem.jobs[l.job].status = "Claimed"
  BY <1>1 DEF HasStatus
<1>3. CASE file' = file
  BY <1>3
<1>4. CASE file' = apply_event(mem, e)
  <2> DEFINE g == apply_event(mem, e)
  <2>1. g.jobs[l.job] = mem.jobs[l.job]
    <3>1. CASE LegalEnqueue(mem, e)
      <4>1. PICK k \in Key, b \in Body : e = Enqueued(mem.nextJob, k, b) /\ mem.index[k] = 0
        BY <3>1 DEF LegalEnqueue
      <4> QED BY <1>1, <1>2, <4>1, EnqueuedKeeps
    <3>2. CASE LegalClaim(mem, e)
      <4>1. PICK j \in DOMAIN mem.jobs, claim \in ClaimLease :
                /\ e = Claimed(j, claim, mem.jobs[j].attempts + 1)
                /\ mem.jobs[j].status = "Pending" /\ claim.token = mem.nextClaim
        BY <3>2 DEF LegalClaim
      <4> QED BY <1>1, <1>2, <4>1, ClaimedKeeps
    <3>3. CASE LegalEnd(mem, e)
      <4>1. PICK j \in DOMAIN mem.jobs, s \in JobStatus \ {"Claimed"} :
                /\ e = Ended(j, mem.jobs[j].claim.token, s)
                /\ mem.jobs[j].status = "Claimed"
                /\ s = "Pending" => mem.jobs[j].attempts < Limit[mem.jobs[j].body]
        BY <3>3 DEF LegalEnd
      <4>2. e.job = j
        BY <4>1 DEF Ended
      <4> QED BY <1>1, <1>2, <3>3, <4>1, <4>2, EndedKeeps
    <3> QED BY <3>1, <3>2, <3>3 DEF Legal
  <2>2. l.job \in DOMAIN g.jobs
    BY <1>1, <1>2, LegalKeeps DEF Follows
  <2> HIDE DEF g
  <2> QED BY <1>1, <1>2, <1>4, <2>1, <2>2 DEF HasStatus, g
<1> QED BY <1>1, <1>3, <1>4

\* A running claim that a consumer was given is on stable storage.
LEMMA StartHonours ==
    ASSUME StoreInv, LeaseInv, Restart \/ PowerLoss, NEW l \in leases,
           HasStatus(file, l.job, "Claimed"), file.jobs[l.job].claim.token = l.token
    PROVE  HasStatus(file', l.job, "Claimed") /\ file'.jobs[l.job] = file.jobs[l.job]
<1>1. file' \in {file, stable}
  BY DEF Restart, PowerLoss, Open
<1>2. stable.jobs[l.job] = file.jobs[l.job] /\ l.job \in DOMAIN stable.jobs
  BY DEF LeaseInv, Told, Active, HasStatus, Knows
<1> QED BY <1>1, <1>2 DEF HasStatus

\* A report takes the claim of its own lease.
LEMMA ReportHonours ==
    ASSUME QueueInv, op.kind \in {"ack", "fail"}, require_active_claim(op.lease),
           NEW l \in leases, op.lease # l, mem.jobs[l.job].claim.token = l.token
    PROVE  op.lease.job # l.job
<1>1. op.lease \in leases
  BY DEF QueueInv, OpInv
<1>2. op.lease.token # l.token
  BY <1>1 DEF QueueInv, LeaseInv, Told
<1> QED BY <1>2 DEF require_active_claim

LEMMA StepHonours ==
    ASSUME QueueInv, Next, NEW l \in leases,
           HasStatus(file, l.job, "Claimed"), file.jobs[l.job].claim.token = l.token,
           file.jobs[l.job].claim.deadline > clock, op.lease # l
    PROVE  HasStatus(file', l.job, "Claimed")
           /\ file'.jobs[l.job].claim = file.jobs[l.job].claim
<1> USE DEF QueueInv
<1> DEFINE Honoured == HasStatus(file', l.job, "Claimed")
                       /\ file'.jobs[l.job] = file.jobs[l.job]
<1> SUFFICES Honoured
  OBVIOUS
<1>1. file' = file => Honoured
  OBVIOUS
<1>2. ~poisoned => file = mem
  BY DEF StoreInv
<1> HIDE DEF Honoured
<1>3. ASSUME NEW e, Legal(mem, e), Commit(e) \/ AppendFails(e),
             LegalEnd(mem, e) => e.job # l.job
      PROVE  Honoured
  BY <1>3, RecordHonours DEF Honoured
<1>4. ASSUME NEW k \in Key, NEW b \in Body, Enqueue(k, b) PROVE Honoured
  <2>1. /\ mem.index[k] = 0
        /\ \/ Commit(Enqueued(mem.nextJob, k, b))
           \/ AppendFails(Enqueued(mem.nextJob, k, b))
    BY <1>4 DEF Enqueue
  <2>2. ~LegalEnd(mem, Enqueued(mem.nextJob, k, b))
    BY DEF LegalEnd, Enqueued, Ended
  <2> QED BY <1>3, <2>1, <2>2, EnqueueLegal
<1>5. CASE RefreshExpiredClaim
  <2> DEFINE j == Smallest(Expired(op.now))
             e == Ended(j, mem.jobs[j].claim.token, Released(j))
  <2>1. /\ Expired(op.now) # {}
        /\ Commit(e) \/ AppendFails(e) \/ AppendRefused
    BY <1>5 DEF RefreshExpiredClaim
  <2>2. /\ j \in DOMAIN mem.jobs /\ mem.jobs[j].claim.deadline <= op.now
        /\ Legal(mem, e) /\ e.job = j
    BY <2>1, RefreshLegal DEF Ended
  <2>3. CASE AppendRefused
    BY <1>1, <2>3 DEF AppendRefused, log
  <2>4. CASE Commit(e) \/ AppendFails(e)
    <3>1. file = mem
      BY <1>2, <2>4 DEF Commit, AppendFails
    <3>2. op.now <= clock /\ op.now \in Nat /\ clock \in Nat
      BY DEF OpInv
    <3>3. mem.jobs[j].claim.deadline \in Nat
      BY <2>2 DEF StoreInv, DataOK, DataType, JobRecord, ClaimLease
    <3>4. e.job # l.job
      BY <2>2, <3>1, <3>2, <3>3
    <3> HIDE DEF e
    <3> QED BY <1>3, <2>2, <2>4, <3>4
  <2> QED BY <2>1, <2>3, <2>4
<1>6. CASE Claim
  <2> DEFINE pending == {i \in DOMAIN mem.jobs : mem.jobs[i].status = "Pending"}
             j == Smallest(pending)
             claim == [consumer |-> op.lease.consumer, token |-> mem.nextClaim,
                       deadline |-> op.now + Timeout]
             e == Claimed(j, claim, mem.jobs[j].attempts + 1)
  <2>1. /\ op.kind = "claim" /\ pending # {}
        /\ Commit(e) \/ AppendFails(e) \/ AppendRefused
    BY <1>6 DEF Claim, Refreshed
  <2>2. Legal(mem, e)
    <3>1. op.lease.consumer \in Consumer
      BY <2>1 DEF OpInv
    <3> QED BY <2>1, <3>1, ClaimLegal
  <2>3. ~LegalEnd(mem, e)
    BY DEF LegalEnd, Claimed, Ended
  <2> HIDE DEF e
  <2>4. CASE AppendRefused
    BY <1>1, <2>4 DEF AppendRefused, log
  <2> QED BY <1>3, <2>1, <2>2, <2>3, <2>4
<1>7. ASSUME NEW s, s = "Completed" \/ s = Released(op.lease.job),
             op.kind \in {"ack", "fail"}, require_active_claim(op.lease),
             \/ Commit(Ended(op.lease.job, op.lease.token, s))
             \/ AppendFails(Ended(op.lease.job, op.lease.token, s))
             \/ AppendRefused
      PROVE  Honoured
  <2> DEFINE e == Ended(op.lease.job, op.lease.token, s)
  <2>1. Legal(mem, e) /\ e.job = op.lease.job
    BY <1>7, ReportLegal DEF Ended
  <2>2. CASE AppendRefused
    BY <1>1, <2>2 DEF AppendRefused, log
  <2>3. CASE Commit(e) \/ AppendFails(e)
    <3>1. file = mem
      BY <1>2, <2>3 DEF Commit, AppendFails
    <3>2. e.job # l.job
      BY <1>7, <2>1, <3>1, ReportHonours
    <3> HIDE DEF e
    <3> QED BY <1>3, <2>1, <2>3, <3>2
  <2> QED BY <1>7, <2>2, <2>3
<1>8. CASE Acknowledge
  BY <1>7, <1>8 DEF Acknowledge, Refreshed
<1>9. CASE Fail
  BY <1>7, <1>9 DEF Fail, Refreshed
<1>10. CASE Restart \/ PowerLoss
  BY <1>10, StartHonours DEF Honoured
<1>11. CASE \/ \E k \in Key, b \in Body : EnqueueAgain(k, b)
            \/ \E c \in Consumer : BeginClaim(c)
            \/ BeginRead
            \/ \E kind \in {"ack", "fail"} : BeginReport(kind)
            \/ Finish \/ Tick
  <2>1. file' = file
    BY <1>11 DEF EnqueueAgain, BeginClaim, BeginRead, BeginReport, Begin, Finish, Tick, log
  <2> QED BY <1>1, <2>1
<1> QED BY <1>4, <1>5, <1>6, <1>8, <1>9, <1>10, <1>11 DEF Next

\* A consumer keeps its claim until the deadline unless it reports it: no record
\* of another request and no crash ends it earlier.
THEOREM LeasesHonoured == Spec => LeaseHonoured
<1> DEFINE A == \A l \in leases :
                  LET claim == file.jobs[l.job].claim
                  IN /\ HasStatus(file, l.job, "Claimed")
                     /\ claim.token = l.token
                     /\ claim.deadline > clock
                     /\ op.lease # l
                     => HasStatus(file', l.job, "Claimed")
                        /\ file'.jobs[l.job].claim = claim
<1>1. QueueInv /\ [Next]_vars => [A]_vars
  BY StepHonours
<1>2. Spec => [][A]_vars
  BY <1>1, QueueInvariant, PTL DEF Spec
<1> QED BY <1>2 DEF LeaseHonoured
=============================================================================
