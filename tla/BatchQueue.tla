----------------------------- MODULE BatchQueue -----------------------------
(***************************************************************************)
(* The durable batch queue: batch-queue/src/store.rs and wal.rs.  Each     *)
(* transition is appended to the write-ahead log and synced, then applied  *)
(* to memory, then answered, all under one mutex.  A request is an         *)
(* operation that holds the mutex, first resolves the claims that have     *)
(* expired, one synced record each, and then does its own transition.      *)
(*                                                                         *)
(* The log is represented by the queue state that replaying its complete   *)
(* records gives: `file` for what a process that opens it reads, `stable`  *)
(* for what a power loss is sure to leave.  An append may fail at the      *)
(* write or at the sync, the process may die and the machine may lose      *)
(* power at any moment, answers may be lost, and consumers may use a claim *)
(* they were once given at any later time.  The name of the log in its     *)
(* directory is taken to be stable: Wal::open creates the file and never   *)
(* syncs the directory, so a power loss before that could lose all of it.  *)
(*                                                                         *)
(* now_ms() is read before the mutex is taken, so an operation may run     *)
(* with any earlier time.  Time matters only to claims: the clock moves    *)
(* only while one is running.                                              *)
(***************************************************************************)
EXTENDS Integers, FiniteSets

CONSTANTS
    Key,              \* idempotency keys
    Body,             \* payload and max_attempts of a request
    Limit,            \* Limit[b]: max_attempts of body b
    Consumer,
    Nobody,           \* no active claim
    Timeout,          \* visibility timeout of every claim
    MaxFailures,      \* bound: failed appends
    MaxRestarts,      \* bound: restarts of a healthy process
    MaxPowerLosses    \* bound: power losses

ASSUME LimitType == Limit \in [Body -> Nat \ {0}]
ASSUME NobodyType == Nobody \notin Consumer
ASSUME TimeoutType == Timeout \in Nat \ {0}
ASSUME QueueBounds == /\ MaxFailures \in Nat /\ MaxRestarts \in Nat
                      /\ MaxPowerLosses \in Nat

VARIABLES
    mem,      \* QueueData of the running process
    file,     \* replay of the complete records in the file
    stable,   \* replay of the records known to be on stable storage
    torn,     \* the file ends in an incomplete record
    poisoned, \* an append has failed since the log was opened
    clock,
    op,       \* the operation holding the mutex
    accepted, \* history: enqueue answers that reached a producer
    leases,   \* claims that reached a consumer
    acked,    \* history: claims whose acknowledgement was answered
    failures, restarts, powerLosses

log     == <<file, stable, torn, poisoned, failures>>
clients == <<accepted, leases, acked>>
crashes == <<restarts, powerLosses>>
vars == <<mem, log, clock, op, clients, crashes>>

-----------------------------------------------------------------------------
JobStatus == {"Pending", "Claimed", "Completed", "DeadLetter"}
ClaimLease == [consumer : Consumer \cup {Nobody}, token : Nat, deadline : Nat]
JobRecord == [key : Key, body : Body, attempts : Nat, status : JobStatus,
              claim : ClaimLease]
NoClaim == [consumer |-> Nobody, token |-> 0, deadline |-> 0]

\* valid becomes FALSE where the code reports an invalid transition, which
\* keeps the log from ever being opened again.
EmptyData == [jobs |-> [j \in {} |-> {}], index |-> [k \in Key |-> 0],
              nextJob |-> 1, nextClaim |-> 1,
              count |-> [s \in JobStatus |-> 0], valid |-> TRUE]

\* What a consumer is given, and gives back with its report.
NoLease == [job |-> 0, token |-> 0, consumer |-> Nobody]
Idle == [kind |-> "idle", now |-> 0, lease |-> NoLease]

Later(a, b) == IF a < b THEN b ELSE a
HasStatus(d, j, s) == j \in DOMAIN d.jobs /\ d.jobs[j].status = s

\* WalEvent.  The last two differ in where the job goes; whether it got there
\* by an expiry or a report only changes a counter.
Enqueued(j, k, b) == [type |-> "Enqueued", job |-> j, key |-> k, body |-> b]
Claimed(j, claim, n) ==
    [type |-> "Claimed", job |-> j, claim |-> claim, attempt |-> n]
Ended(j, token, status) ==
    [type |-> "Ended", job |-> j, token |-> token, status |-> status]

\* The checks of apply_event and transition_claimed_job.
Applies(d, e) ==
    CASE e.type = "Enqueued" -> e.job \notin DOMAIN d.jobs /\ d.index[e.key] = 0
      [] e.type = "Claimed"  -> /\ HasStatus(d, e.job, "Pending")
                                /\ e.attempt = d.jobs[e.job].attempts + 1
      [] e.type = "Ended"    -> /\ HasStatus(d, e.job, "Claimed")
                                /\ d.jobs[e.job].claim.token = e.token

Moved(count, from, to) == [count EXCEPT ![from] = @ - 1, ![to] = @ + 1]

enqueued_job(e) == [key |-> e.key, body |-> e.body, attempts |-> 0,
                    status |-> "Pending", claim |-> NoClaim]

\* Mutant of ApplyEnqueued: the idempotency index is not kept.
ApplyEnqueuedUnindexed(d, e) ==
    [d EXCEPT !.jobs = [j \in DOMAIN d.jobs \cup {e.job} |->
                           IF j = e.job THEN enqueued_job(e) ELSE d.jobs[j]],
              !.nextJob = Later(@, e.job + 1),
              !.count["Pending"] = @ + 1]

ApplyEnqueued(d, e) ==
    [d EXCEPT !.jobs = [j \in DOMAIN d.jobs \cup {e.job} |->
                           IF j = e.job THEN enqueued_job(e) ELSE d.jobs[j]],
              !.index[e.key] = e.job,
              !.nextJob = Later(@, e.job + 1),
              !.count["Pending"] = @ + 1]

\* Mutant of ApplyClaimed: a replayed claim does not use up its token.
ApplyClaimedOnly(d, e) ==
    [d EXCEPT !.jobs[e.job].status = "Claimed",
              !.jobs[e.job].attempts = e.attempt,
              !.jobs[e.job].claim = e.claim,
              !.count = Moved(@, "Pending", "Claimed")]

ApplyClaimed(d, e) ==
    [d EXCEPT !.jobs[e.job].status = "Claimed",
              !.jobs[e.job].attempts = e.attempt,
              !.jobs[e.job].claim = e.claim,
              !.nextClaim = Later(@, e.claim.token + 1),
              !.count = Moved(@, "Pending", "Claimed")]

\* Mutant of ApplyEnded: a dead-lettered job still counts as claimed.
ApplyEndedUncounted(d, e) ==
    [d EXCEPT !.jobs[e.job].status = e.status,
              !.jobs[e.job].claim = NoClaim,
              !.count = IF e.status = "DeadLetter" THEN @
                        ELSE Moved(@, "Claimed", e.status)]

ApplyEnded(d, e) ==
    [d EXCEPT !.jobs[e.job].status = e.status,
              !.jobs[e.job].claim = NoClaim,
              !.count = Moved(@, "Claimed", e.status)]

apply_event(d, e) ==
    IF ~Applies(d, e) THEN [d EXCEPT !.valid = FALSE]
    ELSE CASE e.type = "Enqueued" -> ApplyEnqueued(d, e)
           [] e.type = "Claimed"  -> ApplyClaimed(d, e)
           [] e.type = "Ended"    -> ApplyEnded(d, e)

\* What the file holds once the record e is complete: behind an incomplete
\* record it makes one malformed line.
Written(e) == IF torn THEN [file EXCEPT !.valid = FALSE] ELSE apply_event(file, e)

-----------------------------------------------------------------------------
(* The write-ahead log.                                                      *)

\* Mutant of Commit: the answer does not wait for the sync.
CommitUnsynced(e) ==
    /\ ~poisoned
    /\ mem' = apply_event(mem, e)
    /\ file' = Written(e)
    /\ UNCHANGED <<stable, torn, poisoned, failures>>

\* Wal::append succeeds, and the event is applied.
Commit(e) ==
    /\ ~poisoned
    /\ mem' = apply_event(mem, e)
    /\ file' = Written(e)
    /\ stable' = file'
    /\ UNCHANGED <<torn, poisoned, failures>>

\* Mutant of AppendFails: the log stays usable.
AppendFailsQuietly(e) ==
    /\ ~poisoned
    /\ failures < MaxFailures
    /\ failures' = failures + 1
    /\ \/ UNCHANGED <<file, torn>>
       \/ torn' = TRUE /\ UNCHANGED file
       \/ file' = Written(e) /\ UNCHANGED torn
    /\ UNCHANGED <<mem, stable, poisoned>>

\* The write or the sync fails: of the record, nothing, a part or all is in
\* the file, and the log is poisoned.
AppendFails(e) ==
    /\ ~poisoned
    /\ failures < MaxFailures
    /\ failures' = failures + 1
    /\ poisoned' = TRUE
    /\ \/ UNCHANGED <<file, torn>>
       \/ torn' = TRUE /\ UNCHANGED file
       \/ file' = Written(e) /\ UNCHANGED torn
    /\ UNCHANGED <<mem, stable>>

\* The log is poisoned: every append is refused.
AppendRefused == poisoned /\ UNCHANGED <<mem, log>>

Init ==
    /\ mem = EmptyData /\ file = EmptyData /\ stable = EmptyData
    /\ torn = FALSE /\ poisoned = FALSE
    /\ clock = 0
    /\ op = Idle
    /\ accepted = {} /\ leases = {} /\ acked = {}
    /\ failures = 0 /\ restarts = 0 /\ powerLosses = 0

-----------------------------------------------------------------------------
(* Requests.                                                                 *)

\* enqueue: the key is known.  The same request gets the job it named; another
\* one is refused and changes nothing.
EnqueueAgain(k, b) ==
    LET j == mem.index[k]
    IN /\ op = Idle
       /\ j # 0
       /\ mem.jobs[j].body = b
       /\ accepted' = accepted \cup {[key |-> k, body |-> b, job |-> j]}
       /\ UNCHANGED <<mem, log, clock, op, leases, acked, crashes>>

\* enqueue: the key is new.  The answer may be lost.
Enqueue(k, b) ==
    LET j == mem.nextJob
    IN /\ op = Idle
       /\ mem.index[k] = 0
       /\ \/ /\ Commit(Enqueued(j, k, b))
             /\ accepted' \in {accepted, accepted \cup
                                  {[key |-> k, body |-> b, job |-> j]}}
          \/ /\ AppendFails(Enqueued(j, k, b))
             /\ UNCHANGED accepted
       /\ UNCHANGED <<clock, op, leases, acked, crashes>>

\* A request other than enqueue takes the mutex, with the time it read before.
\* The reads get_job, dead_letters and snapshot do no more than resolve
\* expired claims.
Begin(kind, now, lease) ==
    /\ op = Idle
    /\ op' = [kind |-> kind, now |-> now, lease |-> lease]
    /\ UNCHANGED <<mem, log, clock, clients, crashes>>

BeginClaim(c) ==
    \E now \in 0..clock :
        Begin("claim", now, [NoLease EXCEPT !.consumer = c])

BeginRead == \E now \in 0..clock : Begin("read", now, NoLease)

BeginReport(kind) ==
    \E now \in 0..clock : \E lease \in leases : Begin(kind, now, lease)

\* Mutant of Expired: the last claim of a job is never resolved.
ExpiredWithRetry(now) ==
    {j \in DOMAIN mem.jobs : /\ mem.jobs[j].status = "Claimed"
                             /\ mem.jobs[j].claim.deadline <= now
                             /\ mem.jobs[j].attempts < Limit[mem.jobs[j].body]}

\* Mutant of Expired: a claim runs out one step too soon.
ExpiredSoon(now) ==
    {j \in DOMAIN mem.jobs : /\ mem.jobs[j].status = "Claimed"
                             /\ mem.jobs[j].claim.deadline <= now + 1}

Expired(now) ==
    {j \in DOMAIN mem.jobs : /\ mem.jobs[j].status = "Claimed"
                             /\ mem.jobs[j].claim.deadline <= now}

Smallest(S) == CHOOSE j \in S : \A i \in S : j <= i

\* Mutant of Exhausted: one more attempt than max_attempts.
OverExhausted(j) == mem.jobs[j].attempts > Limit[mem.jobs[j].body]

Exhausted(j) == mem.jobs[j].attempts >= Limit[mem.jobs[j].body]

\* Where a job goes when its claim ends without an acknowledgement.
Released(j) == IF Exhausted(j) THEN "DeadLetter" ELSE "Pending"

\* refresh_expired_claims: one expired claim is resolved.  When that fails the
\* operation fails.
RefreshExpiredClaim ==
    /\ op # Idle
    /\ Expired(op.now) # {}
    /\ LET j == Smallest(Expired(op.now))
           e == Ended(j, mem.jobs[j].claim.token, Released(j))
       IN \/ Commit(e) /\ UNCHANGED op
          \/ (AppendFails(e) \/ AppendRefused) /\ op' = Idle
    /\ UNCHANGED <<clock, clients, crashes>>

\* The expired claims are resolved: the operation's own transition is next.
Refreshed(kind) == op.kind = kind /\ Expired(op.now) = {}

\* claim: the pending job with the smallest id; the answer may be lost.
Claim ==
    LET pending == {j \in DOMAIN mem.jobs : mem.jobs[j].status = "Pending"}
        j == Smallest(pending)
        claim == [consumer |-> op.lease.consumer, token |-> mem.nextClaim,
                  deadline |-> op.now + Timeout]
        e == Claimed(j, claim, mem.jobs[j].attempts + 1)
    IN /\ Refreshed("claim")
       /\ pending # {}
       /\ \/ /\ Commit(e)
             /\ leases' \in {leases, leases \cup
                   {[job |-> j, token |-> claim.token, consumer |-> claim.consumer]}}
          \/ /\ AppendFails(e) \/ AppendRefused
             /\ UNCHANGED leases
       /\ op' = Idle
       /\ UNCHANGED <<clock, accepted, acked, crashes>>

\* Mutant of require_active_claim: the token is not compared.
require_claimed(lease) == HasStatus(mem, lease.job, "Claimed")

require_active_claim(lease) ==
    /\ HasStatus(mem, lease.job, "Claimed")
    /\ mem.jobs[lease.job].claim.consumer = lease.consumer
    /\ mem.jobs[lease.job].claim.token = lease.token

\* acknowledge: the job is completed; the answer may be lost.
Acknowledge ==
    LET lease == op.lease
        e == Ended(lease.job, lease.token, "Completed")
    IN /\ Refreshed("ack")
       /\ require_active_claim(lease)
       /\ \/ /\ Commit(e)
             /\ acked' \in {acked, acked \cup {lease}}
          \/ /\ AppendFails(e) \/ AppendRefused
             /\ UNCHANGED acked
       /\ op' = Idle
       /\ UNCHANGED <<clock, accepted, leases, crashes>>

\* fail: the job is released, or dead-lettered when its attempts are used up.
Fail ==
    LET lease == op.lease
        e == Ended(lease.job, lease.token, Released(lease.job))
    IN /\ Refreshed("fail")
       /\ require_active_claim(lease)
       /\ Commit(e) \/ AppendFails(e) \/ AppendRefused
       /\ op' = Idle
       /\ UNCHANGED <<clock, clients, crashes>>

\* The operation ends without a transition of its own: a read, a claim with
\* nothing pending, or a stale claim reported.
Finish ==
    /\ op # Idle
    /\ Expired(op.now) = {}
    /\ \/ op.kind = "read"
       \/ op.kind = "claim" /\ \A j \in DOMAIN mem.jobs : mem.jobs[j].status # "Pending"
       \/ op.kind \in {"ack", "fail"} /\ ~require_active_claim(op.lease)
    /\ op' = Idle
    /\ UNCHANGED <<mem, log, clock, clients, crashes>>

-----------------------------------------------------------------------------
(* Time, crashes and recovery.                                               *)

\* Time passes while a claim is running.
Tick ==
    /\ \E j \in DOMAIN mem.jobs : /\ mem.jobs[j].status = "Claimed"
                                  /\ mem.jobs[j].claim.deadline > clock
    /\ clock' = clock + 1
    /\ UNCHANGED <<mem, log, op, clients, crashes>>

\* QueueStore::open: the complete records are replayed.  Only when there was an
\* incomplete one is the file truncated and synced.
Open(content, onDisk) ==
    /\ content.valid
    /\ mem' = content
    /\ file' = content
    /\ stable' = IF torn THEN content ELSE onDisk
    /\ torn' = FALSE
    /\ poisoned' = FALSE
    /\ op' = Idle
    /\ UNCHANGED <<clock, clients, failures>>

\* The process dies, at any point of an operation, and is started again.
Restart ==
    /\ poisoned \/ restarts < MaxRestarts
    /\ restarts' = IF poisoned THEN restarts ELSE restarts + 1
    /\ Open(file, stable)
    /\ UNCHANGED powerLosses

\* The machine loses power: a record not known to be synced may be lost.
PowerLoss ==
    /\ powerLosses < MaxPowerLosses
    /\ powerLosses' = powerLosses + 1
    /\ \E content \in {file, stable} : Open(content, content)
    /\ UNCHANGED restarts

Next ==
    \/ \E k \in Key, b \in Body : EnqueueAgain(k, b)
    \/ \E k \in Key, b \in Body : Enqueue(k, b)
    \/ \E c \in Consumer : BeginClaim(c)
    \/ BeginRead
    \/ \E kind \in {"ack", "fail"} : BeginReport(kind)
    \/ RefreshExpiredClaim
    \/ Claim
    \/ Acknowledge
    \/ Fail
    \/ Finish
    \/ Tick
    \/ Restart
    \/ PowerLoss

Spec == Init /\ [][Next]_vars

-----------------------------------------------------------------------------
(* Properties.                                                               *)

Job == Nat \ {0}
Terminal == {"Completed", "DeadLetter"}
Lease == [job : Job, token : Job, consumer : Consumer]

QueueData ==
    {d \in [jobs : {d.jobs : d \in {mem, file, stable}},
            index : [Key -> Nat], nextJob : Job, nextClaim : Job,
            count : [JobStatus -> Nat], valid : BOOLEAN] :
        DOMAIN d.jobs \subseteq Job /\ \A j \in DOMAIN d.jobs : d.jobs[j] \in JobRecord}

\* Every variable has its type: the queue in memory, in the file and on stable
\* storage, the operation that holds the mutex, and what clients were told.
TypeOK ==
    /\ mem \in QueueData /\ file \in QueueData /\ stable \in QueueData
    /\ torn \in BOOLEAN /\ poisoned \in BOOLEAN
    /\ clock \in Nat
    /\ op.kind \in {"idle", "claim", "read", "ack", "fail"}
    /\ op.now \in 0..clock
    /\ op.lease \in Lease \cup [job : {0}, token : {0}, consumer : Consumer \cup {Nobody}]
    /\ accepted \subseteq [key : Key, body : Body, job : Job]
    /\ leases \subseteq Lease
    /\ acked \subseteq leases
    /\ failures \in 0..MaxFailures /\ restarts \in 0..MaxRestarts
    /\ powerLosses \in 0..MaxPowerLosses

\* The queue never writes a log that a later start refuses: whatever failed
\* and whenever the process died, every complete record in the file is a legal
\* transition of the state the records before it lead to (Wal::open, replay).
LogReopens == mem.valid /\ file.valid /\ stable.valid

\* Until an append fails, memory is what a replay of the file gives; a failed
\* append may leave the file ahead of memory, never behind it: no job and no
\* used claim number of memory is missing from the file (append before apply).
MemoryFollowsFile ==
    /\ ~poisoned => file = mem /\ ~torn
    /\ DOMAIN mem.jobs \subseteq DOMAIN file.jobs
    /\ mem.nextClaim <= file.nextClaim
    /\ \A j \in DOMAIN mem.jobs : mem.jobs[j].status \in Terminal => file.jobs[j] = mem.jobs[j]

\* The derived state of QueueData agrees with the jobs, in memory and in what a
\* replay rebuilds: the index maps each key to the one job that has it, the
\* gauges count the jobs, running claims are the claimed jobs' and use
\* numbers below the next one.
BooksAgree ==
    \A d \in {mem, file, stable} :
        /\ \A k \in Key, j \in 1..d.nextJob :
               d.index[k] = j <=> j \in DOMAIN d.jobs /\ d.jobs[j].key = k
        /\ \A s \in JobStatus :
               d.count[s] = Cardinality({j \in DOMAIN d.jobs : d.jobs[j].status = s})
        /\ \A j \in DOMAIN d.jobs :
               IF d.jobs[j].status = "Claimed"
               THEN d.jobs[j].claim.token \in 1..(d.nextClaim - 1)
               ELSE d.jobs[j].claim = NoClaim

\* A claim token is given out once: two deliveries that reached consumers have
\* different tokens, across failed appends, restarts and power losses
\* (next_claim_number is rebuilt from the log).
TokensUnique == \A l, m \in leases : l.token = m.token => l = m

\* An answered acknowledgement is final: the job is completed on stable storage,
\* and no consumer has been given the job after the acknowledged claim
\* (acknowledge: refresh, require_active_claim, append, answer).
AckedIsFinal ==
    \A a \in acked :
        /\ HasStatus(stable, a.job, "Completed")
        /\ \A l \in leases : l.job = a.job => l.token <= a.token

\* A job reaches consumers at most max_attempts times, crashes included: a
\* delivery is counted on stable storage before the consumer sees it.
DeliveriesBounded ==
    \A j \in DOMAIN stable.jobs :
        Cardinality({l \in leases : l.job = j}) <= Limit[stable.jobs[j].body]

\* As long as the machine keeps its power, a key names one job with one body:
\* a producer that retries after a lost answer, a failed append or a restart
\* is never given a second job for the key (enqueue).
KeyNamesOneJob ==
    powerLosses = 0 => \A a, b \in accepted : a.key = b.key => a = b

\* What the file holds is the queue: it can be opened again, memory never gets
\* ahead of it, and what is derived from the jobs fits them.
LogIsTheQueue == TypeOK /\ LogReopens /\ MemoryFollowsFile /\ BooksAgree

\* What producers and consumers were told stays true: TokensUnique, AckedIsFinal,
\* DeliveriesBounded and KeyNamesOneJob.
PromisesKept == TokensUnique /\ AckedIsFinal /\ DeliveriesBounded /\ KeyNamesOneJob

\* A consumer that was given a claim keeps it until its deadline unless it
\* reports it: no other request's record ends it earlier, whatever time that
\* request read, and no crash does (refresh_expired_claims).  It is said of the
\* file: a report whose append failed may still end the claim at the restart.
LeaseHonoured ==
    [][\A l \in leases :
          LET claim == file.jobs[l.job].claim
          IN /\ HasStatus(file, l.job, "Claimed")
             /\ claim.token = l.token
             /\ claim.deadline > clock
             /\ op.lease # l
             => HasStatus(file', l.job, "Claimed") /\ file'.jobs[l.job].claim = claim]_vars

\* The holder of the mutex goes on, a poisoned queue is restarted, time passes
\* and consumers keep asking for work.
Fairness ==
    /\ WF_vars(RefreshExpiredClaim) /\ WF_vars(Claim)
    /\ WF_vars(Acknowledge) /\ WF_vars(Fail) /\ WF_vars(Finish)
    /\ WF_vars(poisoned /\ Restart)
    /\ WF_vars(Tick)
    /\ SF_vars(\E c \in Consumer : Begin("claim", clock, [NoLease EXCEPT !.consumer = c]))

FairSpec == Spec /\ Fairness

\* Every job on stable storage is in the end completed or dead-lettered, even when
\* consumers vanish with their claims, reports come late, appends fail and the
\* process restarts: expiry and max_attempts bound what a job can cost.  There
\* are finitely many keys, so it is said of all of them at once.
JobsSettle ==
    []<>(\A k \in Key : stable.index[k] # 0 =>
            mem.index[k] # 0 /\ mem.jobs[mem.index[k]].status \in Terminal)
=============================================================================
