--------------------------- MODULE GatewayRequests ---------------------------
(***************************************************************************)
(* The life of a completion request in the gateway: admission_middleware   *)
(* and proxy_chat_completions in gateway/src/lib.rs, AdmissionController   *)
(* in admission.rs and the retry budget in resilience.rs.  Every request   *)
(* is a task of its own; its client may disconnect and its deadline may    *)
(* pass at any time, and the routing may be replaced under it.             *)
(*                                                                         *)
(* What a request holds is in its record (`lease', `permit', `reserved'),  *)
(* the counters and semaphores are the gateway's.  A worker is chosen by   *)
(* WorkerPool's policies and admitted by CircuitBreaker: here a choice,    *)
(* also for a retry, is any worker, the circuits of the preferred ones     *)
(* having refused.  A pool is one generation of the routing: it has        *)
(* execution slots and lease counters of its own.                          *)
(***************************************************************************)
EXTENDS Integers, Sequences, Functions, FiniteSets

CONSTANTS
    Client,                    \* requests, one per client
    Target,                    \* workers
    worker_concurrency_limit,
    waiting_room,              \* AdmissionConfig.queue_capacity
    max_retries,
    retry_budget_percent,
    MaxPools                   \* bound on the generations of the routing

ASSUME RequestConfig ==
    /\ {worker_concurrency_limit, MaxPools} \subseteq Nat \ {0}
    /\ {waiting_room, max_retries, retry_budget_percent} \subseteq Nat
    /\ IsFiniteSet(Target)

VARIABLES
    request,            \* each request's task
    pool,               \* the current routing
    slots,              \* free execution slots of each worker of each pool
    line,               \* the requests waiting for such a slot
    leases,             \* in_flight of each worker of each pool
    outstanding,        \* requests admitted
    waiting,            \* queue slots taken
    executing,          \* attempts and streams under way
    original_requests,
    retry_slots_used,
    retries_granted

shared == <<slots, line, leases, waiting, executing>>
budget == <<original_requests, retry_slots_used, retries_granted>>
gatewayVars == <<request, pool, shared, outstanding, budget>>

Site == (1..MaxPools) \X Target
NoSite == <<0, 0>>
outstanding_capacity == Cardinality(Target) * worker_concurrency_limit + waiting_room

\* Nothing held, nothing tried.
Task == [phase |-> "new", pool |-> 0, lease |-> NoSite, permit |-> FALSE,
         reserved |-> FALSE, retries |-> 0, late |-> FALSE,
         used |-> 0, allowed |-> 0]

GatewayInit ==
    /\ request = [c \in Client |-> Task]
    /\ pool = 1
    /\ slots = [s \in Site |-> worker_concurrency_limit]
    /\ line = [s \in Site |-> << >>]
    /\ leases = [s \in Site |-> 0]
    /\ outstanding = 0
    /\ waiting = 0
    /\ executing = 0
    /\ original_requests = 0
    /\ retry_slots_used = 0
    /\ retries_granted = 0

-----------------------------------------------------------------------------
(* A worker's semaphore: fair, a freed slot goes to who waited longest.      *)

HandsOver(s) == line[s] # << >>

\* What is released when a request gives up a slot of s or its place in line.
Released(s) ==
    IF HandsOver(s)
    THEN /\ slots' = slots
         /\ line' = [line EXCEPT ![s] = Tail(@)]
    ELSE /\ slots' = [slots EXCEPT ![s] = @ + 1]
         /\ line' = line

\* The request that is woken with the slot of s, if any.
Woken(s) == IF HandsOver(s) THEN {Head(line[s])} ELSE {}

\* The line without c, which gives up its place in it.
Unlinked(q, c) ==
    LET place == CHOOSE i \in DOMAIN q : q[i] = c
    IN [j \in 1..(Len(q) - 1) |-> IF j < place THEN q[j] ELSE q[j + 1]]

\* The tasks after c became t and the tasks in woken were handed their slot.
Moved(c, t, woken) ==
    request' = [d \in Client |->
                  IF d = c THEN t
                  ELSE IF d \in woken
                       THEN [request[d] EXCEPT !.phase = "woken", !.permit = TRUE]
                       ELSE request[d]]

-----------------------------------------------------------------------------
(* Giving things back.                                                       *)

\* The lease is dropped, with the execution guard or the place in line.
\* The counter `executing' covers a guard, `waiting' a queue guard.
LetGo(c, t) ==
    LET r == request[c]
        s == r.lease
    IN /\ leases' = IF s = NoSite THEN leases ELSE [leases EXCEPT ![s] = @ - 1]
       /\ executing' = IF r.permit /\ r.phase # "woken" THEN executing - 1 ELSE executing
       /\ waiting' = IF r.phase \in {"waiting", "woken"} THEN waiting - 1 ELSE waiting
       /\ IF r.permit THEN Released(s)
          ELSE /\ slots' = slots
               /\ line' = IF r.phase = "waiting"
                          THEN [line EXCEPT ![s] = Unlinked(@, c)]
                          ELSE line
       /\ Moved(c, [t EXCEPT !.lease = NoSite, !.permit = FALSE],
                IF r.permit THEN Woken(s) ELSE {})

\* Mutant of Finishes: a retry that was reserved and never made is not returned.
FinishesReserved(c) ==
    /\ LetGo(c, [Task EXCEPT !.phase = "done", !.retries = request[c].retries])
    /\ outstanding' = outstanding - 1
    /\ UNCHANGED <<pool, budget>>

\* The task ends, by whatever return or by being dropped: everything it holds
\* is dropped with it.
Finishes(c) ==
    /\ LetGo(c, [Task EXCEPT !.phase = "done", !.retries = request[c].retries])
    /\ outstanding' = outstanding - 1
    /\ retry_slots_used' = IF request[c].reserved THEN retry_slots_used - 1
                           ELSE retry_slots_used
    /\ UNCHANGED <<pool, original_requests, retries_granted>>

\* The task of c moves on and shares nothing with the others in this step.
Goes(c, t) == Moved(c, t, {}) /\ UNCHANGED <<pool, shared, outstanding, budget>>

-----------------------------------------------------------------------------
(* The request, step by step.                                                *)

admission_middleware(c) ==
    /\ request[c].phase = "new"
    /\ IF outstanding < outstanding_capacity
       THEN /\ outstanding' = outstanding + 1
            /\ original_requests' = original_requests + 1
            /\ Moved(c, [Task EXCEPT !.phase = "admitted"], {})
       ELSE /\ Moved(c, [Task EXCEPT !.phase = "done"], {})
            /\ UNCHANGED <<outstanding, original_requests>>
    /\ UNCHANGED <<pool, shared, retry_slots_used, retries_granted>>

\* The handler takes the routing it will keep, unless the routing lease has
\* expired.
Enter(c) ==
    /\ request[c].phase = "admitted"
    /\ \/ Goes(c, [request[c] EXCEPT !.phase = "choose", !.pool = pool])
       \/ Finishes(c)

\* A worker is leased, unless the deadline has passed or all circuits refuse.
choose(c) ==
    LET r == request[c]
    IN /\ r.phase = "choose"
       /\ \/ /\ ~r.late
             /\ \E w \in Target :
                  /\ leases' = [leases EXCEPT ![<<r.pool, w>>] = @ + 1]
                  /\ Moved(c, [r EXCEPT !.phase = "leased", !.lease = <<r.pool, w>>], {})
             /\ UNCHANGED <<pool, slots, line, waiting, executing, outstanding, budget>>
          \/ Finishes(c)

\* A slot at once, or else a place in line, or else overload.
admit_worker(c) ==
    LET r == request[c]
        s == r.lease
    IN /\ r.phase = "leased"
       /\ \/ /\ slots[s] > 0
             /\ slots' = [slots EXCEPT ![s] = @ - 1]
             /\ executing' = executing + 1
             /\ Moved(c, [r EXCEPT !.phase = "guarded", !.permit = TRUE], {})
             /\ UNCHANGED <<pool, line, leases, waiting, outstanding, budget>>
          \/ /\ slots[s] = 0 /\ waiting < waiting_room
             /\ waiting' = waiting + 1
             /\ line' = [line EXCEPT ![s] = Append(@, c)]
             /\ Moved(c, [r EXCEPT !.phase = "waiting"], {})
             /\ UNCHANGED <<pool, slots, leases, executing, outstanding, budget>>
          \/ slots[s] = 0 /\ waiting >= waiting_room /\ Finishes(c)

\* The slot was handed over: the queue guard goes, the execution guard comes.
begin_execution(c) ==
    /\ request[c].phase = "woken"
    /\ waiting' = waiting - 1
    /\ executing' = executing + 1
    /\ Moved(c, [request[c] EXCEPT !.phase = "guarded"], {})
    /\ UNCHANGED <<pool, slots, line, leases, outstanding, budget>>

\* The deadline is looked at once more before the attempt is sent.
Send(c) ==
    /\ request[c].phase = "guarded"
    /\ IF request[c].late THEN Finishes(c)
       ELSE Goes(c, [request[c] EXCEPT !.phase = "sent"])

\* A definitive answer: its body is streamed, and the guards go with the stream.
Answered(c) ==
    /\ request[c].phase = "sent"
    /\ Goes(c, [request[c] EXCEPT !.phase = "streaming"])

allowed_retries == (original_requests * retry_budget_percent) \div 100

\* reserve_retry begins: the allowance and the counter are loaded.
Loading(r) == [r EXCEPT !.phase = "reserving", !.allowed = allowed_retries,
                        !.used = retry_slots_used]

\* A status worth a retry: guard and lease are kept until one is reserved, and
\* when there is no retry left the response is passed on as it is.
TransientStatus(c) ==
    LET r == request[c]
    IN /\ r.phase = "sent"
       /\ Goes(c, IF r.retries < max_retries THEN Loading(r)
                  ELSE [r EXCEPT !.phase = "streaming"])

\* No answer: an error, or the attempt's timeout.  Guard and lease go first.
AttemptFails(c) ==
    /\ request[c].phase = "sent"
    /\ LetGo(c, [request[c] EXCEPT !.phase = "failed"])
    /\ UNCHANGED <<pool, outstanding, budget>>

\* Then the deadline is looked at; not every error is worth a retry.
schedule_retry(c) ==
    /\ request[c].phase = "failed"
    /\ \/ Finishes(c)
       \/ /\ ~request[c].late /\ request[c].retries < max_retries
          /\ Goes(c, Loading(request[c]))

\* The budget is spent: a response that was kept is passed on.
Denied(c) ==
    /\ request[c].phase = "reserving"
    /\ request[c].used >= request[c].allowed
    /\ IF request[c].permit
       THEN Goes(c, [request[c] EXCEPT !.phase = "streaming"])
       ELSE Finishes(c)

\* Mutant of Reserve: the counter is advanced whatever it has become.
BlindReserve(c) ==
    /\ request[c].phase = "reserving"
    /\ request[c].used < request[c].allowed
    /\ LetGo(c, [request[c] EXCEPT !.phase = "backoff", !.reserved = TRUE])
    /\ retry_slots_used' = retry_slots_used + 1
    /\ UNCHANGED <<pool, outstanding, original_requests, retries_granted>>

\* Mutant of Reserve: guard and lease are kept while the request backs off.
GuardedBackoff(c) ==
    /\ request[c].phase = "reserving"
    /\ request[c].used < request[c].allowed
    /\ retry_slots_used = request[c].used
    /\ retry_slots_used' = retry_slots_used + 1
    /\ Moved(c, [request[c] EXCEPT !.phase = "backoff", !.reserved = TRUE], {})
    /\ UNCHANGED <<pool, shared, outstanding, original_requests, retries_granted>>

\* The compare-and-exchange succeeds; nothing is held while backing off.
Reserve(c) ==
    /\ request[c].phase = "reserving"
    /\ request[c].used < request[c].allowed
    /\ retry_slots_used = request[c].used
    /\ retry_slots_used' = retry_slots_used + 1
    /\ LetGo(c, [request[c] EXCEPT !.phase = "backoff", !.reserved = TRUE])
    /\ UNCHANGED <<pool, outstanding, original_requests, retries_granted>>

\* It fails: the counter had changed.
ReserveAgain(c) ==
    /\ request[c].phase = "reserving"
    /\ request[c].used < request[c].allowed
    /\ retry_slots_used # request[c].used
    /\ Goes(c, [request[c] EXCEPT !.used = retry_slots_used])

\* The pause is over, or the deadline came first.
wait_for_reserved_retry(c) ==
    LET r == request[c]
    IN /\ r.phase = "backoff"
       /\ IF r.late THEN Finishes(c)
          ELSE /\ retries_granted' = retries_granted + 1
               /\ Moved(c, [r EXCEPT !.phase = "choose", !.reserved = FALSE,
                                     !.retries = @ + 1, !.used = 0, !.allowed = 0], {})
               /\ UNCHANGED <<pool, shared, outstanding, original_requests, retry_slots_used>>

\* The body was streamed, the worker broke off, or the deadline came.
StreamEnds(c) == request[c].phase = "streaming" /\ Finishes(c)

\* timeout_at around admit_worker.
DeadlineInLine(c) == request[c].phase = "waiting" /\ request[c].late /\ Finishes(c)

\* The client disconnects: axum drops the handler, or the body stream.
Disconnect(c) == request[c].phase \notin {"new", "done"} /\ Finishes(c)

DeadlinePasses(c) ==
    /\ request[c].phase \notin {"new", "done"}
    /\ ~request[c].late
    /\ Goes(c, [request[c] EXCEPT !.late = TRUE])

\* The control watcher installs a new routing, with a pool of its own.
Refresh ==
    /\ pool < MaxPools
    /\ pool' = pool + 1
    /\ UNCHANGED <<request, shared, outstanding, budget>>

RequestProceeds(c) ==
    \/ Enter(c) \/ choose(c) \/ admit_worker(c) \/ begin_execution(c) \/ Send(c)
    \/ Answered(c) \/ TransientStatus(c) \/ AttemptFails(c) \/ schedule_retry(c)
    \/ Denied(c) \/ Reserve(c) \/ ReserveAgain(c) \/ wait_for_reserved_retry(c)
    \/ StreamEnds(c)

GatewayNext ==
    \/ \E c \in Client : \/ admission_middleware(c) \/ RequestProceeds(c)
                         \/ DeadlineInLine(c) \/ Disconnect(c) \/ DeadlinePasses(c)
    \/ Refresh

\* Every task runs on when it can: a worker answers or the attempt times out,
\* a pause ends, and a stream ends, by the deadline at the latest.
GatewayFairness == \A c \in Client : WF_gatewayVars(RequestProceeds(c))

GatewaySpec == GatewayInit /\ [][GatewayNext]_gatewayVars /\ GatewayFairness

-----------------------------------------------------------------------------
(* Properties.                                                               *)

Held == {"guarded", "sent", "streaming"}

GatewayTypeOK ==
    /\ \A c \in Client :
        LET r == request[c]
        IN /\ r.phase \in Held \cup {"new", "admitted", "choose", "leased", "waiting", "woken",
                                     "failed", "reserving", "backoff", "done"}
           /\ r.lease \in Site \cup {NoSite}
           /\ r.phase \in Held \cup {"leased", "waiting", "woken"} => r.lease # NoSite
           /\ r.phase \in {"new", "admitted", "choose", "failed", "backoff", "done"}
                => r.lease = NoSite /\ ~r.permit
           /\ r.permit => r.lease # NoSite
           /\ r.retries \in 0..max_retries
    /\ pool \in 1..MaxPools
    /\ slots \in [Site -> 0..worker_concurrency_limit]
    /\ \A s \in Site : \A c \in Range(line[s]) : request[c].phase = "waiting"
    /\ outstanding \in 0..outstanding_capacity
    /\ waiting \in 0..waiting_room
    /\ {executing, original_requests, retry_slots_used, retries_granted} \subseteq Nat

Those(P(_)) == Cardinality({c \in Client : P(c)})

\* Whichever way a request ends (an answer, an error, overload, its deadline, a
\* client that leaves in the middle of a wait), what it took is given back
\* exactly once: the admission counters, each worker's execution slots and
\* leases and the retry budget are always what the live requests hold.
NothingLeaks ==
    /\ outstanding = Those(LAMBDA c : request[c].phase \notin {"new", "done"})
    /\ waiting = Those(LAMBDA c : request[c].phase \in {"waiting", "woken"})
    /\ executing = Those(LAMBDA c : request[c].permit /\ request[c].phase # "woken")
    /\ \A s \in Site :
        /\ leases[s] = Those(LAMBDA c : request[c].lease = s)
        /\ slots[s] + Those(LAMBDA c : request[c].permit /\ request[c].lease = s)
             = worker_concurrency_limit
    /\ retry_slots_used = retries_granted + Those(LAMBDA c : request[c].reserved)

\* Retries never exceed their share of the requests, however many requests
\* reserve one at the same time (reserve_retry's loop compares with an allowance
\* that it loaded once).
RetryBudgetHeld == 100 * retry_slots_used <= retry_budget_percent * original_requests

\* What requests take is bounded and given back: NothingLeaks and
\* RetryBudgetHeld, with every permit counter in its range.
RequestsHold == GatewayTypeOK /\ NothingLeaks /\ RetryBudgetHeld

\* An admitted request ends, without help from its deadline while it waits for
\* a worker: no two requests wait for slots the other one keeps ("Backoff must
\* not occupy a scarce worker execution permit").  A client makes one request, so
\* it is enough that again and again nothing is under way.
EveryRequestEnds == []<>(\A c \in Client : request[c].phase \in {"new", "done"})

=============================================================================
