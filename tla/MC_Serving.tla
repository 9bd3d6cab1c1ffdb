----------------------------- MODULE MC_Serving -----------------------------
(* Instances for TLC of the modules on a completion's way to a token: the     *)
(* gateway's requests, its choice of a worker, a worker's circuit, and the    *)
(* worker's scheduler and cache.  They abstract from each other: `focus' says which of  *)
(* them runs, and the others rest in an initial state, so that their state    *)
(* spaces add up and do not multiply.                                         *)
EXTENDS CircuitBreaker, WorkerPool, GatewayRequests, Scheduler, PagedCache

CONSTANTS a1, a2, a3, q1, q2, q3, w1, r1, r2, r3, s1, s2

Weights == <<3, 1, 1>>

\* A prompt that leaves its page open, and one that goes on and fills it.
Prompts == {<<1>>, <<1, 2>>}

VARIABLE focus

allVars == <<vars, poolVars, gatewayVars, schedulerVars, cacheVars, focus>>

MCInit ==
    /\ focus \in {"circuit", "pool", "requests", "scheduler", "cache"}
    /\ Init /\ PoolInit /\ GatewayInit /\ SchedulerInit /\ CacheInit
    /\ focus # "pool" => policy = "round_robin"

Circuit(A) ==
    focus = "circuit" /\ A /\ UNCHANGED <<poolVars, gatewayVars, schedulerVars, cacheVars, focus>>
Pool(A) ==
    focus = "pool" /\ A /\ UNCHANGED <<vars, gatewayVars, schedulerVars, cacheVars, focus>>
Requests(A) ==
    focus = "requests" /\ A /\ UNCHANGED <<vars, poolVars, schedulerVars, cacheVars, focus>>
Scheduling(A) ==
    focus = "scheduler" /\ A /\ UNCHANGED <<vars, poolVars, gatewayVars, cacheVars, focus>>
Caching(A) ==
    focus = "cache" /\ A /\ UNCHANGED <<vars, poolVars, gatewayVars, schedulerVars, focus>>

MCNext ==
    \/ Circuit(Next)
    \/ Pool(PoolNext)
    \/ Requests(GatewayNext)
    \/ Scheduling(SchedulerNext)
    \/ Caching(CacheNext)

\* The fairness of FairSpec, GatewaySpec and SchedulerFairSpec; the choice of a
\* worker and the cache have safety only.
MCSpec ==
    /\ MCInit /\ [][MCNext]_allVars
    /\ WF_allVars(Circuit(Tick))
    /\ \A a \in Attempt : WF_allVars(Circuit(Ends(a)))
    /\ SF_allVars(Circuit(\E a \in Attempt : AcquireProbe(a, clock)))
    /\ \A c \in Client : WF_allVars(Requests(RequestProceeds(c)))
    /\ WF_allVars(Scheduling(TaskStep))

\* Whoever runs, nothing waits for ever: OpenIsProbed, EveryRequestEnds and
\* AcceptedRequestsEnd.
EverythingEnds == OpenIsProbed /\ EveryRequestEnds /\ AcceptedRequestsEnd
=============================================================================
