----------------------------- MODULE WorkerPool -----------------------------
(***************************************************************************)
(* How the gateway chooses a worker: the five policies of WorkerPool in    *)
(* gateway/src/routing.rs, the choice for a retry, the leases and the      *)
(* consistent-hash ring.  Workers are their indices, from 1.               *)
(*                                                                         *)
(* Whether a worker's circuit lets an attempt through is for CircuitBreaker*)
(* to say; here every choice meets an arbitrary set of accepting workers.  *)
(* `next' and `ewma_decisions' only matter modulo the number of workers    *)
(* and the probe interval, and are kept so.  A latency estimate is one of  *)
(* a few values; a sample moves it some way towards itself.                *)
(***************************************************************************)
EXTENDS Integers, Sequences, SequencesExt, FiniteSets

CONSTANTS
    Unknown,              \* no latency observed yet
    worker_count,
    weight,               \* of each worker
    ewma_probe_interval,
    RingSize,             \* positions on the ring
    virtual_nodes,
    MaxEstimate,          \* the largest latency
    MaxLeases,            \* bound on the leases alive
    MaxRefused            \* bound on the turns a circuit refused

Worker == 1..worker_count
Estimate == 1..MaxEstimate

ASSUME PoolConfig ==
    /\ {worker_count, ewma_probe_interval, MaxEstimate, virtual_nodes} \subseteq Nat \ {0}
    /\ weight \in [Worker -> Nat \ {0}]
    /\ RingSize >= worker_count * virtual_nodes
    /\ {MaxLeases, MaxRefused} \subseteq Nat

VARIABLES
    policy,
    next,            \* the rotation counter
    smooth_current,  \* each worker's accumulated weight
    ewma_decisions,
    estimate,        \* each worker's latency estimate
    in_flight,       \* each worker's leases
    ring,            \* the worker at each occupied position of the ring
    chosen,          \* the worker of the last lease, 0 before the first
    refused,         \* history: turns on which some circuit refused
    turns, wins      \* history: this cycle's turns, and who took them

poolVars == <<policy, next, smooth_current, ewma_decisions, estimate, in_flight, ring,
              chosen, refused, turns, wins>>

Policies == {"round_robin", "least_in_flight", "weighted", "ewma", "consistent_hash"}
total_weight == FoldFunction(+, 0, weight)
Rings == {f \in [0..RingSize - 1 -> Worker \cup {0}] :
            \A w \in Worker : Cardinality({p \in DOMAIN f : f[p] = w}) = virtual_nodes}

PoolInit ==
    /\ policy \in Policies
    /\ next = 0
    /\ smooth_current = [w \in Worker |-> 0]
    /\ ewma_decisions = 0
    /\ estimate = [w \in Worker |-> Unknown]
    /\ in_flight = [w \in Worker |-> 0]
    /\ IF policy = "consistent_hash" THEN ring \in Rings ELSE ring = CHOOSE f \in Rings : TRUE
    /\ chosen = 0
    /\ refused = 0
    /\ turns = 0
    /\ wins = [w \in Worker |-> 0]

-----------------------------------------------------------------------------
(* Orders among the workers.                                                 *)

\* Where w comes in rotated_indices(start).
Offset(start, w) == (w - 1 - start + worker_count) % worker_count

\* The first of the workers in ws after a stable sort of rotated_indices(start)
\* by key.
FirstBy(ws, start, key) ==
    CHOOSE w \in ws : \A v \in ws :
        key[w] < key[v] \/ (key[w] = key[v] /\ Offset(start, w) <= Offset(start, v))

Alike == [w \in Worker |-> 0]

\* The ring's points from a key's position on, clockwise and around the end.
Walk(r, position) ==
    [i \in 1..RingSize |-> r[(position + i - 1) % RingSize]]

\* Mutant of owner_indices: the walk stops at the end of the ring.
UnwrappedOwners(r, position) ==
    FoldLeft(LAMBDA owners, w : IF w = 0 \/ Contains(owners, w) THEN owners
                                ELSE Append(owners, w),
             << >>, SubSeq(Walk(r, position), 1, RingSize - position))

\* The workers in the order in which the walk first meets them.
owner_indices(r, position) ==
    FoldLeft(LAMBDA owners, w : IF w = 0 \/ Contains(owners, w) THEN owners
                                ELSE Append(owners, w),
             << >>, Walk(r, position))

-----------------------------------------------------------------------------
(* A choice.  `ws' are the workers whose circuits accept.                    *)

\* try_lease_indices and lease, and the history.
Leased(ws, w) ==
    /\ chosen' = IF ws = {} THEN chosen ELSE w
    /\ in_flight' = IF ws = {} THEN in_flight ELSE [in_flight EXCEPT ![w] = @ + 1]
    /\ refused' = IF ws = Worker THEN refused ELSE refused + 1

\* The history of a turn under a policy that shares turns out.
Counted(ws, w) ==
    LET fresh == turns = total_weight
    IN /\ turns' = IF fresh THEN 1 ELSE turns + 1
       /\ wins' = [v \in Worker |-> (IF fresh THEN 0 ELSE wins[v]) + (IF ws # {} /\ v = w THEN 1 ELSE 0)]

Uncounted == UNCHANGED <<turns, wins>>

Advanced == next' = (next + 1) % worker_count

Pick(ws, key) == IF ws = {} THEN 0 ELSE FirstBy(ws, next, key)

try_choose_round_robin(ws) ==
    LET w == Pick(ws, Alike)
    IN /\ policy = "round_robin"
       /\ Advanced
       /\ Leased(ws, w) /\ Uncounted
       /\ UNCHANGED <<policy, smooth_current, ewma_decisions, estimate, ring>>

\* Under the selection lock, as the next two.
try_choose_least_in_flight(ws) ==
    LET w == Pick(ws, in_flight)
    IN /\ policy = "least_in_flight"
       /\ Advanced
       /\ Leased(ws, w) /\ Uncounted
       /\ UNCHANGED <<policy, smooth_current, ewma_decisions, estimate, ring>>

\* Mutant of Paid: the winner pays nothing.
Unpaid(current, w) == current

\* The winner of a turn pays the total weight.
Paid(current, w) == [current EXCEPT ![w] = @ - total_weight]

\* Every worker gains its weight; nobody pays when all circuits refuse.
try_choose_weighted_round_robin(ws) ==
    LET current == [v \in Worker |-> smooth_current[v] + weight[v]]
        w == Pick(ws, [v \in Worker |-> -current[v]])
    IN /\ policy = "weighted"
       /\ Advanced
       /\ smooth_current' = IF ws = {} THEN current ELSE Paid(current, w)
       /\ Leased(ws, w) /\ Counted(ws, w)
       /\ UNCHANGED <<policy, ewma_decisions, estimate, ring>>

\* The first worker without an estimate, or else the one with the lowest.
LowestEstimate ==
    LET unknown == {v \in Worker : estimate[v] = Unknown}
    IN IF unknown # {} THEN FirstBy(unknown, next, Alike)
       ELSE FirstBy(Worker, next, estimate)

\* Every ewma_probe_interval-th decision goes to whoever the rotation is at.
try_choose_ewma_latency(ws) ==
    LET decision == (ewma_decisions + 1) % ewma_probe_interval
        probes == decision = 0
        w == Pick(ws, IF probes THEN Alike
                      ELSE [v \in Worker |-> IF v = LowestEstimate THEN 0 ELSE 1])
    IN /\ policy = "ewma"
       /\ Advanced
       /\ ewma_decisions' = decision
       /\ Leased(ws, w) /\ Uncounted
       /\ UNCHANGED <<policy, smooth_current, estimate, ring>>

try_choose_consistent_hash(ws, position) ==
    LET owners == SelectSeq(owner_indices(ring, position), LAMBDA v : v \in ws)
    IN /\ policy = "consistent_hash"
       /\ Leased(ws, IF ws = {} THEN 0 ELSE Head(owners)) /\ Uncounted
       /\ UNCHANGED <<policy, next, smooth_current, ewma_decisions, estimate, ring>>

\* Whatever the policy, a retry rotates and tries the workers not attempted
\* before first.  It does not take the selection lock and pays no weight.
try_choose_retry(ws, attempted) ==
    LET w == Pick(ws, [v \in Worker |-> IF v \in attempted THEN 1 ELSE 0])
    IN /\ Advanced
       /\ Leased(ws, w)
       /\ UNCHANGED <<policy, smooth_current, ewma_decisions, estimate, ring, turns, wins>>

\* The first chunk of a successful answer, once per lease.
observe_latency(w) ==
    /\ in_flight[w] > 0
    /\ \E sample \in Estimate, moved \in Estimate :
        /\ IF estimate[w] = Unknown THEN moved = sample
           ELSE \/ estimate[w] <= moved /\ moved <= sample
                \/ sample <= moved /\ moved <= estimate[w]
        /\ estimate' = [estimate EXCEPT ![w] = moved]
    /\ UNCHANGED <<policy, next, smooth_current, ewma_decisions, in_flight, ring, chosen,
                   refused, turns, wins>>

\* A lease is dropped.
Returned(w) ==
    /\ in_flight[w] > 0
    /\ in_flight' = [in_flight EXCEPT ![w] = @ - 1]
    /\ UNCHANGED <<policy, next, smooth_current, ewma_decisions, estimate, ring, chosen,
                   refused, turns, wins>>

-----------------------------------------------------------------------------
Leases == FoldFunction(+, 0, in_flight)

try_choose(ws) ==
    \/ try_choose_round_robin(ws)
    \/ try_choose_least_in_flight(ws)
    \/ try_choose_weighted_round_robin(ws)
    \/ try_choose_ewma_latency(ws)
    \/ \E position \in 0..RingSize - 1 : try_choose_consistent_hash(ws, position)

Choose(ws) ==
    /\ Leases < MaxLeases
    /\ ws # Worker => refused < MaxRefused
    /\ \/ try_choose(ws)
       \/ \E attempted \in SUBSET Worker \ {{}} : try_choose_retry(ws, attempted)

PoolNext ==
    \/ \E ws \in SUBSET Worker : Choose(ws)
    \/ \E w \in Worker : observe_latency(w) \/ Returned(w)

PoolSpec == PoolInit /\ [][PoolNext]_poolVars

\* The latency policy in steady traffic: no circuit refuses, nothing is
\* retried, requests keep coming and leases are returned.
SteadyStep ==
    \/ Leases < MaxLeases /\ try_choose_ewma_latency(Worker)
    \/ \E w \in Worker : Returned(w)

SteadySpec ==
    /\ PoolInit /\ policy = "ewma"
    /\ [][SteadyStep \/ \E w \in Worker : observe_latency(w)]_poolVars
    /\ WF_poolVars(Leases < MaxLeases /\ try_choose_ewma_latency(Worker))
    /\ \A w \in Worker : SF_poolVars(Returned(w)) /\ SF_poolVars(observe_latency(w))

-----------------------------------------------------------------------------
(* Properties.                                                               *)

PoolTypeOK ==
    /\ policy \in Policies
    /\ next \in 0..worker_count - 1
    /\ smooth_current \in [Worker -> Int]
    /\ ewma_decisions \in 0..ewma_probe_interval - 1
    /\ estimate \in [Worker -> Estimate \cup {Unknown}]
    /\ in_flight \in [Worker -> 0..MaxLeases]
    /\ ring \in Rings
    /\ chosen \in Worker \cup {0}
    /\ refused \in 0..MaxRefused
    /\ turns \in 0..total_weight /\ wins \in [Worker -> Nat]

\* Under the weighted policy every worker gets exactly its weight of each
\* total_weight turns while all circuits accept; and however circuits refuse,
\* no worker is further ahead of or behind its share than one round for each
\* turn on which some circuit refused, and one more (smooth_current, which
\* nobody pays back when all refuse, with ties broken by the rotation).
FairShare ==
    policy = "weighted" =>
        /\ \A w \in Worker :
              LET bound == total_weight * (1 + refused)
              IN smooth_current[w] > -bound /\ smooth_current[w] < bound
        /\ refused = 0 /\ turns = total_weight => wins = weight

\* Every key has an order of all workers, and taking a worker out of the ring
\* only takes it out of that order: no key moves between the others
\* (owner_indices).
RingStable ==
    policy = "consistent_hash" /\ chosen = 0 =>
        \A position \in 0..RingSize - 1 :
            LET owners == owner_indices(ring, position)
            IN /\ Len(owners) = worker_count
               /\ \A w \in Worker :
                    LET without == [p \in DOMAIN ring |-> IF ring[p] = w THEN 0 ELSE ring[p]]
                    IN owner_indices(without, position) = SelectSeq(owners, LAMBDA v : v # w)

\* The policies choose as they promise: FairShare and RingStable, and every
\* counter stays in its range.
ChoicesHold == PoolTypeOK /\ FairShare /\ RingStable

\* Every worker is chosen again and again: probes keep the estimate of a worker
\* that is avoided from staying stale for ever (try_choose_ewma_latency).
EveryWorkerIsProbed == \A w \in Worker : []<>(chosen = w)
=============================================================================
