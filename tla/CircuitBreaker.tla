--------------------------- MODULE CircuitBreaker ---------------------------
(***************************************************************************)
(* The circuit breaker of one worker: gateway/src/circuit_breaker.rs.      *)
(* Attempts run concurrently; each ends with an outcome, or is dropped     *)
(* without one when its request is cancelled.  Every operation locks the   *)
(* breaker, but the time it uses was read before, so it may be any earlier *)
(* time.                                                                   *)
(*                                                                         *)
(* An outcome is recorded together with the generation its attempt began   *)
(* in, which the code does not keep: the properties are about it.          *)
(***************************************************************************)
EXTENDS Integers, Sequences, FiniteSets

CONSTANTS
    Attempt,              \* attempts that may run at the same time
    window_size,
    minimum_requests,
    failure_rate_percent,
    open_duration,
    MaxAttempts           \* bound: attempts ever begun

\* CircuitBreakerConfig::validate.
ASSUME ConfigIsValid ==
    /\ window_size \in Nat /\ minimum_requests \in 1..window_size
    /\ failure_rate_percent \in 1..100
    /\ open_duration \in Nat \ {0}
ASSUME AttemptBound == MaxAttempts \in Nat

VARIABLES
    state,       \* Closed, Open or HalfOpen
    until,       \* when Open: the time it ends
    probe,       \* when HalfOpen: probe_in_flight
    generation,
    outcomes,
    attempt,     \* attempt[a]: what a running attempt carries
    clock,
    begun        \* attempts begun so far

circuit == <<state, until, probe, generation, outcomes>>
vars == <<circuit, attempt, clock, begun>>

-----------------------------------------------------------------------------
CircuitStateName == {"Closed", "Open", "HalfOpen"}
AttemptKind == {"Closed", "HalfOpen"}
NotRunning == [kind |-> "None", generation |-> 0]
Running == {a \in Attempt : attempt[a] # NotRunning}

Init ==
    /\ state = "Closed" /\ until = 0 /\ probe = FALSE
    /\ generation = 0
    /\ outcomes = << >>
    /\ attempt = [a \in Attempt |-> NotRunning]
    /\ clock = 0
    /\ begun = 0

\* Mutant of OpenIsOver: one step too soon.
OpenIsAlmostOver(now) == state = "Open" /\ now + 1 >= until

\* An open circuit whose time has come.
OpenIsOver(now) == state = "Open" /\ now >= until

\* Mutant of StillCounts: an outcome is counted whenever it comes.
AnyAttempt(a) == attempt[a].kind = state

\* resolve: the attempt belongs to the present generation and state.
StillCounts(a) ==
    /\ attempt[a].generation = generation
    /\ attempt[a].kind = state

should_open(window) ==
    /\ Len(window) >= minimum_requests
    /\ Cardinality({i \in DOMAIN window : window[i].failed}) * 100
          >= Len(window) * failure_rate_percent

\* Mutant of Pushed: the window only grows.
PushedOnly(window, outcome) == Append(window, outcome)

\* push_back, and pop_front when the window is full.
Pushed(window, outcome) ==
    LET longer == Append(window, outcome)
    IN IF Len(longer) > window_size THEN Tail(longer) ELSE longer

open_circuit(now) ==
    /\ state' = "Open"
    /\ until' = now + open_duration
    /\ generation' = generation + 1
    /\ UNCHANGED probe

-----------------------------------------------------------------------------
\* An attempt begins.
Begin(a, kind) ==
    /\ attempt[a] = NotRunning
    /\ begun < MaxAttempts
    /\ begun' = begun + 1
    /\ attempt' = [attempt EXCEPT ![a] = [kind |-> kind, generation |-> generation]]
    /\ UNCHANGED clock

\* try_acquire on a closed circuit.
AcquireClosed(a) ==
    /\ state = "Closed"
    /\ Begin(a, "Closed")
    /\ UNCHANGED circuit

\* Mutant of MayProbe: a probe that is running is no obstacle.
MayProbeAgain(now) == state = "HalfOpen" \/ OpenIsOver(now)

\* try_acquire: the circuit is half-open, perhaps only now, and nobody probes.
MayProbe(now) == (state = "HalfOpen" /\ ~probe) \/ OpenIsOver(now)

\* try_acquire on a half-open circuit.  In all other cases the attempt is
\* refused, which changes nothing but a counter.
AcquireProbe(a, now) ==
    /\ MayProbe(now)
    /\ Begin(a, "HalfOpen")
    /\ state' = "HalfOpen"
    /\ probe' = TRUE
    /\ UNCHANGED <<until, generation, outcomes>>

\* snapshot_at: a diagnostic read ends an open period too.
Snapshot(now) ==
    /\ OpenIsOver(now)
    /\ state' = "HalfOpen"
    /\ probe' = FALSE
    /\ UNCHANGED <<until, generation, outcomes, attempt, clock, begun>>

\* The attempt is consumed by its outcome or dropped.
End(a) ==
    /\ attempt[a] # NotRunning
    /\ attempt' = [attempt EXCEPT ![a] = NotRunning]
    /\ UNCHANGED <<clock, begun>>

\* success and failure: the outcome of an earlier generation is ignored.
ResolveLate(a) ==
    /\ ~StillCounts(a)
    /\ End(a)
    /\ UNCHANGED circuit

\* success and failure of an attempt on the closed circuit.
ResolveClosed(a, failed, now) ==
    LET window == Pushed(outcomes, [failed |-> failed,
                                    generation |-> attempt[a].generation])
    IN /\ StillCounts(a)
       /\ attempt[a].kind = "Closed"
       /\ End(a)
       /\ outcomes' = window
       /\ IF should_open(window) THEN open_circuit(now)
          ELSE UNCHANGED <<state, until, probe, generation>>

\* The probe failed: the circuit opens again.
ProbeFails(a, now) ==
    /\ StillCounts(a)
    /\ attempt[a].kind = "HalfOpen"
    /\ End(a)
    /\ outcomes' = <<[failed |-> TRUE, generation |-> attempt[a].generation]>>
    /\ open_circuit(now)

\* The circuit closes with an empty window.
Recover ==
    /\ generation' = generation + 1
    /\ state' = "Closed"
    /\ outcomes' = << >>
    /\ UNCHANGED <<until, probe>>

ProbeSucceeds(a) ==
    /\ StillCounts(a)
    /\ attempt[a].kind = "HalfOpen"
    /\ End(a)
    /\ Recover

\* Mutant of cancel: the probe slot stays taken.
KeepProbe(a) == UNCHANGED circuit

\* A dropped probe gives its slot back.
cancel(a) ==
    /\ probe' = IF StillCounts(a) /\ attempt[a].kind = "HalfOpen" THEN FALSE
                ELSE probe
    /\ UNCHANGED <<state, until, generation, outcomes>>

\* Drop: the attempt ends without an outcome.
Drop(a) == End(a) /\ cancel(a)

\* Time matters only while the circuit is open.
Tick ==
    /\ state = "Open" /\ clock < until
    /\ clock' = clock + 1
    /\ UNCHANGED <<circuit, attempt, begun>>

Next ==
    \/ \E a \in Attempt : AcquireClosed(a)
    \/ \E a \in Attempt, now \in 0..clock : AcquireProbe(a, now)
    \/ \E now \in 0..clock : Snapshot(now)
    \/ \E a \in Running : ResolveLate(a)
    \/ \E a \in Running, failed \in BOOLEAN, now \in 0..clock :
          ResolveClosed(a, failed, now)
    \/ \E a \in Running, now \in 0..clock : ProbeFails(a, now)
    \/ \E a \in Running : ProbeSucceeds(a)
    \/ \E a \in Running : Drop(a)
    \/ Tick

Spec == Init /\ [][Next]_vars

\* A running attempt ends, in whichever way.
Ends(a) ==
    /\ a \in Running
    /\ \/ ResolveLate(a) \/ ProbeSucceeds(a) \/ Drop(a)
       \/ \E now \in 0..clock : \/ ProbeFails(a, now)
                                \/ \E failed \in BOOLEAN : ResolveClosed(a, failed, now)

\* Time passes, every attempt ends, and requests keep coming.
Fairness ==
    /\ WF_vars(Tick)
    /\ \A a \in Attempt : WF_vars(Ends(a))
    /\ SF_vars(\E a \in Attempt : AcquireProbe(a, clock))

FairSpec == Spec /\ Fairness

-----------------------------------------------------------------------------
(* Properties.                                                               *)

\* Type correctness; the window never holds more than window_size outcomes.
TypeOK ==
    /\ state \in CircuitStateName
    /\ until \in Nat /\ probe \in BOOLEAN /\ generation \in Nat
    /\ outcomes \in Seq([failed : BOOLEAN, generation : Nat])
    /\ Len(outcomes) <= window_size
    /\ attempt \in [Attempt -> [kind : AttemptKind, generation : Nat] \cup {NotRunning}]
    /\ clock \in Nat /\ begun \in Nat

Probes == {a \in Attempt : /\ attempt[a].kind = "HalfOpen"
                           /\ attempt[a].generation = generation}

\* A half-open circuit lets one probe through at a time, and its flag is set
\* exactly while that probe runs: neither a late outcome nor a cancelled probe
\* lets a second one in or blocks the circuit for ever (try_acquire, cancel).
OneProbe ==
    /\ \A a, b \in Probes : a = b
    /\ state = "HalfOpen" => (probe <=> Probes # {})
    /\ state # "HalfOpen" => Probes = {}

\* The failure rate of a closed circuit is computed from attempts that began
\* after it closed: outcomes of attempts sent before an opening or recovery
\* never count, however late they come (resolve).
WindowIsFresh ==
    state = "Closed" => \A i \in DOMAIN outcomes : outcomes[i].generation = generation

\* The circuit never loses count of its probe or mixes what it has seen: TypeOK,
\* OneProbe and WindowIsFresh.
CircuitIsSound == TypeOK /\ OneProbe /\ WindowIsFresh

\* No attempt is let through before the open period is over, not even by an
\* operation with an old clock reading (refresh_open_state).
OpenKeepsOut ==
    [][state = "Open" /\ clock < until =>
          /\ state' = "Open" /\ until' = until
          /\ \A a \in Attempt : attempt[a] = NotRunning => attempt'[a] = NotRunning]_vars

\* As long as requests come, an open circuit is in the end probed: dropped
\* probes never leave it half-open with nobody trying.
OpenIsProbed ==
    []<>(state = "Closed" \/ Probes # {} \/ begun = MaxAttempts)
=============================================================================
