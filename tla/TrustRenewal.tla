---------------------------- MODULE TrustRenewal ----------------------------
(***************************************************************************)
(* The trust renewer (trust-renewer/src): the engine that keeps a valid    *)
(* signed policy published at the distributor.  It reads the current       *)
(* snapshot, reconciles its durable state with it, and when the renewal    *)
(* deadline has passed signs the next generation, stages it in its state   *)
(* file and posts the staged bytes until the distributor serves them.      *)
(*                                                                         *)
(* Several renewer processes may be started on one state file; the lock    *)
(* file admits one.  A request that timed out may still arrive.  Wall time *)
(* may be set back, and an operator may publish next to the renewer.       *)
(* Counters and the status page are left out.                              *)
(***************************************************************************)
EXTENDS TrustDistributor

CONSTANTS
    Process,       \* renewer processes
    renew_before   \* a snapshot is renewed this long before its expiry

ASSUME TimingType == renew_before \in 1..(policy_lifetime - 1)

VARIABLES
    lock,      \* the process that holds the lock of the state file
    engine,    \* engine[p]: the engine of process p
    rfile,     \* the renewer's state file
    rstable,   \* what of it survives a power loss
    wire,      \* posted snapshots that have not reached the distributor
    sent,      \* history: every snapshot an engine has posted
    manual     \* history: an operator has published

disk == <<rfile, rstable>>
posts == <<wire, sent>>
rvars == <<wall, lock, engine, disk, posts, manual>>
vars == <<dvars, incidents, rvars>>

\* DurableRenewalState: the generation known to be published, and the one
\* staged for publication.
RenewalState == [committed : Snapshot \cup {None}, pending : Snapshot \cup {None}]
Fresh == [committed |-> None, pending |-> None]

\* Why an engine has failed closed.
Reason == {"clock", "remote", "authority", "rollback", "fork", "expired",
           "rejected", "state", "uncertain"}
Phase == {"down", "idle", "fetched", "reconciled", "posting", "failed"}

\* What the distributor answers to a publication.
PublishAnswer == {"created", "unchanged", "conflict", "rejected", "unavailable"}

\* RenewalEngine: its state in memory and where it is in a step.
Engine == [phase : Phase, state : RenewalState, now : 0..MaxClock, remote : Snapshot \cup {None},
           answer : PublishAnswer \cup {None}, why : Reason \cup {None}]

ASSUME NoneIsNothing == None \notin Process \cup Reason \cup PublishAnswer

Down == [phase |-> "down", state |-> Fresh, now |-> 0, remote |-> None,
         answer |-> None, why |-> None]

Renewal == [Down EXCEPT !.phase = "idle"]

RenewalInit ==
    /\ DistributorInit
    /\ lock = None
    /\ engine = [p \in Process |-> Down]
    /\ rfile = Fresh /\ rstable = Fresh
    /\ wire = {} /\ sent = {}
    /\ manual = FALSE

-----------------------------------------------------------------------------
(* Pure parts of the engine.                                                 *)

\* The largest wall time this process has seen.
Observe(now) == IF wall > now THEN wall ELSE now

renewal_deadline(s) == Expiry(s) - renew_before

schedule(s, now) == IF now < renewal_deadline(s) THEN "waiting" ELSE "due"

sign_next(committed, now) ==
    [generation |-> Generation(committed) + 1, issued_at |-> now, kind |-> "ours"]

\* Signed by the renewer's own root, with the template's content and lifetime.
validate_snapshot_semantics(s) == s.kind = "ours"

\* The staged generation follows the committed one.
validate(s) ==
    s.pending # None => s.pending.generation = Generation(s.committed) + 1

validate_loaded_state(s) ==
    s.pending # None => validate_snapshot_semantics(s.pending)

Commit(s) == [committed |-> s, pending |-> None]

\* Mutant of objection: with a generation staged, nothing served is a rollback.
Hasty(state, remote, now) ==
    IF remote = None THEN IF state = Fresh THEN None ELSE "rollback"
    ELSE IF remote.kind # "ours" THEN "authority" ELSE None

verify_remote(remote, now) ==
    IF ~ validate_snapshot_semantics(remote) THEN "authority"
    ELSE IF remote.issued_at > now THEN "remote"
    ELSE None

\* Why a served snapshot is refused when it is reconciled with the state.
objection(state, remote, now) ==
    IF remote = None
    THEN IF state.committed = None THEN None ELSE "rollback"
    ELSE LET floor == Generation(state.committed)
             g == remote.generation
             adopts == IF state.pending = None THEN g > floor
                       ELSE g > state.pending.generation \/ remote = state.pending
         IN IF verify_remote(remote, now) # None THEN verify_remote(remote, now)
            ELSE IF adopts THEN None
            ELSE IF g < floor THEN "rollback"
            ELSE IF remote # state.committed THEN "fork"
            ELSE None

\* Mutant of reconcile: a staged generation is kept when a later one is served.
KeepStaged(state, remote) ==
    IF remote = None \/ remote = state.committed THEN state
    ELSE IF remote = state.pending THEN Commit(remote)
    ELSE [state EXCEPT !.committed = remote]

\* The state after a served snapshot was accepted: a higher generation, and
\* the staged one, become the committed floor and end the publication.
reconcile(state, remote) ==
    IF remote = None \/ remote = state.committed THEN state ELSE Commit(remote)

-----------------------------------------------------------------------------
(* Steps of an engine.  Replacing the state file may fail as the             *)
(* distributor's may.  A failed replacement leaves memory as it was, an      *)
(* uncertain one does not; both make the engine fail closed.                 *)

Set(p, e) == engine' = [engine EXCEPT ![p] = e]

Failed(e, why) == [e EXCEPT !.phase = "failed", !.why = why]

\* Replace the state file.
persist(state, outcome, n) ==
    /\ rfile' = Replaced(rfile, state, outcome)
    /\ rstable' = Stabilized(rstable, state, outcome)
    /\ Incidents(n + Faults(outcome))

\* Failing closed counts the failure in the state file, which may fail too.
fail_closed(p, e, why, n) ==
    \E outcome \in Outcome :
        /\ persist(e.state, outcome, n)
        /\ Set(p, Failed([e EXCEPT !.remote = None, !.answer = None],
                         CASE outcome = "ok" -> why
                           [] outcome = "before" -> "state"
                           [] outcome = "after" -> "uncertain"))

\* The engine goes on as e, whose state has been persisted, or fails closed.
persist_state(p, e, outcome, n) ==
    \/ outcome = "ok" /\ persist(e.state, outcome, n) /\ Set(p, e)
    \/ outcome = "before" /\ fail_closed(p, engine[p], "state", n + 1)
    \/ outcome = "after" /\ persist(e.state, outcome, n) /\ Set(p, Failed(e, "uncertain"))

\* The lock file admits one process.
acquire(p) == lock = None /\ lock' = p

\* The engine that is built on the loaded state.  A missing file is first written
\* empty, which RenewalInit stands for; if that write fails nothing has started.
load_or_initialize(state) == [Renewal EXCEPT !.state = state]

\* open: take the lock, load and validate the state file.
Open(p) ==
    /\ engine[p].phase = "down"
    /\ acquire(p)
    /\ validate(rfile) /\ validate_loaded_state(rfile)
    /\ Set(p, load_or_initialize(rfile))
    /\ UNCHANGED <<dvars, incidents, wall, disk, posts, manual>>

\* The distributor's answer to the GET.
Fetched(e) == [e EXCEPT !.phase = "fetched", !.remote = current.snapshot]

\* The first half of step: the clock is read and the snapshot asked for.
Fetch(p) ==
    /\ engine[p].phase = "idle"
    /\ wall > 0
    /\ Set(p, Fetched([engine[p] EXCEPT !.now = Observe(@)]))
    /\ UNCHANGED <<dvars, incidents, wall, lock, disk, posts, manual>>

\* A transient failure is counted in the state file, and the step is repeated
\* after the retry interval; any other fails closed.
handle_transport_error(p, e, transient, n) ==
    IF transient THEN \E outcome \in Outcome : persist_state(p, e, outcome, n)
    ELSE fail_closed(p, e, "remote", n)

\* The GET fails.
GetFails(p) ==
    /\ engine[p].phase = "idle"
    /\ wall > 0
    /\ \E transient \in BOOLEAN :
        handle_transport_error(p, [engine[p] EXCEPT !.now = Observe(@)], transient, 1)
    /\ UNCHANGED <<dvars, wall, lock, posts, manual>>

\* The clock cannot be read where a step reads it.
ClockFails(p) ==
    /\ engine[p].phase \in {"idle", "fetched", "reconciled"}
    /\ wall = 0
    /\ fail_closed(p, engine[p], "clock", 0)
    /\ UNCHANGED <<dvars, wall, lock, posts, manual>>

\* The second half of step, up to the end of reconcile.  An unchanged state
\* is not written.
Reconcile(p) ==
    /\ engine[p].phase = "fetched"
    /\ wall > 0
    /\ LET e == [engine[p] EXCEPT !.now = Observe(@)]
           why == objection(e.state, e.remote, e.now)
           next == reconcile(e.state, e.remote)
           done == [e EXCEPT !.phase = "reconciled", !.remote = None, !.state = next]
       IN IF why # None THEN fail_closed(p, e, why, 0)
          ELSE IF next = e.state THEN Set(p, done) /\ UNCHANGED <<disk, incidents>>
          ELSE \E outcome \in Outcome : persist_state(p, done, outcome, 0)
    /\ UNCHANGED <<dvars, wall, lock, posts, manual>>

\* Sign the next generation and put it into the state file.
create_pending(p, e) ==
    /\ Generation(e.state.committed) < MaxGeneration
    /\ \E outcome \in Outcome :
        persist_state(p, [e EXCEPT !.state.pending = sign_next(e.state.committed, e.now)],
                      outcome, 0)

\* The end of a step with nothing staged: wait for the deadline, or sign and
\* stage the next generation.
Stage(p) ==
    /\ engine[p].phase = "reconciled"
    /\ engine[p].state.pending = None
    /\ LET e == [engine[p] EXCEPT !.phase = "idle"]
           c == e.state.committed
       IN IF c # None /\ schedule(c, e.now) = "waiting"
          THEN Set(p, e) /\ UNCHANGED <<disk, incidents>>
          ELSE create_pending(p, e)
    /\ UNCHANGED <<dvars, wall, lock, posts, manual>>

\* Mutant of Publish: the attempt is not written.
UncountedPublish(p) ==
    /\ engine[p].phase = "reconciled"
    /\ engine[p].state.pending # None
    /\ wall > 0
    /\ LET e == [engine[p] EXCEPT !.now = Observe(@)]
           s == e.state.pending
       IN IF s.issued_at > e.now \/ e.now >= Expiry(s)
          THEN fail_closed(p, e, "expired", 0) /\ UNCHANGED <<wire, sent>>
          ELSE /\ Set(p, [e EXCEPT !.phase = "posting"])
               /\ wire' = wire \cup {s} /\ sent' = sent \cup {s}
               /\ UNCHANGED <<disk, incidents>>
    /\ UNCHANGED <<dvars, wall, lock, manual>>

\* publish_pending up to the POST: the attempt is counted in the state file
\* before the staged bytes are sent.
Publish(p) ==
    /\ engine[p].phase = "reconciled"
    /\ engine[p].state.pending # None
    /\ wall > 0
    /\ LET e == [engine[p] EXCEPT !.now = Observe(@)]
           s == e.state.pending
       IN IF s.issued_at > e.now \/ e.now >= Expiry(s)
          THEN fail_closed(p, e, "expired", 0) /\ UNCHANGED <<wire, sent>>
          ELSE \E outcome \in Outcome :
                   /\ persist_state(p, [e EXCEPT !.phase = "posting"], outcome, 0)
                   /\ wire' = IF outcome = "ok" THEN wire \cup {s} ELSE wire
                   /\ sent' = IF outcome = "ok" THEN sent \cup {s} ELSE sent
    /\ UNCHANGED <<dvars, wall, lock, manual>>

\* A posted snapshot reaches the distributor; the engine that still waits for
\* it gets the answer.
DeliverPost(s) ==
    /\ s \in wire
    /\ wire' = wire \ {s}
    /\ \E a \in PublishAnswer :
        /\ publish_snapshot(s, a)
        /\ engine' = [p \in Process |->
               IF engine[p].phase = "posting" /\ engine[p].state.pending = s
               THEN [engine[p] EXCEPT !.answer = a] ELSE engine[p]]
    /\ UNCHANGED <<wall, lock, disk, sent, manual>>

\* The answer to a POST.
Answered(p) ==
    /\ engine[p].phase = "posting"
    /\ engine[p].answer # None
    /\ LET e == [engine[p] EXCEPT !.phase = "idle", !.answer = None] IN
        CASE engine[p].answer = "rejected" -> fail_closed(p, e, "rejected", 0)
          [] engine[p].answer = "unavailable" -> handle_transport_error(p, e, TRUE, 0)
          [] OTHER -> Set(p, e) /\ UNCHANGED <<disk, incidents>>
    /\ UNCHANGED <<dvars, wall, lock, posts, manual>>

\* Mutant of PublishTimesOut: silence is taken for success.
AssumePublished(p) ==
    /\ engine[p].phase = "posting"
    /\ wire' = wire \ {engine[p].state.pending}
    /\ \E outcome \in Outcome :
        persist_state(p, [engine[p] EXCEPT !.phase = "idle", !.answer = None,
                                           !.state = Commit(@.pending)], outcome, 1)
    /\ UNCHANGED <<dvars, wall, lock, sent, manual>>

\* No answer in time: the request, or its answer, is lost or late.  An answer
\* that cannot be read or has a status of no meaning is not transient.
PublishTimesOut(p) ==
    /\ engine[p].phase = "posting"
    /\ \E w \in {wire, wire \ {engine[p].state.pending}} : wire' = w
    /\ \E transient \in BOOLEAN :
        handle_transport_error(p, [engine[p] EXCEPT !.phase = "idle", !.answer = None], transient, 1)
    /\ UNCHANGED <<dvars, wall, lock, sent, manual>>

\* The process ends, which releases the lock; a power loss takes back what
\* was not synced.
Crash(p) ==
    /\ engine[p].phase # "down"
    /\ Incidents(1)
    /\ lock' = IF lock = p THEN None ELSE lock
    /\ Set(p, Down)
    /\ \E f \in {rfile, rstable} : rfile' = f
    /\ UNCHANGED <<dvars, wall, rstable, posts, manual>>

-----------------------------------------------------------------------------
(* The environment.                                                          *)

\* An operator publishes a snapshot, with the renewer's root and template or
\* with the other root.
ManualPublish ==
    /\ ~ manual  \* once
    /\ manual' = TRUE
    /\ wall > 0
    /\ \E g \in 1..MaxGeneration, k \in Kind :
        \E a \in PublishAnswer :
            publish_snapshot([generation |-> g, issued_at |-> wall, kind |-> k], a)
    /\ UNCHANGED <<wall, lock, engine, disk, posts>>

Tick ==
    /\ wall < MaxClock
    /\ wall' = wall + 1
    /\ UNCHANGED <<dvars, incidents, lock, engine, disk, posts, manual>>

SetBack ==
    /\ Incidents(1)
    /\ \E w \in 0..(wall - 1) : wall' = w
    /\ UNCHANGED <<dvars, lock, engine, disk, posts, manual>>

Restart == RestartDistributor /\ UNCHANGED rvars

EngineStep(p) ==
    \/ Fetch(p) \/ Reconcile(p) \/ Stage(p) \/ Publish(p) \/ Answered(p)

Next ==
    \/ \E p \in Process :
        \/ EngineStep(p) \/ Open(p) \/ GetFails(p) \/ ClockFails(p)
        \/ PublishTimesOut(p) \/ Crash(p)
    \/ \E s \in wire : DeliverPost(s)
    \/ ManualPublish \/ Tick \/ SetBack \/ Restart

Spec == RenewalInit /\ [][Next]_vars

\* A running engine takes its steps, and a request on the wire arrives.
Fairness ==
    /\ \A p \in Process : WF_vars(EngineStep(p)) /\ WF_vars(ClockFails(p))
    /\ WF_vars(\E s \in wire : DeliverPost(s))

FairSpec == Spec /\ Fairness

-----------------------------------------------------------------------------
TypeOK ==
    /\ DistributorTypeOK
    /\ lock \in Process \cup {None}
    /\ engine \in [Process -> Engine]
    /\ rfile \in RenewalState /\ rstable \in RenewalState
    /\ wire \subseteq Snapshot /\ sent \subseteq Snapshot
    /\ manual \in BOOLEAN

\* The renewer never posts two different snapshots of one generation, over
\* all processes started on its state file, crashes, power losses, failed
\* replacements and lost answers: create_pending stages the bytes before they
\* are sent, publish_pending writes the file once more before each POST, an
\* uncertain replacement stops the engine, and the lock keeps a second one
\* away.  Two snapshots of one generation would divide the receivers.
OnePerGeneration == \A a, b \in sent : a.generation = b.generation => a = b

\* The renewer accuses the distributor only with reason: it reports a rollback
\* only when a power loss undid a publication, and a fork only when an
\* operator has published next to it or such a loss has happened.
NoFalseAlarm ==
    \A p \in Process :
        /\ engine[p].why = "rollback" => undone
        /\ engine[p].why = "fork" => manual \/ undone

\* The floor the renewer has committed, also in its file, is a generation the
\* distributor serves or has gone past, unless a power loss undid it there.
FloorIsServed ==
    undone \/ \A s \in {rfile, rstable} \cup {engine[p].state : p \in Process} :
        Generation(s.committed) <= Generation(current.snapshot)

\* What the renewer publishes is one history, and it knows when the distributor's
\* is another.
PublishedOnce == TypeOK /\ OnePerGeneration /\ NoFalseAlarm

\* What was acknowledged or committed is not lost (AcknowledgedSurvives, FloorIsServed).
DistributorKeeps == AcknowledgedSurvives /\ FloorIsServed

\* What has been staged is settled: the engine learns that it, or a later
\* generation, is served, or it fails closed for an operator to look, or it is
\* killed, or the distributor is poisoned.  Timeouts, retries and conflicts do
\* not keep it going round for ever.
StagedIsSettled ==
    []<>( \/ \A p \in Process : \/ engine[p].state.pending = None
                                \/ engine[p].phase = "failed"
          \/ poison )

=============================================================================
