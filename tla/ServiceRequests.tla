--------------------------- MODULE ServiceRequests ---------------------------
(***************************************************************************)
(* How a control node admits signed requests of peers and gateways         *)
(* (authenticate_service_request in control-plane/src/lib.rs and           *)
(* ServiceAuthorizer in service_authentication.rs): the wall clock is read *)
(* once per request and put before the expiry latch, an atomic maximum,    *)
(* twice.  Expiry, signature and freshness are checked under the policy's  *)
(* read lock, which authenticate keeps while it takes the cache's lock to  *)
(* look the nonce up and to insert it.  Readers share that lock: between a *)
(* handler's checks and its insertion others read later times, but no      *)
(* policy is replaced.  Requests may be delayed, reordered and delivered   *)
(* again, and the clock may be set back.  A restart, which empties the     *)
(* replay cache, is left out: what is said holds for one process.          *)
(*                                                                         *)
(* A request stands for its service id and nonce, which next_service_nonce *)
(* makes unique.  The sender's clock is arbitrary.  What an accepted sender *)
(* may do (authorize_gateway, authorize_peer_identity) is a comparison     *)
(* that changes no state and is left out.                                  *)
(***************************************************************************)
EXTENDS Naturals, FiniteSets

CONSTANTS
    Request,             \* requests senders may sign
    Key,                 \* the senders' credentials
    Handler,             \* tasks that handle requests
    max_age,             \* how old a request may be
    max_skew,            \* how far in the future it may be issued
    MAX_REPLAY_ENTRIES,  \* the replay cache's capacity
    MaxTime,             \* bound on the clocks
    MaxSetbacks,         \* bound on the clock being set back
    MaxReplaced          \* bound on the generations of the policy

ASSUME RequestBounds ==
    /\ {max_age, max_skew, MaxTime, MaxSetbacks, MaxReplaced} \subseteq Nat
    /\ MAX_REPLAY_ENTRIES \in Nat \ {0}

VARIABLES
    node_clock,          \* the node's wall clock
    setbacks,      \* how often it was set back
    max_observed,  \* max_observed_wall_clock_ms
    trust_mode,          \* the active policy
    sent,          \* the requests that were signed
    handler,       \* the requests being handled
    replay_cache,  \* accepted requests and when each may be forgotten
    accepted,      \* history: how often each request was accepted
    disturbed,     \* history: the clock was set back or a handler stalled
    witnessed      \* history: the latest time any handler put before the latch

requestVars == <<node_clock, setbacks, max_observed, trust_mode, sent, handler, replay_cache,
                 accepted, disturbed, witnessed>>

Time == 0..MaxTime
Signed == [issued_at : Time, key : Key]
Unsent == [issued_at |-> MaxTime + 1]
\* A ring holds the keys that are listed and not revoked.
TrustedServiceKeyRing == SUBSET Key
Trust == [generation : 1..MaxReplaced, trusted : TrustedServiceKeyRing,
          expires_at : 1..MaxTime + 1]
Free == [phase |-> "free", now |-> 0]

Later(a, b) == IF a > b THEN a ELSE b

RequestsInit ==
    /\ node_clock = 0
    /\ setbacks = 0
    /\ max_observed = 0
    /\ trust_mode \in {p \in Trust : p.generation = 1 /\ p.trusted # {}}
    /\ sent = [r \in Request |-> Unsent]
    /\ handler = [h \in Handler |-> Free]
    /\ replay_cache = {}
    /\ accepted = [r \in Request |-> 0]
    /\ disturbed = FALSE
    /\ witnessed = 0

-----------------------------------------------------------------------------
(* The checks.                                                               *)

policy_expired(now) == now >= trust_mode.expires_at

\* The signature verifies under a key of the policy that is not revoked.
verify(r) == sent[r].key \in trust_mode.trusted

is_fresh(r, now) ==
    /\ sent[r].issued_at <= now + max_skew
    /\ now <= sent[r].issued_at + max_age

\* Until when an accepted request is remembered.
expires_at(r) == sent[r].issued_at + max_age + max_skew

\* Mutant of Retained: entries are dropped before the skew has passed.
RetainedLater(now) == {e \in replay_cache : e.expiry > now + max_skew}

Retained(now) == {e \in replay_cache : e.expiry >= now}

-----------------------------------------------------------------------------
(* Handling a request.                                                       *)

\* A sender signs a request at its own time.
Sign(r) ==
    /\ sent[r] = Unsent
    /\ \E s \in Signed : sent' = [sent EXCEPT ![r] = s]
    /\ UNCHANGED <<node_clock, setbacks, max_observed, trust_mode, handler, replay_cache, accepted,
                   disturbed, witnessed>>

\* A request arrives, once more perhaps: its time is read and put before the
\* latch, and a policy that has expired refuses it before its headers are
\* looked at.  (A stall between reading and latch is one before check_request:
\* the latch refuses what comes too late there as well.)
preflight(h, r) ==
    /\ handler[h] = Free
    /\ sent[r] # Unsent
    /\ max_observed' = Later(max_observed, node_clock)
    /\ witnessed' = Later(witnessed, node_clock)
    /\ handler' = IF policy_expired(max_observed') THEN handler
                  ELSE [handler EXCEPT ![h] = [phase |-> "arrived", now |-> node_clock,
                                               request |-> r, heard |-> 0]]
    /\ UNCHANGED <<node_clock, setbacks, trust_mode, sent, replay_cache, accepted, disturbed>>

\* Mutant of not_expired: only the time of this request counts.
ByOwnTime(now) == ~policy_expired(now)

not_expired(now) == ~policy_expired(Later(max_observed, now))

\* authenticate up to the cache: the policy's read lock is taken and, unless
\* the request is refused, kept.  `heard' is history: what had been put before
\* the latch by then.
check_request(h) ==
    LET r == handler[h].request
        now == handler[h].now
    IN /\ handler[h].phase = "arrived"
       /\ max_observed' = Later(max_observed, now)
       /\ handler' = [handler EXCEPT ![h] =
              IF not_expired(now) /\ verify(r) /\ is_fresh(r, now)
              THEN [@ EXCEPT !.phase = "checked", !.heard = witnessed] ELSE Free]
       /\ UNCHANGED <<node_clock, setbacks, trust_mode, sent, replay_cache, accepted, disturbed,
                      witnessed>>

\* The request is admitted: it joins the cache, from which the entries that
\* had expired by the time of this request were dropped.
Admit(r, now) ==
    /\ replay_cache' = Retained(now) \cup {[request |-> r, expiry |-> expires_at(r)]}
    /\ accepted' = [accepted EXCEPT ![r] = @ + 1]

\* A replayed request, or one that finds the cache full, is refused.
Replayed(r, now) ==
    \/ \E e \in Retained(now) : e.request = r
    \/ Cardinality(Retained(now)) >= MAX_REPLAY_ENTRIES

\* authenticate under the cache's lock; both locks are released.
consult_cache(h) ==
    LET r == handler[h].request
        now == handler[h].now
    IN /\ handler[h].phase = "checked"
       /\ disturbed' = (disturbed \/ node_clock > now + max_skew)
       /\ \/ ~Replayed(r, now) /\ Admit(r, now)
          \/ Replayed(r, now) /\ replay_cache' = Retained(now) /\ UNCHANGED accepted
       /\ handler' = [handler EXCEPT ![h] = Free]
       /\ UNCHANGED <<node_clock, setbacks, max_observed, trust_mode, sent, witnessed>>

-----------------------------------------------------------------------------
(* The policy and the clock.                                                 *)

\* Mutant of Readers: nobody holds the policy's read lock.
NoReaders == {}

\* The handlers that hold the policy's read lock.
Readers == {h \in Handler : handler[h].phase = "checked"}

\* apply_signed_snapshot, under the policy's write lock.
apply_policy ==
    /\ Readers = {}
    /\ max_observed' = Later(max_observed, node_clock)
    /\ \E p \in Trust :
        /\ p.generation > trust_mode.generation
        /\ max_observed' < p.expires_at
        /\ trust_mode' = p
    /\ UNCHANGED <<node_clock, setbacks, sent, handler, replay_cache, accepted, disturbed,
                   witnessed>>

ClockAdvances ==
    /\ node_clock < MaxTime
    /\ node_clock' = node_clock + 1
    /\ UNCHANGED <<setbacks, max_observed, trust_mode, sent, handler, replay_cache, accepted,
                   disturbed, witnessed>>

ClockSetBack ==
    /\ setbacks < MaxSetbacks
    /\ setbacks' = setbacks + 1
    /\ \E t \in Time : t < node_clock /\ node_clock' = t
    /\ disturbed' = TRUE
    /\ UNCHANGED <<max_observed, trust_mode, sent, handler, replay_cache, accepted, witnessed>>

RequestStep ==
    \/ \E r \in Request : Sign(r)
    \/ \E h \in Handler, r \in Request : preflight(h, r)
    \/ \E h \in Handler : check_request(h) \/ consult_cache(h)

RequestsNext == RequestStep \/ apply_policy \/ ClockAdvances \/ ClockSetBack

RequestsSpec == RequestsInit /\ [][RequestsNext]_requestVars

-----------------------------------------------------------------------------
(* Properties.                                                               *)

RequestsTypeOK ==
    /\ node_clock \in Time /\ max_observed \in Time
    /\ setbacks \in 0..MaxSetbacks
    /\ trust_mode \in Trust
    /\ sent \in [Request -> Signed \cup {Unsent}]
    /\ \A h \in Handler : handler[h] = Free \/
          handler[h] \in [phase : {"arrived", "checked"}, now : Time,
                           request : Request, heard : Time]
    /\ replay_cache \subseteq [request : Request, expiry : Nat]
    /\ Cardinality(replay_cache) <= MAX_REPLAY_ENTRIES
    /\ accepted \in [Request -> Nat]
    /\ disturbed \in BOOLEAN
    /\ witnessed \in Time

\* A request is accepted at most once however often it is delivered and
\* however its copies are interleaved, as long as the process lives (a restart
\* empties the cache), the clock is not set back and no handler waits longer
\* than the allowed skew between reading the time and taking the cache's lock
\* (authenticate's eviction and lookup).
AcceptedOnce == disturbed \/ \A r \in Request : accepted[r] <= 1

\* No request counts twice, and the cache that ensures it keeps its bound.
NoReplay == RequestsTypeOK /\ AcceptedOnce

\* A request is accepted only under the policy in force at that moment, with a
\* key it trusts: none is replaced between the checks and the insertion.  And
\* once a time at which that policy has expired was put before the latch, only
\* handlers that had passed their own look at the latch still accept: whoever
\* looks later refuses, also when the clock was set back (authenticate's read
\* lock, observe_wall_clock).
PolicyIsEnforced ==
    [][\A h \in Handler :
          LET r == handler[h].request
          IN handler[h].phase = "checked" /\ accepted'[r] # accepted[r] /\ handler'[h] = Free
             => verify(r) /\ handler[h].heard < trust_mode.expires_at]_requestVars

=============================================================================
