---------------------------- MODULE TrustReceiver ----------------------------
(***************************************************************************)
(* How a control node keeps its service-trust policy                       *)
(* (control-plane/src/service_trust.rs, and the part of                    *)
(* service_authentication.rs that activates a policy): in remote mode it   *)
(* follows the distributor, keeps the accepted snapshot in a cache file    *)
(* and its generation in a floor file, activates it and posts a receipt;   *)
(* in file mode it follows a local snapshot file and keeps only the floor. *)
(*                                                                         *)
(* The distributor is TrustDistributor.  Whoever publishes, the renewer or *)
(* an operator, is the environment, and so is the clock.  A policy of kind *)
(* "other" does not list this node's signing credential.  An ETag stands   *)
(* for its snapshot, and a 304 repeats the ETag that was asked with.       *)
(***************************************************************************)
EXTENDS TrustDistributor

CONSTANTS
    maximum_future_skew  \* of a policy's issue time

ASSUME SkewType == maximum_future_skew \in Nat

VARIABLES
    mode,     \* how the receivers are configured: "remote" or "file"
    source,   \* the local snapshot file of file mode
    node,     \* node[r]: the memory of receiver r
    store,    \* store[r]: its cache and floor files
    stable,   \* stable[r]: what of them survives a power loss
    mail,     \* receipts posted and not yet at the distributor
    peak,     \* history: peak[r], the last policy receiver r has activated
    lapsed    \* history: a receiver started from a file that was never synced

receiverVars == <<dvars, incidents, wall, mode, source, node, store, stable, mail, peak, lapsed>>

\* How a node is told to distribute trust, when it is told at all.
DistributionMode == {"remote", "file"}

\* What a watcher has in memory.
Memory ==
    [phase : {"down", "boot", "booted", "idle", "fetched", "accepted", "report", "posting"},
     active : Snapshot \cup {None}, floor : Snapshot \cup {None},
     etag : Snapshot \cup {None}, candidate : Snapshot \cup {None},
     seen : Snapshot \cup {None}, receipt : Snapshot \cup {None},
     latched : BOOLEAN, now : 0..MaxClock]

Files == [cache : Snapshot \cup {None}, floor : Snapshot \cup {None}]
NoFiles == [cache |-> None, floor |-> None]
Stopped == [phase |-> "down", active |-> None, floor |-> None, etag |-> None,
            candidate |-> None, seen |-> None, receipt |-> None, latched |-> FALSE,
            now |-> 0]

ReceiverInit ==
    /\ DistributorInit
    /\ mode \in DistributionMode
    /\ source = None
    /\ node = [r \in Expected |-> Stopped]
    /\ store = [r \in Expected |-> NoFiles]
    /\ stable = [r \in Expected |-> NoFiles]
    /\ mail = {}
    /\ peak = [r \in Expected |-> None]
    /\ lapsed = FALSE

-----------------------------------------------------------------------------
(* The checks of a candidate.                                                *)

validate_local_credential(s) == s.kind = "ours"

validate_receiver_validity(s, now) ==
    s.issued_at <= now + maximum_future_skew /\ now < Expiry(s)

\* Mutant of validate_candidate_floor: only the generation is compared.
ForkBlind(s, floor) == s.generation >= Generation(floor)

\* Neither an older generation than the floor's nor another snapshot of it.
validate_candidate_floor(s, floor) ==
    s.generation > Generation(floor) \/ s = floor

Acceptable(s, now, floor) ==
    /\ s # None
    /\ validate_local_credential(s)
    /\ validate_receiver_validity(s, now)
    /\ validate_candidate_floor(s, floor)

Observed(r) == IF wall > node[r].now THEN wall ELSE node[r].now

-----------------------------------------------------------------------------
(* The files.                                                                *)

\* Mutant of persist_remote_acceptance: the floor is written first.
FloorFirst(r, s, cache, floor) ==
    /\ cache = "ok" \/ floor = "before"
    /\ store' = [store EXCEPT ![r].cache = Replaced(@, s, floor),
                              ![r].floor = Replaced(@, s, cache)]
    /\ stable' = [stable EXCEPT ![r].cache = Stabilized(@, s, floor),
                                ![r].floor = Stabilized(@, s, cache)]
    /\ Incidents(IF cache = "ok" THEN Faults(floor) ELSE 1)

\* The snapshot is cached, and then becomes the floor.  A failure of the
\* first leaves the second alone.  A process killed in between is a failure
\* followed by a crash.
persist_remote_acceptance(r, s, cache, floor) ==
    /\ cache = "ok" \/ floor = "before"
    /\ store' = [store EXCEPT ![r].cache = Replaced(@, s, cache),
                              ![r].floor = Replaced(@, s, floor)]
    /\ stable' = [stable EXCEPT ![r].cache = Stabilized(@, s, cache),
                                ![r].floor = Stabilized(@, s, floor)]
    /\ Incidents(IF cache = "ok" THEN Faults(floor) ELSE 1)

save_floor(r, s, outcome) ==
    /\ store' = [store EXCEPT ![r].floor = Replaced(@, s, outcome)]
    /\ stable' = [stable EXCEPT ![r].floor = Stabilized(@, s, outcome)]
    /\ Incidents(Faults(outcome))

\* At startup a floor that is in the file already is not saved again.
save_new_floor(r, s, outcome) ==
    IF store[r].floor = s
    THEN outcome = "ok" /\ UNCHANGED <<store, stable, incidents>>
    ELSE save_floor(r, s, outcome)

SetNode(r, n) == node' = [node EXCEPT ![r] = n]

\* The remote watcher's loop: after startup and after each reload, whatever its
\* outcome, a receipt that is still pending is posted.
Reloaded(n) ==
    [n EXCEPT !.phase = IF n.receipt = None THEN "idle" ELSE "report", !.candidate = None]

-----------------------------------------------------------------------------
(* Startup.                                                                  *)

\* What a startup falls back on when the distributor has nothing better.
load_verified_cache(r) ==
    IF Acceptable(store[r].cache, wall, store[r].floor) THEN store[r].cache ELSE None

\* The answer to a GET with an ETag.
fetch_remote_snapshot(etag) == get_snapshot(etag)

\* The first part of bootstrap_remote: the cache is read for its ETag, and the
\* distributor is asked.  No usable answer is the candidate None.
BootFetch(r) ==
    /\ mode = "remote"
    /\ node[r].phase = "down"
    /\ \E reached \in BOOLEAN :
        SetNode(r, [Stopped EXCEPT !.phase = "boot",
                !.candidate = IF reached
                                 /\ fetch_remote_snapshot(load_verified_cache(r)) = "snapshot"
                              THEN current.snapshot ELSE None])
    /\ UNCHANGED <<dvars, incidents, wall, mode, source, store, stable, mail, peak, lapsed>>

Booted(s) ==
    [Stopped EXCEPT !.phase = "booted", !.candidate = s, !.floor = s, !.etag = s]

\* Startup goes on with the cached snapshot, if there is a valid one.
cached_fallback(r) ==
    LET cached == load_verified_cache(r) IN
    IF cached = None
    THEN SetNode(r, Stopped) /\ UNCHANGED <<store, stable, incidents, lapsed>>
    ELSE \E floor \in Outcome :
          /\ save_new_floor(r, cached, floor)
          /\ lapsed' = (lapsed \/ (floor = "ok" /\ store'[r] # stable'[r]))
          /\ SetNode(r, IF floor = "ok" THEN Booted(cached) ELSE Stopped)

\* The rest up to activation: an acceptable answer is persisted, otherwise
\* the cache is used; a failure ends the process.
BootAccept(r) ==
    /\ node[r].phase = "boot"
    /\ IF Acceptable(node[r].candidate, wall, store[r].floor)
       THEN \E cache, floor \in Outcome :
             /\ UNCHANGED lapsed
             /\ persist_remote_acceptance(r, node[r].candidate, cache, floor)
             /\ SetNode(r, IF floor = "ok" THEN Booted(node[r].candidate) ELSE Stopped)
       ELSE cached_fallback(r)
    /\ UNCHANGED <<dvars, wall, mode, source, mail, peak>>

\* bootstrap of file mode, up to activation.
BootFile(r) ==
    /\ mode = "file"
    /\ node[r].phase = "down"
    /\ Acceptable(source, wall, store[r].floor)
    /\ \E floor \in Outcome :
        /\ save_new_floor(r, source, floor)
        /\ lapsed' = (lapsed \/ (floor = "ok" /\ store'[r] # stable'[r]))
        /\ SetNode(r, IF floor = "ok"
                  THEN [Stopped EXCEPT !.phase = "booted", !.candidate = source,
                                       !.floor = source, !.seen = source]
                  ELSE Stopped)
    /\ UNCHANGED <<dvars, wall, mode, source, mail, peak>>

\* The authorizer starts with the policy if it is still valid.
BootActivate(r) ==
    /\ node[r].phase = "booted"
    /\ LET s == node[r].candidate IN
        IF validate_receiver_validity(s, wall)
        THEN /\ SetNode(r, Reloaded([node[r] EXCEPT !.active = s, !.now = wall,
                                          !.receipt = IF mode = "remote" THEN s ELSE None]))
             /\ peak' = [peak EXCEPT ![r] = s]
        ELSE SetNode(r, Stopped) /\ UNCHANGED peak
    /\ UNCHANGED <<dvars, incidents, wall, mode, source, store, stable, mail, lapsed>>

-----------------------------------------------------------------------------
(* The remote watcher.                                                       *)

\* A 304 repeats the ETag asked with, so only the time is noted.
accept_not_modified(r) == [node[r] EXCEPT !.now = Observed(r)]

\* reload_once up to the answer.  Nothing new and no snapshot leave the policy
\* alone; once persistence has failed nothing is asked any more.
FetchUpdate(r) ==
    /\ mode = "remote"
    /\ node[r].phase = "idle"
    /\ LET a == fetch_remote_snapshot(node[r].etag) IN
        SetNode(r, IF node[r].latched \/ a = "missing" THEN Reloaded(node[r])
                   ELSE IF a = "snapshot" THEN [node[r] EXCEPT !.phase = "fetched",
                                                               !.candidate = current.snapshot]
                   ELSE Reloaded(accept_not_modified(r)))
    /\ UNCHANGED <<dvars, incidents, wall, mode, source, store, stable, mail, peak, lapsed>>

\* The request or its answer is lost or times out.
FetchFails(r) ==
    /\ mode = "remote"
    /\ node[r].phase = "idle" /\ ~ node[r].latched
    /\ Incidents(1)
    /\ SetNode(r, Reloaded(node[r]))
    /\ UNCHANGED <<dvars, wall, mode, source, store, stable, mail, peak, lapsed>>

\* Mutant: the receipt is signed on acceptance, before activation.
EarlyReceipt(r) ==
    /\ node[r].phase = "fetched"
    /\ LET n == [node[r] EXCEPT !.now = Observed(r)]
           s == n.candidate
           kept == Reloaded(n)
       IN IF Acceptable(s, n.now, n.floor)
          THEN \E cache, floor \in Outcome :
                /\ persist_remote_acceptance(r, s, cache, floor)
                /\ SetNode(r, IF floor = "ok"
                          THEN [n EXCEPT !.phase = "accepted", !.floor = s, !.etag = s,
                                         !.receipt = s]
                          ELSE [kept EXCEPT !.latched = TRUE])
          ELSE SetNode(r, kept) /\ UNCHANGED <<store, stable, incidents>>
    /\ UNCHANGED <<dvars, wall, mode, source, mail, peak, lapsed>>

\* The answer is checked and persisted.
Accept(r) ==
    /\ node[r].phase = "fetched"
    /\ LET n == [node[r] EXCEPT !.now = Observed(r)]
           s == n.candidate
           kept == Reloaded(n)
       IN IF Acceptable(s, n.now, n.floor)
          THEN \E cache, floor \in Outcome :
                /\ persist_remote_acceptance(r, s, cache, floor)
                /\ SetNode(r, IF floor = "ok"
                          THEN [n EXCEPT !.phase = "accepted", !.floor = s, !.etag = s]
                          ELSE [kept EXCEPT !.latched = TRUE])
          ELSE SetNode(r, kept) /\ UNCHANGED <<store, stable, incidents>>
    /\ UNCHANGED <<dvars, wall, mode, source, mail, peak, lapsed>>

\* apply_signed_snapshot: a valid policy of a higher generation becomes the
\* active one.
apply_signed_snapshot(n, s) ==
    validate_receiver_validity(s, n.now) /\ s.generation > Generation(n.active)

\* The accepted policy is activated, and a receipt is signed for it.
Activate(r) ==
    /\ node[r].phase = "accepted"
    /\ LET n == [node[r] EXCEPT !.now = Observed(r)]
           s == node[r].candidate
       IN IF apply_signed_snapshot(n, s)
          THEN /\ SetNode(r, Reloaded([n EXCEPT !.active = s,
                                   !.receipt = IF mode = "remote" THEN s ELSE None,
                                   !.seen = IF mode = "file" THEN s ELSE @]))
               /\ peak' = [peak EXCEPT ![r] = s]
          ELSE SetNode(r, Reloaded(n)) /\ UNCHANGED peak
    /\ UNCHANGED <<dvars, incidents, wall, mode, source, store, stable, mail, lapsed>>

-----------------------------------------------------------------------------
(* The file watcher: every poll notes the time; the file is looked at when   *)
(* its bytes have changed, and an accepted generation is not looked at       *)
(* again, activated or not.                                                  *)

FileReload(r) ==
    /\ mode = "file"
    /\ node[r].phase = "idle"
    /\ LET n == [node[r] EXCEPT !.now = Observed(r)] IN
        \/ /\ source = n.seen \/ ~ Acceptable(source, n.now, n.floor)
           /\ SetNode(r, n)
           /\ UNCHANGED <<store, stable, incidents>>
        \/ /\ source # n.seen
           /\ Acceptable(source, n.now, n.floor)
           /\ source.generation = Generation(n.floor)
           /\ SetNode(r, IF n.active = source THEN [n EXCEPT !.seen = source] ELSE n)
           /\ UNCHANGED <<store, stable, incidents>>
        \/ /\ source # n.seen
           /\ Acceptable(source, n.now, n.floor)
           /\ source.generation # Generation(n.floor)
           /\ \E floor \in Outcome :
                /\ save_floor(r, source, floor)
                /\ SetNode(r, IF floor = "ok"
                          THEN [n EXCEPT !.phase = "accepted", !.floor = source,
                                         !.candidate = source]
                          ELSE n)
    /\ UNCHANGED <<dvars, wall, mode, source, mail, peak, lapsed>>

-----------------------------------------------------------------------------
(* Receipts.                                                                 *)

PostReceipt(r) ==
    /\ node[r].phase = "report"
    /\ SetNode(r, [node[r] EXCEPT !.phase = "posting"])
    /\ mail' = mail \cup {[receiver |-> r, snapshot |-> node[r].receipt]}
    /\ UNCHANGED <<dvars, incidents, wall, mode, source, store, stable, peak, lapsed>>

ReceiptAnswers == {"recorded", "duplicate", "unavailable", "missing", "forbidden", "mismatch"}

\* Mutant of DeliverReceipt: the receipt is dropped on any answer.
DropReceipt(e) ==
    /\ e \in mail
    /\ mail' = mail \ {e}
    /\ \E a \in ReceiptAnswers :
        /\ post_receipt(e, a)
        /\ node' = [r \in Expected |->
              IF node[r].phase = "posting" /\ r = e.receiver /\ node[r].receipt = e.snapshot
              THEN [node[r] EXCEPT !.phase = "idle",
                        !.receipt = None]
              ELSE node[r]]
    /\ UNCHANGED <<wall, mode, source, store, stable, peak, lapsed>>

\* A receipt reaches the distributor.  A receiver that still waits drops its
\* receipt when it is answered 200 or 201, and otherwise keeps it.
DeliverReceipt(e) ==
    /\ e \in mail
    /\ mail' = mail \ {e}
    /\ \E a \in ReceiptAnswers :
        /\ post_receipt(e, a)
        /\ node' = [r \in Expected |->
              IF node[r].phase = "posting" /\ r = e.receiver /\ node[r].receipt = e.snapshot
              THEN [node[r] EXCEPT !.phase = "idle",
                        !.receipt = IF a \in {"recorded", "duplicate"} THEN None ELSE @]
              ELSE node[r]]
    /\ UNCHANGED <<wall, mode, source, store, stable, peak, lapsed>>

ReceiptTimesOut(r) ==
    /\ node[r].phase = "posting"
    /\ Incidents(1)
    /\ \E m \in {mail, mail \ {[receiver |-> r, snapshot |-> node[r].receipt]}} : mail' = m
    /\ SetNode(r, [node[r] EXCEPT !.phase = "idle"])
    /\ UNCHANGED <<dvars, wall, mode, source, store, stable, peak, lapsed>>

-----------------------------------------------------------------------------
(* The environment.                                                          *)

\* A snapshot is published at the distributor, or put in the local file.
PublishNew ==
    \E g \in 1..MaxGeneration, k \in Kind, t \in {wall, wall + 1} \cap 1..MaxClock :
        LET s == [generation |-> g, issued_at |-> t, kind |-> k] IN
        \/ /\ mode = "remote"
           /\ \E a \in {"created", "conflict", "unchanged", "unavailable"} :
                publish_snapshot(s, a)
           /\ UNCHANGED <<wall, mode, source, node, store, stable, mail, peak, lapsed>>
        \/ /\ mode = "file"
           /\ source' = s
           /\ UNCHANGED <<dvars, incidents, wall, mode, node, store, stable, mail, peak, lapsed>>

\* A receiver outside the expected set posts a receipt.
StrayReceipt ==
    /\ mode = "remote"
    /\ current.snapshot # None
    /\ \E r \in Receiver \ Expected, a \in ReceiptAnswers :
        post_receipt([receiver |-> r, snapshot |-> current.snapshot], a)
    /\ UNCHANGED <<wall, mode, source, node, store, stable, mail, peak, lapsed>>

CrashReceiver(r) ==
    /\ node[r].phase # "down"
    /\ Incidents(1)
    /\ SetNode(r, Stopped)
    /\ \E f \in {store[r], stable[r]} : store' = [store EXCEPT ![r] = f]
    /\ UNCHANGED <<dvars, wall, mode, source, stable, mail, peak, lapsed>>

ReceiverTick ==
    /\ wall < MaxClock
    /\ wall' = wall + 1
    /\ UNCHANGED <<dvars, incidents, mode, source, node, store, stable, mail, peak, lapsed>>

ReceiverSetBack ==
    /\ Incidents(1)
    /\ \E w \in 1..(wall - 1) : wall' = w
    /\ UNCHANGED <<dvars, mode, source, node, store, stable, mail, peak, lapsed>>

ReceiverRestart ==
    /\ mode = "remote"
    /\ RestartDistributor
    /\ UNCHANGED <<wall, mode, source, node, store, stable, mail, peak, lapsed>>

WatcherStep(r) ==
    \/ FetchUpdate(r) \/ Accept(r) \/ Activate(r) \/ PostReceipt(r)

ReceiverNext ==
    \/ \E r \in Expected :
        \/ WatcherStep(r) \/ FetchFails(r) \/ FileReload(r) \/ ReceiptTimesOut(r) \/ CrashReceiver(r)
        \/ BootFetch(r) \/ BootAccept(r) \/ BootFile(r) \/ BootActivate(r)
    \/ \E e \in mail : DeliverReceipt(e)
    \/ PublishNew \/ StrayReceipt \/ ReceiverTick \/ ReceiverSetBack \/ ReceiverRestart

ReceiverSpec == ReceiverInit /\ [][ReceiverNext]_receiverVars

\* A running watcher takes its steps in turn, and a posted receipt arrives.
ReceiverFairness ==
    /\ \A r \in Expected : WF_receiverVars(WatcherStep(r))
    /\ WF_receiverVars(\E e \in mail : DeliverReceipt(e))

ReceiverFairSpec == ReceiverSpec /\ ReceiverFairness

-----------------------------------------------------------------------------
Up(r) == node[r].phase \in {"idle", "fetched", "accepted", "report", "posting"}

ReceiverTypeOK ==
    /\ DistributorTypeOK
    /\ mode \in DistributionMode
    /\ source \in Snapshot \cup {None}
    /\ node \in [Expected -> Memory]
    /\ store \in [Expected -> Files] /\ stable \in [Expected -> Files]
    /\ mail \subseteq Receipt
    /\ peak \in [Expected -> Snapshot \cup {None}]

\* A receiver never goes back: the policy it starts or runs with is the last
\* one it has activated or of a higher generation, whatever the distributor
\* serves after a loss, whatever the local file holds, and through crashes and
\* power losses (the floor is synced before a policy is activated).  The one
\* exception: a process killed by a failed directory sync is started again,
\* takes the floor in the file as saved, and a power loss removes it.
NoRollback ==
    \A r \in Expected : peak[r] # None =>
        /\ Up(r) => node[r].active = peak[r]
        /\ node[r].phase = "booted" => \/ node[r].candidate = peak[r]
                                       \/ node[r].candidate.generation > peak[r].generation
                                       \/ lapsed
        /\ lapsed \/ validate_candidate_floor(stable[r].floor, peak[r])

\* The cache is never behind the floor, in the files and on stable storage, so
\* that a restart without the distributor always finds a snapshot that passes
\* its own floor (persist_remote_acceptance caches first).
CacheCoversFloor ==
    mode = "remote" /\ ~ lapsed => \A r \in Expected : \A f \in {store[r], stable[r]} :
        f.floor # None => f.cache # None /\ validate_candidate_floor(f.cache, f.floor)

\* A receipt the distributor holds, or that is on its way, is true for good:
\* its receiver has activated that snapshot or a later one and would, after any
\* crash, accept nothing below it, with the exception that NoRollback has.  An
\* operator reads convergence off these receipts.
ReceiptIsTrue ==
    lapsed \/ \A e \in mail \cup current.receipts :
        /\ Generation(peak[e.receiver]) >= e.snapshot.generation
        /\ Generation(stable[e.receiver].floor) >= e.snapshot.generation

\* A receiver keeps what it has activated.
ReceiverKeeps == ReceiverTypeOK /\ NoRollback /\ CacheCoversFloor

\* Receipts say what is so, and fit what is served (ReceiptIsTrue, ReceiptsFit).
ReceiptsAreTrue == ReceiptIsTrue /\ ReceiptsFit

\* The receivers converge: again and again each expected receiver has its
\* receipt for the current snapshot at the distributor, or there is a reason:
\* it is not running, its persistence has failed, the distributor is poisoned,
\* has no snapshot or has lost its unsynced state, or the snapshot is one the receiver may not activate
\* (credential, validity, floor), or one it accepted too late to activate.
Converges ==
    \A r \in Expected : []<>(
        \/ mode = "file"
        \/ current.snapshot = None \/ poison \/ undone
        \/ [receiver |-> r, snapshot |-> current.snapshot] \in current.receipts
        \/ ~ Up(r) \/ node[r].latched
        \/ ~ Acceptable(current.snapshot, Observed(r), node[r].floor)
        \/ node[r].floor # node[r].active )

=============================================================================
