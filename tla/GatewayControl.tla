--------------------------- MODULE GatewayControl ---------------------------
(***************************************************************************)
(* How a gateway follows the control plane: startup and the watcher of     *)
(* gateway/src/main.rs with the routing snapshot file                      *)
(* (routing_snapshot_store.rs), the routing lease (routing_lease.rs) and   *)
(* the order of signing keys (control_authentication.rs).  The nodes it    *)
(* polls are the abstract ConfigService.                                   *)
(*                                                                         *)
(* One gateway starts from a live answer or from its file, then polls.  A  *)
(* newer configuration, or the same one under a preferred key, is saved    *)
(* before it is routed by.  Lease deadlines are on the monotonic clock,    *)
(* saved_at is wall time, which may be set back.                           *)
(***************************************************************************)
EXTENDS Integers, Sequences, FiniteSets

CONSTANTS
    Node, Noop, None,
    Command,               \* configurations that may be committed
    Keys,                  \* signing keys 1..Keys in order of preference
    lease_duration,
    maximum_age,
    maximum_future_skew,
    MaxHistory, MaxClock, MaxSetback, MaxFailures, MaxCrashes  \* bounds

ASSUME LeaseIsPositive == lease_duration \in Nat \ {0}
ASSUME FreshnessPolicy == maximum_age \in Nat /\ maximum_future_skew \in Nat
ASSUME KeysType == Keys \in Nat \ {0}
ASSUME CommandType == None \notin Command /\ Noop \notin Command
ASSUME BoundsType == /\ MaxHistory \in Nat /\ MaxClock \in Nat /\ MaxSetback \in Nat
                     /\ MaxFailures \in Nat /\ MaxCrashes \in Nat

VARIABLES
    history, view, served, broken,  \* the control plane
    signing,     \* signing[n]: the key node n signs its answers with
    clock,       \* monotonic time
    setback,     \* how far wall time is behind it
    file,        \* the snapshot file
    stable,      \* what of it survives a power loss
    revoked,     \* keys the gateway is configured to refuse
    phase,       \* the gateway process: down, starting or up
    persisted,   \* the file as startup has loaded it
    answer,      \* the usable answer of a poll, not yet handled
    routing,     \* RoutingSnapshot: configuration and key
    deadline,    \* of the lease
    peak,        \* history: the highest revision and key routed by
    verified_at, \* history: when an answer was last found good
    undone,      \* history: a power loss took an unsynced rename back
    failures, crashes

control == <<history, view, served, broken, signing>>
time    == <<clock, setback>>
disk    == <<file, stable, failures>>
process == <<phase, persisted, answer, routing, deadline>>
ghosts  == <<peak, verified_at, undone>>
vars == <<control, time, disk, revoked, process, ghosts, crashes>>

Control == INSTANCE ConfigService

Key == 1..Keys
Config == [revision : 1..MaxHistory, term : {1}, cmd : Command]
Held == [config : Config, key : Key]
Saved == [config : Config, key : Key, saved_at : Int]

ASSUME NoneIsNothing == None \notin Config \cup Held \cup Saved

wall == clock - setback

-----------------------------------------------------------------------------
Init ==
    /\ Control!Init
    /\ signing = [n \in Node |-> 1]
    /\ clock = 0 /\ setback = 0
    /\ file = None /\ stable = None
    /\ revoked = {}
    /\ phase = "down" /\ persisted = None /\ answer = None /\ routing = None
    /\ deadline = 0
    /\ peak = [revision |-> 0, key |-> 1] /\ verified_at = 0 /\ undone = FALSE
    /\ failures = 0 /\ crashes = 0

-----------------------------------------------------------------------------
(* The control plane and time.                                               *)

\* A node sees more of the history, to which it may add a configuration.  A
\* leader's no-ops change nothing a gateway can see and are left out.
Learn(n) ==
    /\ \E h \in {history} \cup {Append(history, [term |-> 1, cmd |-> c]) : c \in Command} :
        /\ Len(h) <= MaxHistory
        /\ history' = h
        /\ \E k \in 1..Len(h) :
            /\ view' = [view EXCEPT ![n] = k]
            /\ served' = [served EXCEPT ![n] = Control!Latest(h, k)]
    /\ UNCHANGED broken
    /\ Control!Learn(n)
    /\ UNCHANGED <<signing, time, disk, revoked, process, ghosts, crashes>>

\* A node is restarted with the next signing key.
SwitchKey(n) ==
    /\ signing[n] < Keys
    /\ signing' = [signing EXCEPT ![n] = @ + 1]
    /\ UNCHANGED <<history, view, served, broken, time, disk, revoked, process,
                   ghosts, crashes>>

Tick ==
    /\ clock < MaxClock
    /\ clock' = clock + 1
    /\ UNCHANGED <<control, setback, disk, revoked, process, ghosts, crashes>>

SetBack ==
    /\ setback < MaxSetback
    /\ setback' = setback + 1
    /\ UNCHANGED <<control, clock, disk, revoked, process, ghosts, crashes>>

-----------------------------------------------------------------------------
(* The file and the lease.                                                   *)

Snapshot(a) == [config |-> a.config, key |-> a.key, saved_at |-> wall]

\* Mutant of Save: nothing is synced.
SaveUnsynced(a) ==
    /\ file' = Snapshot(a)
    /\ UNCHANGED <<stable, failures>>

\* save writes, renames and syncs the directory.
Save(a) ==
    /\ file' = Snapshot(a) /\ stable' = Snapshot(a)
    /\ UNCHANGED failures

\* save fails before the rename, or after it without a synced directory.
SaveFails(a) ==
    /\ failures < MaxFailures
    /\ failures' = failures + 1
    /\ \/ UNCHANGED file
       \/ file' = Snapshot(a)
    /\ UNCHANGED stable

NonNegative(d) == IF d > 0 THEN d ELSE 0
Age(s) == NonNegative(wall - s.saved_at)

\* validate_snapshot_freshness.
Eligible(s) == s.saved_at - wall <= maximum_future_skew /\ Age(s) <= maximum_age

\* RoutingLeaseGuard::from_live and renew.
NewDeadline == clock + lease_duration

\* admit_new: requests are admitted.
Fresh == phase = "up" /\ clock < deadline

\* Mutant of DiskDeadline: a full lease for an old snapshot.
FullDeadline(s) == NewDeadline

\* RoutingLeaseGuard::from_disk.
DiskDeadline(s) == clock + NonNegative(lease_duration - Age(s))

-----------------------------------------------------------------------------
(* What an answer is worth against a snapshot held.                          *)

\* Mutant of Downgrade: no other key will do.
OtherKey(held, a) == a.key # held.key

\* key_transition: the answer is signed with a less preferred key.
Downgrade(held, a) == a.key < held.key

\* Mutant of Older: a node that lags behind is believed.
NotOlder(held, a) == FALSE

Older(held, a) == a.config.revision < held.config.revision

\* Mutant of same_routing_payload: the signature is compared too.
same_answer(x, y) == x = y

\* same_routing_payload: signatures do not count.
same_routing_payload(x, y) == x.config = y.config

Divergent(held, a) ==
    /\ a.config.revision = held.config.revision
    /\ ~same_routing_payload([config |-> held.config, key |-> held.key], a)

\* The loaded file is there and passes authentication.
Trusted(s) == s # None /\ s.key \notin revoked

\* Startup keeps to the file although it has a live answer.
FilePreferred == /\ answer # None /\ Trusted(persisted)
                 /\ Downgrade(persisted, answer) \/ Older(persisted, answer)

-----------------------------------------------------------------------------
(* The gateway.                                                              *)

\* Startup loads the file.
Start ==
    /\ phase = "down"
    /\ phase' = "starting"
    /\ persisted' = file
    /\ UNCHANGED <<control, time, disk, revoked, answer, routing, deadline,
                   ghosts, crashes>>

\* fetch_control_configuration: the first node with a usable answer.  Those
\* before it did not answer, or with nothing that verifies.
Fetch(n) ==
    /\ phase # "down" /\ answer = None
    /\ served[n] # None /\ signing[n] \notin revoked
    /\ answer' = [config |-> served[n], key |-> signing[n]]
    /\ UNCHANGED <<control, time, disk, revoked, phase, persisted, routing,
                   deadline, ghosts, crashes>>

Max2(x, y) == IF x > y THEN x ELSE y

Route(s, d) ==
    /\ phase' = "up"
    /\ routing' = [config |-> s.config, key |-> s.key]
    /\ deadline' = d
    /\ peak' = [revision |-> Max2(peak.revision, s.config.revision),
                key |-> Max2(peak.key, s.key)]
    /\ persisted' = None /\ answer' = None

GoDown ==
    /\ phase' = "down"
    /\ persisted' = None /\ answer' = None /\ routing' = None /\ deadline' = 0
    /\ UNCHANGED peak

\* bootstrap_control_configuration takes the live answer, which is saved.
StartLive ==
    /\ phase = "starting" /\ answer # None
    /\ ~FilePreferred
    /\ persisted # None => ~Divergent(persisted, answer)
    /\ Save(answer)
    /\ Route(answer, NewDeadline)
    /\ verified_at' = clock
    /\ UNCHANGED <<control, time, revoked, undone, crashes>>

\* The same, when the file cannot be written: startup fails.
StartUnsaved ==
    /\ phase = "starting" /\ answer # None
    /\ ~FilePreferred
    /\ persisted # None => ~Divergent(persisted, answer)
    /\ SaveFails(answer)
    /\ GoDown
    /\ verified_at' = clock
    /\ UNCHANGED <<control, time, revoked, undone, crashes>>

\* Startup uses the file: no live answer in time, or one it may not step back to.
StartFromDisk ==
    /\ phase = "starting"
    /\ answer = None \/ FilePreferred
    /\ Trusted(persisted) /\ Eligible(persisted)
    /\ Route(persisted, DiskDeadline(persisted))
    /\ UNCHANGED <<control, time, disk, revoked, verified_at, undone, crashes>>

NothingUsable ==
    IF answer = None \/ FilePreferred
    THEN ~(Trusted(persisted) /\ Eligible(persisted))
    ELSE persisted # None /\ Divergent(persisted, answer)

\* Startup has nothing it may use.
StartFails ==
    /\ phase = "starting"
    /\ NothingUsable
    /\ GoDown
    /\ UNCHANGED <<control, time, disk, revoked, verified_at, undone, crashes>>

\* watch_control_plane: an answer to apply, for its revision or its key.
Refused == Downgrade(routing, answer) \/ Older(routing, answer) \/ Divergent(routing, answer)
Newer == \/ answer.config.revision > routing.config.revision
         \/ answer.key > routing.key

Polled == phase = "up" /\ answer # None

PollRefuses ==
    /\ Polled /\ Refused
    /\ answer' = None
    /\ UNCHANGED <<control, time, disk, revoked, phase, persisted, routing,
                   deadline, ghosts, crashes>>

\* The same configuration under the same key renews the lease only.
PollRenews ==
    /\ Polled /\ ~Refused /\ ~Newer
    /\ answer' = None
    /\ deadline' = NewDeadline
    /\ verified_at' = clock
    /\ UNCHANGED <<control, time, disk, revoked, phase, persisted, routing,
                   peak, undone, crashes>>

PollApplies ==
    /\ Polled /\ ~Refused /\ Newer
    /\ Save(answer)
    /\ Route(answer, NewDeadline)
    /\ verified_at' = clock
    /\ UNCHANGED <<control, time, revoked, undone, crashes>>

\* A configuration that cannot be saved is not applied and renews nothing.
PollUnsaved ==
    /\ Polled /\ ~Refused /\ Newer
    /\ SaveFails(answer)
    /\ answer' = None
    /\ verified_at' = clock
    /\ UNCHANGED <<control, time, revoked, phase, persisted, routing, deadline,
                   peak, undone, crashes>>

\* The process dies.
Crash ==
    /\ phase # "down" /\ crashes < MaxCrashes
    /\ crashes' = crashes + 1
    /\ GoDown
    /\ UNCHANGED <<control, time, disk, revoked, verified_at, undone>>

\* The machine loses power: an unsynced rename may be undone.
PowerLoss ==
    /\ phase # "down" /\ crashes < MaxCrashes
    /\ crashes' = crashes + 1
    /\ file' \in {file, stable} /\ stable' = file'
    /\ undone' = (undone \/ file' # file)
    /\ GoDown
    /\ UNCHANGED <<control, time, failures, revoked, verified_at>>

\* The operator sees the gateway use a later key and restarts it with the
\* earlier ones revoked.
Revoke ==
    /\ phase = "up" /\ 1..(routing.key - 1) # revoked
    /\ revoked' = 1..(routing.key - 1)
    /\ GoDown
    /\ UNCHANGED <<control, time, disk, verified_at, undone, crashes>>

Next ==
    \/ \E n \in Node : Learn(n)
    \/ \E n \in Node : SwitchKey(n)
    \/ Tick \/ SetBack
    \/ Start
    \/ \E n \in Node : Fetch(n)
    \/ StartLive \/ StartUnsaved \/ StartFromDisk \/ StartFails
    \/ PollRefuses \/ PollRenews \/ PollApplies \/ PollUnsaved
    \/ Crash \/ PowerLoss \/ Revoke

Spec == Init /\ [][Next]_vars

\* What the gateway does without waiting for anybody.
Gateway ==
    \/ StartLive \/ StartFromDisk \/ StartFails
    \/ PollRefuses \/ PollRenews \/ PollApplies

\* Every node catches up and gets the last key; a gateway that is down is
\* started again; of nodes that are asked again and again some answers in time.
Fairness ==
    /\ WF_vars(\E n \in Node : Learn(n) /\ history' = history /\ view'[n] = Len(history))
    /\ WF_vars(\E n \in Node : SwitchKey(n))
    /\ WF_vars(Start \/ Gateway)
    /\ SF_vars(\E n \in Node : Fetch(n))

FairSpec == Spec /\ Fairness

-----------------------------------------------------------------------------
(* Properties.                                                               *)

\* Type correctness of the gateway's own state.
TypeOK ==
    /\ clock \in Nat /\ setback \in 0..MaxSetback
    /\ signing \in [Node -> Key]
    /\ file \in Saved \cup {None} /\ stable \in Saved \cup {None}
    /\ persisted \in Saved \cup {None}
    /\ revoked \subseteq Key
    /\ phase \in {"down", "starting", "up"}
    /\ answer \in Held \cup {None}
    /\ routing \in Held \cup {None} /\ (routing # None <=> phase = "up")
    /\ deadline \in Nat /\ verified_at \in Nat
    /\ peak \in [revision : 0..MaxHistory, key : Key]
    /\ failures \in 0..MaxFailures /\ crashes \in 0..MaxCrashes

\* "Applied and persisted revisions never move backward": over polls of lagging
\* nodes, failed saves, crashes and power losses, the gateway never routes by an
\* older revision or a less preferred key than it once did, unless a power loss
\* took back a rename whose sync had failed.
NeverMovesBack ==
    phase = "up" /\ ~undone => /\ routing.config.revision = peak.revision
                    /\ routing.key = peak.key

AtLeast(s, held) == /\ s # None
                    /\ s.config.revision >= held.config.revision
                    /\ s.key >= held.key

\* Persist before publish: what the gateway routes by is in the file, and on
\* stable storage unless a save has failed.
SavedBeforeRouted ==
    phase = "up" => /\ AtLeast(file, routing)
                    /\ failures = 0 => AtLeast(stable, routing)

\* The two errors for divergent content at one revision never hit a gateway of
\* an honest cluster, also while keys are being rotated.
NoFalseDivergence ==
    answer # None =>
        /\ phase = "up" => ~Divergent(routing, answer)
        /\ persisted # None => ~Divergent(persisted, answer)

\* The gateway admits new requests only within the lease from the last good
\* answer, plus the time by which the wall clock was set back, also over restarts:
\* "Disk bootstrap never resets already-spent snapshot age to a full lease".
LeaseIsSpent == Fresh => clock < verified_at + lease_duration + setback

\* Once the control plane is quiet, the gateway comes up and stays with its
\* latest configuration, whatever failed or was rotated before.
GatewayFollows ==
    <>[](LET latest == Control!Latest(history, Len(history))
         IN latest # None => phase = "up" /\ routing.config = latest)
=============================================================================
