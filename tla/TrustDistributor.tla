-------------------------- MODULE TrustDistributor --------------------------
(***************************************************************************)
(* The trust distributor (trust-distributor/src/lib.rs): it keeps the      *)
(* current signed policy snapshot and the receipts of the receivers that   *)
(* have applied it, in memory and in one state file, and serves both over  *)
(* HTTP.  The renewer (TrustRenewal) and the receivers (TrustReceiver) are *)
(* its clients and extend this module.                                     *)
(*                                                                         *)
(* A snapshot is its generation, its issue time and its kind: "ours" is    *)
(* signed by the renewer's root key and follows its template, "other" is   *)
(* signed by a second root.  Signing is deterministic, so equal fields are *)
(* equal bytes and equal hashes.                                           *)
(***************************************************************************)
EXTENDS Integers, FiniteSets

CONSTANTS
    None,
    Receiver,        \* receivers that may post a receipt
    Expected,        \* expected_receivers of the configuration
    policy_lifetime, \* every snapshot expires this long after its issue
    MaxGeneration, MaxClock, MaxIncidents  \* bounds

\* parse_expected_receivers, without the spelling of names.
receivers_are_valid == Expected # {} /\ Expected \subseteq Receiver

ASSUME ExpectedType == receivers_are_valid
ASSUME LifetimeType == policy_lifetime \in Nat \ {0}
ASSUME TrustBounds == MaxGeneration \in Nat /\ MaxClock \in Nat \ {0} /\ MaxIncidents \in Nat

\* Snapshots of either kind trust a credential of every expected receiver's
\* service; validate_expected_receivers refuses any other.
Kind == {"ours", "other"}
Snapshot == [generation : 1..MaxGeneration, issued_at : 1..MaxClock, kind : Kind]
Receipt == [receiver : Receiver, snapshot : Snapshot]

ASSUME NoSnapshot == None \notin Snapshot

VARIABLES
    wall,      \* wall time, 0 when a renewer cannot read it
    current,   \* durable: the state in memory
    dfile,     \* the state file
    dstable,   \* what of it survives a power loss
    poison,    \* mutation_poison is set
    roots,     \* kinds whose root the distributor trusts
    acked,     \* history: snapshots whose publication was answered 201 or 200
    reloaded,  \* history: the state loaded at startup had not been synced
    undone,    \* history: a power loss took an unsynced replacement back
    incidents  \* failures, crashes and other trouble so far

dhistory == <<acked, reloaded, undone>>
dvars == <<current, dfile, dstable, poison, roots, dhistory>>

DurableState == [snapshot : Snapshot \cup {None}, receipts : SUBSET Receipt]

Generation(s) == IF s = None THEN 0 ELSE s.generation
Expiry(s) == s.issued_at + policy_lifetime

DistributorInit ==
    /\ wall = 1
    /\ current = [snapshot |-> None, receipts |-> {}]
    /\ dfile = current /\ dstable = current
    /\ poison = FALSE
    /\ roots = Kind
    /\ acked = {} /\ reloaded = FALSE /\ undone = FALSE
    /\ incidents = 0

-----------------------------------------------------------------------------
(* Replacing a state file: a temporary file is written and synced, renamed   *)
(* over the old one, and the directory is synced.                            *)

\* How a replacement can end: done, failed before the rename, or after it.
Outcome == {"ok", "before", "after"}

\* What a replacement makes of a file and of its stable content.
Replaced(old, new, outcome) == IF outcome = "before" THEN old ELSE new
Stabilized(old, new, outcome) == IF outcome = "ok" THEN new ELSE old

\* Trouble of all sorts is drawn from one budget.
Incidents(n) ==
    /\ incidents + n <= MaxIncidents
    /\ incidents' = incidents + n

Faults(outcome) == IF outcome = "ok" THEN 0 ELSE 1

\* Mutant of persist_next: an unsynced replacement does not stop mutations.
UnpoisonedPersist(next, outcome) ==
    /\ current' = Replaced(current, next, outcome)
    /\ dfile' = Replaced(dfile, next, outcome)
    /\ dstable' = Stabilized(dstable, next, outcome)
    /\ UNCHANGED poison
    /\ Incidents(Faults(outcome))

\* Memory follows the file, also when its durability is uncertain: then, or
\* when the storage task dies, no mutation is taken until a restart.
persist_next(next, outcome) ==
    /\ current' = Replaced(current, next, outcome)
    /\ dfile' = Replaced(dfile, next, outcome)
    /\ dstable' = Stabilized(dstable, next, outcome)
    /\ poison' = (poison \/ outcome = "after")
    /\ Incidents(Faults(outcome))

\* The blocking task panics at any point, before memory follows.  The code takes
\* the lock again to set the poison, so that a handler that was waiting for it may
\* get in before; here the lock is kept.
storage_task_dies(next) ==
    /\ poison' = TRUE
    /\ \E outcome \in Outcome :
        /\ dfile' = Replaced(dfile, next, outcome)
        /\ dstable' = Stabilized(dstable, next, outcome)
    /\ Incidents(1)
    /\ UNCHANGED current

-----------------------------------------------------------------------------
(* The handlers.  Each has an answer a of a given class.                     *)

\* A ring of root keys verifies the snapshots that its roots have signed.
ring_verifies(ring, s) == s.kind \in ring

\* The snapshot is of this cluster and signed by a trusted root.
verify_snapshot(s) == ring_verifies(roots, s)

\* Which answer the checks of publish_snapshot lead to, before storage.
publish_checks(s) ==
    IF ~ verify_snapshot(s) THEN "rejected"
    ELSE IF poison THEN "unavailable"
    ELSE IF s.generation > Generation(current.snapshot) THEN "created"
    ELSE IF s = current.snapshot THEN "unchanged"
    ELSE "conflict"

\* A new generation starts with no receipts.
Successor(s) == [snapshot |-> s, receipts |-> {}]

publish_snapshot(s, a) ==
    \/ /\ a = publish_checks(s)
       /\ a # "created"
       /\ acked' = acked \cup (IF a = "unchanged" /\ ~ reloaded THEN {s} ELSE {})
       /\ UNCHANGED <<current, dfile, dstable, poison, roots, reloaded, undone, incidents>>
    \/ /\ publish_checks(s) = "created"
       /\ \/ \E outcome \in Outcome :
                /\ persist_next(Successor(s), outcome)
                /\ a = IF outcome = "ok" THEN "created" ELSE "unavailable"
                /\ acked' = acked \cup (IF outcome = "ok" THEN {s} ELSE {})
                /\ reloaded' = (reloaded /\ outcome # "ok")
          \/ /\ storage_task_dies(Successor(s))
             /\ a = "unavailable"
             /\ UNCHANGED <<acked, reloaded>>
       /\ UNCHANGED <<roots, undone>>

\* A receipt is recorded for the exact current snapshot, once per receiver.  The
\* receipts of this model are signed by their receiver with a credential that the
\* snapshot trusts: the refusal of any other signature changes nothing.
receipt_receiver_slot(r) == r.receiver \in Expected

receipt_matches_snapshot(r, s) == r.snapshot = s

\* Mutant of receipt_checks: the snapshot a receipt names is not compared.
AnyReceipt(r) ==
    IF poison THEN "unavailable"
    ELSE IF current.snapshot = None THEN "missing"
    ELSE IF ~ receipt_receiver_slot(r) THEN "forbidden"
    ELSE IF \E e \in current.receipts : e.receiver = r.receiver THEN "duplicate"
    ELSE "recorded"

receipt_checks(r) ==
    IF poison THEN "unavailable"
    ELSE IF current.snapshot = None THEN "missing"
    ELSE IF ~ receipt_receiver_slot(r) THEN "forbidden"
    ELSE IF ~ receipt_matches_snapshot(r, current.snapshot) THEN "mismatch"
    ELSE IF \E e \in current.receipts : e.receiver = r.receiver THEN "duplicate"
    ELSE "recorded"

WithReceipt(r) == [current EXCEPT !.receipts = @ \cup {r}]

post_receipt(r, a) ==
    \/ /\ a = receipt_checks(r)
       /\ a # "recorded"
       /\ UNCHANGED <<dvars, incidents>>
    \/ /\ receipt_checks(r) = "recorded"
       /\ \/ \E outcome \in Outcome :
                /\ persist_next(WithReceipt(r), outcome)
                /\ a = IF outcome = "ok" THEN "recorded" ELSE "unavailable"
          \/ /\ storage_task_dies(WithReceipt(r))
             /\ a = "unavailable"
       /\ UNCHANGED <<roots, dhistory>>

\* What GET answers: nothing has been published, the snapshot the client
\* names by its ETag is still current, or the current snapshot.
get_snapshot(etag) ==
    IF current.snapshot = None THEN "missing"
    ELSE IF current.snapshot = etag THEN "not_modified"
    ELSE "snapshot"

\* The state that open accepts under a configuration trusting the kinds k.
validate_durable_state(d, k) ==
    IF d.snapshot = None
    THEN d.receipts = {}
    ELSE /\ ring_verifies(k, d.snapshot)
         /\ \A r \in d.receipts :
                receipt_receiver_slot(r) /\ receipt_matches_snapshot(r, d.snapshot)
         /\ \A r, e \in d.receipts : r.receiver = e.receiver => r = e

\* The process ends and is started again, perhaps with other roots; a power
\* loss also takes back what was not synced.
RestartDistributor ==
    /\ Incidents(1)
    /\ \E f \in {dfile, dstable}, k \in SUBSET Kind :
        /\ validate_durable_state(f, k)
        /\ current' = f /\ dfile' = f
        /\ reloaded' = (f # dstable)
        /\ undone' = (undone \/ f # dfile)
        /\ roots' = k
    /\ poison' = FALSE
    /\ UNCHANGED <<dstable, acked>>

-----------------------------------------------------------------------------
DistributorTypeOK ==
    /\ wall \in 0..MaxClock
    /\ {current, dfile, dstable} \subseteq DurableState
    /\ poison \in BOOLEAN
    /\ roots \subseteq Kind
    /\ acked \subseteq Snapshot
    /\ {reloaded, undone} \subseteq BOOLEAN
    /\ incidents \in 0..MaxIncidents

\* A snapshot whose publication was answered with 201, or with 200 unchanged,
\* is never forgotten: what survives a power loss is that snapshot or one of a
\* higher generation, whatever storage failures and restarts there were
\* (publish_snapshot answers after the directory sync, and takes nothing more
\* once a sync has failed).  The one exception is a 200 for a snapshot that
\* the process loaded at startup from a replacement that never was synced.
AcknowledgedSurvives ==
    \A s \in acked :
        \/ dstable.snapshot = s
        \/ Generation(dstable.snapshot) > s.generation

\* The receipts in memory, in the file and on stable storage are about the
\* snapshot next to them and one per expected receiver, so that a restart
\* never refuses its own file (validate_durable_state fails the startup).
ReceiptsFit ==
    \A d \in {current, dfile, dstable} : validate_durable_state(d, Kind)

=============================================================================
