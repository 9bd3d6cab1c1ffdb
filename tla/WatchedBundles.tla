--------------------------- MODULE WatchedBundles ---------------------------
(***************************************************************************)
(* A process that takes its identity from a watched file and hands over to *)
(* a new one without a restart.  Three watchers share the scheme, and      *)
(* `kind' says which of them runs:                                         *)
(*   "control"  a control node's signing bundle; a candidate must be       *)
(*              eligible under the active trust policy, which another task *)
(*              replaces (control-plane/src/main.rs, service-auth's        *)
(*              signing_bundle.rs, control-plane's service_trust.rs);      *)
(*   "gateway"  a gateway's signing bundle (gateway/src/main.rs);          *)
(*   "tls"      a TLS identity, published to the running server or client  *)
(*              (transport-security/src/identity_bundle.rs and its users   *)
(*              in trust-distributor/src/main.rs and service_trust.rs).    *)
(*                                                                         *)
(* The file's contents are a bundle, damaged bytes (whatever `decode' or   *)
(* the permission checks refuse) or nothing.  A stamp stands for the       *)
(* metadata a watcher compares; every change of the file gives it a new    *)
(* one.  The operator, the clock and the distributor of policies are the   *)
(* environment.                                                            *)
(***************************************************************************)
EXTENDS Naturals, FiniteSets

CONSTANTS
    Nothing, Damaged,   \* the missing value; bytes that are no bundle
    Credential,      \* signing keys, or leaf certificates
    MaxBundle,   \* bound on the generations of bundles
    MaxPolicy,       \* bound on the generations of policies
    MaxStamp,        \* bound on the changes of the file
    MaxDate,        \* bound on the clock
    MaxMishaps     \* bound on the failures of a read or of a publication

ASSUME BoundsPositive ==
    /\ {MaxBundle, MaxPolicy, MaxStamp, MaxDate} \subseteq Nat \ {0}
    /\ MaxMishaps \in Nat

VARIABLES
    kind,        \* which watcher this is
    clock,       \* wall time
    file,        \* the watched file: its stamp and its contents
    active,      \* the bundle in use
    runtime,     \* the bundle the TLS server or client was built from
    last_error,  \* why the last candidate was not taken, in the status
    watcher,     \* the watcher loop, and the iteration it is in
    policy,      \* the active trust policy of a control node
    offered,     \* a policy checked against the signer and not yet activated
    mishaps    \* failures so far

vars == <<kind, clock, file, active, runtime, last_error, watcher, policy,
          offered, mishaps>>

\* A bundle: `ca' is the issuer it pins and `from' the start of its validity;
\* signing bundles have neither.
Bundle == [generation : 1..MaxBundle, credential : Credential,
           ca : {"pinned", "other"}, from : 0..MaxDate]
BundlesOf(k) ==
    {b \in Bundle : k # "tls" => b.ca = "pinned" /\ b.from = 0}
Policy == [generation : 1..MaxPolicy, trusted : SUBSET Credential \ {{}},
           expires_at : 1..MaxDate + 1]

\* None is not a value, and damaged bytes are not a bundle.
ASSUME NothingIsNone ==
    /\ Nothing \notin Bundle \cup Policy \cup Nat
    /\ Damaged \notin Bundle

Idle == [phase |-> "idle", seen |-> Nothing, under |-> Nothing, loaded |-> Nothing,
         completed |-> Nothing, rejected |-> Nothing]

-----------------------------------------------------------------------------
(* The checks.                                                               *)

trust_policy_is_expired(p) == clock >= p.expires_at

\* The candidate's key verifies under the policy that is active right now.
service_signer_is_eligible(b) ==
    ~trust_policy_is_expired(policy) /\ b.credential \in policy.trusted

validate_local_signing_credential(p) == active.credential \in p.trusted

Validator(b) == kind = "control" => service_signer_is_eligible(b)

read_bundle_file(contents) == contents # Nothing
decode(contents) == contents # Damaged
\* Of the checks of the certificate, the one whose verdict time can change.
validate_certificate(b) == b.from <= clock

\* What `load' makes of the file: a candidate, or the kind of its error.
load(contents) ==
    IF ~read_bundle_file(contents) THEN "unavailable"
    ELSE IF ~decode(contents) THEN "invalid"
    ELSE IF ~validate_certificate(contents) THEN "not_yet_valid"
    ELSE "loaded"

\* The source errors after which the same file is tried again.
Retried(error) == error \in {"unavailable", "not_yet_valid"}

semantically_matches(b) == b = active
issuer_ca_matches(b) == b.ca = active.ca

\* What activate_bundle answers; a candidate of the active generation is
\* either the active bundle itself or a fork of it.
Verdict(b) ==
    IF b.generation < active.generation THEN "stale_generation"
    ELSE IF semantically_matches(b) THEN "unchanged"
    ELSE IF b.generation = active.generation THEN "generation_fork"
    ELSE IF ~issuer_ca_matches(b) THEN "issuer_ca_mismatch"
    ELSE IF ~Validator(b) THEN "candidate_rejected"
    ELSE "activated"

-----------------------------------------------------------------------------
(* The watcher loop, in the steps other tasks can see.                       *)

\* The metadata of the file; 0 stands for `Unavailable'.
Stamp == IF file.contents = Nothing THEN 0 ELSE file.stamp

\* A tick: the metadata of the file, before anything else is read.
Observe ==
    /\ watcher.phase = "idle"
    /\ \/ /\ watcher' = [watcher EXCEPT !.phase = "observed", !.seen = Stamp]
          /\ UNCHANGED mishaps
       \/ /\ mishaps < MaxMishaps
          /\ mishaps' = mishaps + 1
          /\ watcher' = [watcher EXCEPT !.phase = "observed", !.seen = 0]
    /\ UNCHANGED <<kind, clock, file, active, runtime, last_error, policy, offered>>

\* Mutant of poll: what the policy refused once is not tried again.
FinalRejection ==
    LET w == watcher
        skipped == \/ w.completed = w.seen
                   \/ w.rejected # Nothing /\ w.rejected[1] = w.seen
    IN /\ w.phase = "observed"
       /\ watcher' =
             IF skipped
             THEN [w EXCEPT !.phase = "idle", !.seen = Nothing]
             ELSE [w EXCEPT !.phase = "load", !.under = policy.generation,
                            !.completed = Nothing]
       /\ UNCHANGED <<kind, clock, file, active, runtime, last_error, policy,
                      offered, mishaps>>

\* A file that was dealt with is skipped, and so is one whose candidate the
\* policy of this same generation refused.  The gateway's `last_observation'
\* counts as completed unless `retry_unchanged_source' is set.
poll ==
    LET w == watcher
        skipped == \/ w.completed = w.seen
                   \/ w.rejected = <<w.seen, policy.generation>>
    IN /\ w.phase = "observed"
       /\ watcher' =
             IF skipped
             THEN [w EXCEPT !.phase = "idle", !.seen = Nothing]
             ELSE [w EXCEPT
                     !.phase = "load",
                     !.under = policy.generation,
                     !.completed = Nothing,
                     !.rejected = IF @ # Nothing /\ @[1] # w.seen THEN Nothing ELSE @]
       /\ UNCHANGED <<kind, clock, file, active, runtime, last_error, policy,
                      offered, mishaps>>

\* The iteration ends: what it observed is completed, is remembered as refused
\* by the policy that was active when it began, or is tried again.
Ended(completed, rejected) ==
    [Idle EXCEPT !.completed = IF completed THEN watcher.seen ELSE watcher.completed,
                 !.rejected = rejected]

\* The file could not be used: the last known good bundle stays.
SourceFails(error) ==
    /\ watcher.phase = "load"
    /\ watcher' = Ended(~Retried(error), Nothing)
    /\ last_error' = error
    /\ UNCHANGED <<kind, clock, file, active, runtime, policy, offered>>

Load ==
    /\ watcher.phase = "load"
    /\ load(file.contents) = "loaded"
    /\ watcher' = [watcher EXCEPT !.phase = "activate", !.loaded = file.contents]
    /\ UNCHANGED <<kind, clock, file, active, runtime, last_error, policy, offered, mishaps>>

Refuse ==
    /\ load(file.contents) # "loaded"
    /\ SourceFails(load(file.contents))
    /\ UNCHANGED mishaps

\* A read fails, or the file was replaced between its metadata and its opening.
ReadFails ==
    /\ mishaps < MaxMishaps
    /\ mishaps' = mishaps + 1
    /\ SourceFails("unavailable")

Taken(b) ==
    /\ active' = b
    /\ runtime' = IF kind = "tls" THEN b ELSE runtime
    /\ last_error' = Nothing
    /\ watcher' = Ended(TRUE, Nothing)
    /\ UNCHANGED <<kind, clock, file, policy, offered, mishaps>>

NotTaken(verdict) ==
    /\ last_error' = IF verdict = "unchanged" THEN Nothing ELSE verdict
    /\ watcher' = IF verdict = "candidate_rejected"
                  THEN Ended(FALSE, <<watcher.seen, watcher.under>>)
                  ELSE Ended(TRUE, Nothing)
    /\ UNCHANGED <<kind, clock, file, active, runtime, policy, offered, mishaps>>

\* Mutant of activate_bundle: the policy's answer is not asked for again once
\* the key was trusted by the policy of the poll.
UnlockedActivate ==
    LET b == watcher.loaded
    IN /\ watcher.phase = "activate"
       /\ IF Verdict(b) = "activated"
             \/ (Verdict(b) = "candidate_rejected" /\ watcher.under # policy.generation)
          THEN Taken(b)
          ELSE NotTaken(Verdict(b))

\* Under the signer's write lock: the generation checks, then the validator or
\* the publication, then the switch.
activate_bundle ==
    LET b == watcher.loaded
    IN /\ watcher.phase = "activate"
       /\ IF Verdict(b) = "activated" THEN Taken(b) ELSE NotTaken(Verdict(b))

\* Mutant of PublishFails: the bundle is recorded before it is published.
RecordedFirst ==
    /\ kind = "tls"
    /\ watcher.phase = "activate"
    /\ Verdict(watcher.loaded) = "activated"
    /\ mishaps < MaxMishaps
    /\ mishaps' = mishaps + 1
    /\ active' = watcher.loaded
    /\ last_error' = "runtime_configuration"
    /\ watcher' = Ended(TRUE, Nothing)
    /\ UNCHANGED <<kind, clock, file, runtime, policy, offered>>

\* The server configuration or the client cannot be built from the bundle.
PublishFails ==
    /\ kind = "tls"
    /\ watcher.phase = "activate"
    /\ Verdict(watcher.loaded) = "activated"
    /\ mishaps < MaxMishaps
    /\ mishaps' = mishaps + 1
    /\ last_error' = "runtime_configuration"
    /\ watcher' = Ended(TRUE, Nothing)
    /\ UNCHANGED <<kind, clock, file, active, runtime, policy, offered>>

BundleWatcherStep ==
    Observe \/ poll \/ Load \/ Refuse \/ ReadFails \/ activate_bundle \/ PublishFails

-----------------------------------------------------------------------------
(* The trust policy of a control node, replaced by its own watcher.          *)

\* The watcher checks a new policy against the signer and saves its floor.
CheckPolicy ==
    /\ kind = "control"
    /\ offered = Nothing
    /\ \E p \in Policy :
        /\ p.generation > policy.generation
        /\ ~trust_policy_is_expired(p)
        /\ validate_local_signing_credential(p)
        /\ offered' = p
    /\ UNCHANGED <<kind, clock, file, active, runtime, last_error, watcher, policy, mishaps>>

\* Under the signer's read lock: the signer is checked again and the policy
\* takes its place.
ActivatePolicy ==
    /\ offered # Nothing
    /\ policy' = IF /\ validate_local_signing_credential(offered)
                    /\ ~trust_policy_is_expired(offered)
                 THEN offered
                 ELSE policy
    /\ offered' = Nothing
    /\ UNCHANGED <<kind, clock, file, active, runtime, last_error, watcher, mishaps>>

-----------------------------------------------------------------------------
(* The environment.                                                          *)

\* The operator replaces, damages, restores or removes the file.
ChangeFile ==
    /\ file.stamp < MaxStamp
    /\ \E contents \in BundlesOf(kind) \cup {Damaged, Nothing} :
        file' = [stamp |-> file.stamp + 1, contents |-> contents]
    /\ UNCHANGED <<kind, clock, active, runtime, last_error, watcher, policy, offered,
                   mishaps>>

Tick ==
    /\ clock < MaxDate
    /\ clock' = clock + 1
    /\ UNCHANGED <<kind, file, active, runtime, last_error, watcher, policy, offered,
                   mishaps>>

-----------------------------------------------------------------------------
\* The process has started: it loaded a bundle, and a control node a policy
\* that trusts it.
Init ==
    /\ kind \in {"control", "gateway", "tls"}
    /\ clock = 0
    /\ \E b \in BundlesOf(kind) :
        /\ b.ca = "pinned" /\ b.from = 0 /\ b.generation = 1
        /\ file = [stamp |-> 1, contents |-> b]
        /\ active = b
        /\ runtime = b
        /\ policy \in {p \in Policy : p.generation = 1 /\ b.credential \in p.trusted
                                      /\ (kind # "control" => p.trusted = Credential
                                                              /\ p.expires_at = MaxDate + 1)}
    /\ last_error = Nothing
    /\ watcher = Idle
    /\ offered = Nothing
    /\ mishaps = 0

Next == BundleWatcherStep \/ CheckPolicy \/ ActivatePolicy \/ ChangeFile \/ Tick

Spec == Init /\ [][Next]_vars

\* The watcher's interval ticks for ever and its iteration runs to its end, a
\* policy once checked is applied, and time passes.
FairSpec == Spec /\ WF_vars(BundleWatcherStep) /\ WF_vars(ActivatePolicy) /\ WF_vars(Tick)

-----------------------------------------------------------------------------
(* Properties.                                                               *)

TypeOK ==
    /\ kind \in {"control", "gateway", "tls"}
    /\ clock \in 0..MaxDate
    /\ file \in [stamp : 1..MaxStamp, contents : BundlesOf(kind) \cup {Damaged, Nothing}]
    /\ active \in BundlesOf(kind)
    /\ runtime \in BundlesOf(kind)
    /\ last_error \in {Nothing, "unavailable", "invalid", "not_yet_valid", "stale_generation",
                       "generation_fork", "issuer_ca_mismatch", "candidate_rejected",
                       "runtime_configuration"}
    /\ watcher.phase \in {"idle", "observed", "load", "activate"}
    /\ {watcher.seen, watcher.completed} \subseteq 0..MaxStamp \cup {Nothing}
    /\ watcher.rejected \in ((0..MaxStamp) \X (1..MaxPolicy)) \cup {Nothing}
    /\ watcher.phase = "idle" <=> watcher.seen = Nothing
    /\ watcher.phase = "activate" <=> watcher.loaded # Nothing
    /\ policy \in Policy
    /\ offered \in Policy \cup {Nothing}
    /\ mishaps \in 0..MaxMishaps

\* A control node's active policy trusts the key the node signs with, however
\* reloads of the policy and handoffs of the signer are interleaved: peers that
\* run the same policy would otherwise refuse its requests (activate_bundle
\* validates and the trust watchers re-validate under the signer's lock).
SignerStaysTrusted ==
    kind = "control" => active.credential \in policy.trusted

\* The identity the process reports is the one its TLS server or client runs
\* with, also after a publication failed (TlsIdentity.activate_bundle).
RuntimeIsReported ==
    kind = "tls" => runtime = active

\* The signer is one that its peers trust and that really runs.
SignerIsSound == TypeOK /\ SignerStaysTrusted /\ RuntimeIsReported

\* The file holds a newer bundle that the process has every reason to take.  One
\* that could not be published is no such bundle: its observation is complete, and
\* poll does not try it again until the file changes.
Due ==
    /\ load(file.contents) = "loaded"
    /\ Verdict(file.contents) = "activated"
    /\ last_error # "runtime_configuration"

\* A bundle that stays in place is taken in the end: also when it was written
\* while the file was being read, when the first policy refused it, when it
\* was not valid yet or when a read failed (the poll functions).
NewestIsTaken == []<>~Due

\* An error reported for the source does not outlive its cause: once the file
\* is the active bundle again, the status shows no error (the reset of
\* completed_source_observation in poll).
ErrorsClear == []<>~(file.contents = active /\ last_error # Nothing)

\* The watcher catches up with its file.
WatcherCatchesUp == NewestIsTaken /\ ErrorsClear

=============================================================================
