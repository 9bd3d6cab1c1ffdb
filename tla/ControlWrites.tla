---------------------------- MODULE ControlWrites ----------------------------
(* The write path of the control plane's HTTP surface: PUT /v1/control/config. *)
(* A handler authorizes the request (write_authorization.rs, control-auth)     *)
(* against the wall clock, then waits for the proposal lock, passes the        *)
(* revision fence, appends an entry to the Raft log, waits for it to commit    *)
(* and signs what it answers with.  Raft itself is module Raft: here one node  *)
(* wins and loses elections, commits what it has and follows other leaders as  *)
(* its environment decides; failed saves, after which a node serves nothing    *)
(* until it restarts, are in that module too.  All nodes run this code with    *)
(* the same writer configuration.                                              *)
(*                                                                             *)
(* A signature is the record it was made over, with its signer: verify_strict  *)
(* recomputes the payload and accepts that record only.                        *)
EXTENDS Integers, Sequences, FiniteSets

CONSTANTS
    WriteHandler,         \* concurrent PUT handlers
    Writer,               \* writer ids
    trusted_writers,      \* CONTROL_TRUSTED_WRITERS
    revoked_writers,      \* CONTROL_REVOKED_WRITERS
    Bodies,               \* routing configurations
    invalid_bodies,       \* those that RoutingConfiguration::validate refuses
    Signed,               \* the intents that writers have signed
    max_age, max_future_skew,
    MaxWriteClock,        \* bound: wall-clock units
    MaxEntries,           \* bound: entries of the log
    MaxRefusals           \* bound: refused writes

NoWriter == "no-writer"
NoBody == "no-body"
NoFence == -1
NoIndex == 0

ASSUME WriteConstants ==
    /\ NoWriter \notin Writer /\ NoBody \notin Bodies
    /\ trusted_writers \subseteq Writer /\ revoked_writers \subseteq Writer
    /\ invalid_bodies \subseteq Bodies
    /\ Signed \subseteq [writer : Writer, cluster : {"own", "foreign"}, expected : Nat,
                        issued_at : Nat, body : Bodies]
    /\ {max_age, max_future_skew, MaxWriteClock, MaxEntries, MaxRefusals} \subseteq Nat

VARIABLES
    required,             \* Mode::Required, or Mode::Disabled
    write_clock,          \* SystemTime::now
    write,                \* per handler: the proposal it carries and where it is
    leading,              \* role = Leader
    entries,              \* persistent.log
    applied,              \* commit_index
    revision,             \* committed_configuration.revision, 0 for none
    write_books,          \* WriteAuthorizer's counters; given_up is history
    answers               \* the successful answers given

writeVars == <<required, write_clock, write, leading, entries, applied, revision,
               write_books, answers>>

Legacy(body) == [kind |-> "legacy", body |-> body]
\* The envelope claims `claim'; its signature was made over `over'.
Envelope(claim, over) == [kind |-> "authorized", claim |-> claim, over |-> over]

IdleWrite == [at |-> "idle", body |-> NoBody, expected |-> NoFence, writer |-> NoWriter,
              issued_at |-> 0, index |-> NoIndex]

(* LogEntry: a configuration with its provenance, or the Noop of an election.  *)
(* History: where there is a fence, after which committed revision.            *)
Entry(w, after) ==
    [body |-> w.body, writer |-> w.writer, issued_at |-> w.issued_at, expected |-> w.expected,
     after |-> IF w.expected = NoFence THEN NoIndex ELSE after]
NoopEntry == Entry(IdleWrite, NoIndex)
IsNoop(e) == e.body = NoBody

\* Mutant of Latest: the revision is the commit index.
CommitIndex(log, commit) == {commit}

\* apply_committed: the index of the last configuration up to the commit index.
Latest(log, commit) ==
    {r \in 0..commit : /\ r = 0 \/ ~ IsNoop(log[r])
                       /\ \A i \in r + 1 .. commit : IsNoop(log[i])}

-----------------------------------------------------------------------------
\* Mutant of verify: any writer's signature will do.
verify_any_writer(envelope) == envelope.over = [envelope.claim EXCEPT !.cluster = "own"]

(* TrustedWriterKeyRing::verify: the ring refuses revoked and unknown writers, *)
(* and the node puts its own cluster id in the payload it recomputes.          *)
verify(envelope) ==
    LET payload == [envelope.claim EXCEPT !.cluster = "own"]
    IN  /\ payload.writer \notin revoked_writers
        /\ payload.writer \in trusted_writers
        /\ envelope.over = payload

\* Saturating subtraction: an intent from the future has age 0.
age(issued_at, now) == IF now > issued_at THEN now - issued_at ELSE 0
fresh(issued_at, now) == issued_at <= now + max_future_skew /\ age(issued_at, now) <= max_age

\* WriteAuthorizer::authorize as a verdict.
authorize(request, now) ==
    IF request.kind = "legacy" THEN (IF required THEN "authentication" ELSE "accepted")
    ELSE IF ~required \/ ~verify(request) THEN "authentication"
    ELSE IF ~fresh(request.claim.issued_at, now) THEN "freshness"
    ELSE "accepted"

\* AuthorizedProposal: the configuration, its fence and its provenance.
proposal(request) ==
    [IdleWrite EXCEPT
        !.at = "proposal_lock",
        !.body = IF request.kind = "legacy" THEN request.body ELSE request.claim.body,
        !.expected = IF request.kind = "legacy" THEN NoFence ELSE request.claim.expected,
        !.writer = IF request.kind = "legacy" THEN NoWriter ELSE request.claim.writer,
        !.issued_at = IF request.kind = "legacy" THEN 0 ELSE request.claim.issued_at]

\* RoutingConfiguration::validate.
configuration_is_valid(body) == body \notin invalid_bodies

Count(books, field) == [books EXCEPT ![field] = @ + 1]

-----------------------------------------------------------------------------
WritesInit ==
    /\ required \in BOOLEAN
    /\ write_clock = 0
    /\ write = [h \in WriteHandler |-> IdleWrite]
    /\ leading = FALSE
    /\ entries = <<>>
    /\ applied = 0
    /\ revision = 0
    /\ write_books = [verified |-> 0, committed |-> 0, rejected |-> 0, conflicts |-> 0, given_up |-> 0]
    /\ answers = {}

\* An intent whose writer or whose configuration was changed on the way.
ClaimedBy(intent, w) == [intent EXCEPT !.writer = w]
WithBody(intent, b) == [intent EXCEPT !.body = b]
Arriving(intent) ==
    {intent} \cup {ClaimedBy(intent, w) : w \in Writer} \cup {WithBody(intent, b) : b \in Bodies}

\* A request is a signed intent delivered now, late or again, one whose fields
\* were changed, or a plain configuration.
Requests ==
    {Legacy(b) : b \in Bodies}
        \cup UNION {{Envelope(claim, over) : claim \in Arriving(over)} : over \in Signed}

\* set_configuration up to the proposal: authorize reads the clock once.
Submit(h) ==
    /\ write[h].at = "idle"
    /\ write_books.rejected + write_books.conflicts + write_books.given_up < MaxRefusals
    /\ \E request \in Requests :
        LET verdict == authorize(request, write_clock)
            checked == IF request.kind = "authorized" /\ verdict # "authentication"
                       THEN Count(write_books, "verified") ELSE write_books
        IN  IF verdict = "accepted"
            THEN /\ write' = [write EXCEPT ![h] = proposal(request)]
                 /\ write_books' = checked
            ELSE /\ write_books' = Count(checked, "rejected")
                 /\ write' = write
    /\ UNCHANGED <<required, write_clock, leading, entries, applied, revision, answers>>

LockFree == \A h \in WriteHandler : write[h].at # "replicating"

\* The error path of write_configuration_with_fence: the lock is released.
Fails(h, field) ==
    /\ write' = [write EXCEPT ![h] = IdleWrite]
    /\ write_books' = Count(write_books, field)
    /\ UNCHANGED <<required, write_clock, leading, entries, applied, revision, answers>>

\* Mutant of fence_passes: an intent for an earlier revision passes.
fence_at_most(expected, current) == expected <= current

\* The revision fence compares with the committed configuration.
fence_passes(expected, current) == expected \in {NoFence, current}

\* Under the proposal lock: validate, leadership, fence, append and persist.
Propose(h) ==
    /\ write[h].at = "proposal_lock"
    /\ LockFree
    /\ LET w == write[h]
       IN  IF ~configuration_is_valid(w.body) \/ ~leading THEN Fails(h, "given_up")
           ELSE IF ~fence_passes(w.expected, revision) THEN Fails(h, "conflicts")
           ELSE /\ Len(entries) < MaxEntries
                /\ entries' = Append(entries, Entry(w, revision))
                /\ write' = [write EXCEPT ![h].at = "replicating", ![h].index = Len(entries')]
                /\ UNCHANGED <<required, write_clock, leading, applied, revision, write_books, answers>>

\* record_committed, then authenticate_configuration: the answer is the
\* committed configuration, signed for its cluster and revision.
record_committed(books) == Count(books, "committed")

authenticate_configuration(index) == [revision |-> index, body |-> entries[index].body]

\* The commit index is looked at before the role and the term: whoever's entry
\* is there, the write is answered with the committed configuration.
Acknowledge(h) ==
    /\ write[h].at = "replicating"
    /\ applied >= write[h].index
    /\ revision # 0
    /\ answers' = answers \cup {authenticate_configuration(revision)}
    /\ write_books' = record_committed(write_books)
    /\ write' = [write EXCEPT ![h] = IdleWrite]
    /\ UNCHANGED <<required, write_clock, leading, entries, applied, revision>>

\* The commit timeout, lost leadership, a commit index that was reached with no
\* configuration, or a client that hangs up: an appended entry stays.
GiveUp(h) ==
    /\ \/ write[h].at = "proposal_lock"
       \/ write[h].at = "replicating" /\ (applied < write[h].index \/ revision = 0)
    /\ Fails(h, "given_up")

-----------------------------------------------------------------------------
(* What module Raft does to this node's log.                                   *)
Elected ==
    /\ ~leading
    /\ Len(entries) < MaxEntries
    /\ leading' = TRUE
    /\ entries' = Append(entries, NoopEntry)
    /\ UNCHANGED <<required, write_clock, write, applied, revision, write_books, answers>>

CommitEntries ==
    /\ leading
    /\ \E index \in applied + 1 .. Len(entries) : applied' = index
    /\ revision' \in Latest(entries, applied')
    /\ UNCHANGED <<required, write_clock, write, leading, entries, write_books, answers>>

LoseLeadership ==
    /\ leading
    /\ leading' = FALSE
    /\ UNCHANGED <<required, write_clock, write, entries, applied, revision, write_books, answers>>

\* What another leader may have at an index: its Noop, or a write that it
\* authorized, validated and fenced as this node does.
Authorized == {request \in Requests : \E now \in 0..write_clock : authorize(request, now) = "accepted"}
EntriesOfOthers(index) ==
    {NoopEntry} \cup
        {Entry(proposal(p[1]), p[2]) : p \in {q \in Authorized \X (0..index - 1) :
            /\ configuration_is_valid(proposal(q[1]).body)
            /\ fence_passes(proposal(q[1]).expected, q[2])}}

\* handle_append_entries of another leader: an uncommitted tail that differs
\* is truncated, an entry follows it, and the commit index moves on.  A
\* request of several entries is several of these steps.
Follow ==
    /\ leading' = FALSE
    /\ \/ entries' = entries
       \/ \E k \in applied..Len(entries) :
            /\ k < MaxEntries
            /\ \E e \in EntriesOfOthers(k + 1) : entries' = Append(SubSeq(entries, 1, k), e)
    /\ applied' \in applied..Len(entries')
    /\ revision' \in Latest(entries', applied')
    /\ UNCHANGED <<required, write_clock, write, write_books, answers>>

WriteClockTicks ==
    /\ write_clock < MaxWriteClock
    /\ write_clock' = write_clock + 1
    /\ UNCHANGED <<required, write, leading, entries, applied, revision, write_books, answers>>

WritesNext ==
    \/ \E h \in WriteHandler : Submit(h) \/ Propose(h) \/ Acknowledge(h) \/ GiveUp(h)
    \/ Elected \/ CommitEntries \/ LoseLeadership \/ Follow \/ WriteClockTicks

WritesSpec == WritesInit /\ [][WritesNext]_writeVars

-----------------------------------------------------------------------------
(* Where writes are required to be signed, every configuration in the log is   *)
(* exactly what a trusted, unrevoked writer signed for this cluster, whatever  *)
(* was changed on the way and whoever leads (WriteAuthorizer::authorize before *)
(* the append).                                                                *)
WritesAreAuthorized ==
    required =>
        \A i \in DOMAIN entries :
            LET e == entries[i]
            IN  \/ IsNoop(e)
                \/ /\ e.writer \in trusted_writers \ revoked_writers
                   /\ [writer |-> e.writer, cluster |-> "own", expected |-> e.expected,
                       issued_at |-> e.issued_at, body |-> e.body] \in Signed

SameIntent(d, e) ==
    /\ d.writer # NoWriter
    /\ Entry(d, NoIndex) = Entry(e, NoIndex)

(* An intent delivered twice gets into the log twice only if the leader that   *)
(* appended the second copy had not applied the first: after a write that gave *)
(* up and was retried, or on a new leader that does not know yet how far the   *)
(* log is committed (RFC 0024:264-268).  A leader that has applied an intent   *)
(* never appends it again: Noops and other leaders' writes do not bring its    *)
(* revision back.                                                              *)
AppliedIsNotReplayed ==
    \A i, j \in DOMAIN entries :
        i < j /\ SameIntent(entries[i], entries[j]) => entries[j].after < i

(* The counters agree with the log and with each other: every write counted as *)
(* committed has an index of its own in the committed log (not always its own  *)
(* entry there: see Acknowledge), and every verified intent is committed,      *)
(* refused, given up or still under way.                                       *)
BooksFitTheLog ==
    /\ write_books.committed <= applied
    /\ write_books.verified <= write_books.committed + write_books.rejected
          + write_books.conflicts + write_books.given_up
          + Cardinality({h \in WriteHandler : write[h].at # "idle"})

(* What a client was told is committed is a configuration, and stays the       *)
(* committed one at that revision under every later leader.                    *)
AnswersStand ==
    \A a \in answers :
        a.revision <= applied /\ entries[a.revision].body = a.body /\ a.body # NoBody

WritesHold == WritesAreAuthorized /\ AppliedIsNotReplayed /\ BooksFitTheLog /\ AnswersStand
==============================================================================
