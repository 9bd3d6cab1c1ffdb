# Verification of InferLab

TLA+ models of the parts of InferLab whose correctness depends on ordering,
failure, limits and recovery, the TLC runs that check them on small instances,
and TLAPS proofs, for every value of the constants, of the results that matter
most. `PROJECT.json` maps every definition to the lines it stands for and lists
runs, mutants, hazards, findings and theorems.

Contents: 1 the system, 2 how the project is built, 3-9 the components with
their runs, 10 the proofs, 11 findings and observations, 12 what is not
modelled, 13 what is left to prove.

## 1. The system

| Component | State | Operations | Hard behaviour | What makes it correct |
|---|---|---|---|---|
| Raft node (`control-plane/src/raft.rs`, `storage.rs`, `model.rs`) | term, vote, log, commit index in memory and in a state file; role, next and match indexes; cached committed configuration | RequestVote, AppendEntries, campaign, replication round, fenced client write, restart | answers awaited without the lock, lost and delayed messages, failing saves, crashes | one leader per term, one committed history, durable votes and commits, followers converge |
| Batch queue (`batch-queue/src`) | jobs, idempotency index, claim numbers, write-ahead log | enqueue, claim, ack, fail, reads that resolve expired claims, open | torn and unsynced records, poisoned log, visibility timeouts, stale clock readings, retries | acknowledged work is final, claims are fenced, deliveries bounded, the log always opens |
| Gateway control watcher (`gateway/src/main.rs`, `routing_lease.rs`, `routing_snapshot_store.rs`, `control_authentication.rs`) | routing snapshot, its file, lease | bootstrap, poll, apply, persist, renew | lagging nodes, crash between persist and apply, key rotation, expiry | the revision never goes back, also over restarts |
| Gateway request path, admission, retries (`gateway/src/lib.rs`, `admission.rs`, `resilience.rs`) | permits, execution slots, retry slots, one task per request | admit, wait, attempt, retry, stream, give back | permits held across awaits, deadlines, disconnects, a pool replaced meanwhile | bounds hold, everything comes back, every request ends |
| Gateway routing (`routing.rs`) | in-flight counts, weights, EWMA, hash ring | choose and lease a worker | shared counters, refusing circuits | shares follow weights, keys stay put |
| Gateway circuit breaker (`circuit_breaker.rs`) | state, generation, outcome window | try_acquire, success, failure, cancel | late outcomes, lost probes, stale clock readings | one probe at a time, old outcomes ignored, never stuck half-open |
| Gateway public edge (`public_edge.rs`, `public_authentication.rs`) | token buckets, rejections counted | authenticate, check, consume, admit | readings taken before the lock | rates hold, Retry-After is true |
| Worker scheduler (`worker/src/scheduler.rs`) | bounded queue, active sequences, counters | submit, admit, step, finish, cancel | submission races, swap_remove while walking, disconnects | every admitted request ends once, slots and counters balance |
| Worker completion endpoint (`worker/src/lib.rs`, `decoding.rs`, `metrics.rs`) | session, grammar state, event channel | validate, compile, step, collect, stream | clients that leave, a scheduler that dies | every call ends and is counted once and truly |
| Paged cache (`worker/cpp/inferlab_runtime.cpp`) | pages with reference counts, prefix directory, block tables | append, share, copy on write, publish, evict, speculate | sharing and eviction while sessions run | rows read are one's own, no page leaks |
| Trust renewer (`trust-renewer/src`, `service-auth/src/renewal.rs`) | pending and committed renewal, state file, lock | schedule, stage, publish, reconcile, fail closed | crash between staging, publishing and committing; two processes | one byte string per generation |
| Trust distributor (`trust-distributor/src/lib.rs`) | snapshot, receipts, state file | publish, fetch, receipt | a directory sync that fails after the rename | acknowledged publications survive |
| Service trust receiver (`control-plane/src/service_trust.rs`) | active policy, floor, cache, two files | bootstrap, reload, fall back, receipt | rollback, expiry, cached fallback | the floor only rises, receipts are true |
| Service authentication (`service_authentication.rs`, `service-auth/src/lib.rs`) | policy, expiry latch, replay cache | authenticate | copies, concurrent handlers, clock set back | nothing is accepted twice, only the policy in force accepts |
| Signing and TLS identities (`signing_bundle.rs`, `identity_bundle.rs`) | active bundle, last error, file stamp | poll, validate, activate | files replaced while read, policies replaced meanwhile | the signer stays trusted, the newest bundle is taken |
| Write authorization (`write_authorization.rs`, `control-auth`) | signed intents, proposal lock, revision fence | authorize, propose, answer | freshness checked before the lock is waited for, time-outs, changes of the leader | only what was signed is appended, and not again where it was applied |
| Signed documents (`service-auth`, `control-auth`) | none | canonical bytes | fields of any length | no two documents share their bytes |
| Observability (`observability/src`, the services' `metrics.rs`) | counters, gauges | count, refresh, render | cancelled handlers, concurrent scrapes | what is reported is what happened |
| Raft link proxy (`link_proxy.rs`) | mode, journal | change mode, forward, drop | mode read once, torn journal lines | the journal explains the link |
| Model artifacts, kernels, tokenizer, fake worker, tools | none or numeric | parsing, cryptography, arithmetic | - | outside model checking |

The gateway polls the control plane's nodes for the committed configuration and
builds its worker pool from it; requests pass public edge, admission, routing
and circuit breaker to a worker, whose endpoint makes a session of them and
whose scheduler batches the sessions over the paged cache. The control nodes
authenticate each other and the gateway with service credentials, whose trust
policy the renewer signs, the distributor publishes and each control node
follows; keys and TLS identities are handed over from watched files. The batch
queue stands alone.

## 2. How the project is built

One module per component, with one action per handler or step, split where the
code waits or gives up a lock. What fails in the code fails in the model: a
save, an append or a sync may fail and leave the old file, the new one or a part
of it; a process may die at any step; a power loss keeps what was synced and may
keep or lose the rest; a message may be lost, repeated, delayed or overtaken; a
clock reading taken before a lock may be any earlier time; wall clocks may be
set back. Every bound is a named constant in a guard.

Modules that interact are composed: `GatewayControl` takes `ConfigService` as
the nodes it polls; `TrustRenewal` and `TrustReceiver` extend `TrustDistributor`;
`Raft` is shown to implement `ConfigService`. Others abstract from each other: a
circuit that admits or refuses is an arbitrary choice in `WorkerPool` and
`GatewayRequests`, which makes them hold for any circuit.

Several small instances share a run. A variable `study` or `focus` is chosen in
the initial state and never changes; each study has bounds of its own and, with
`focus`, the components that are not looked at rest, so that the state spaces
add up and do not multiply.

| Run | Studies | Bounds that matter | Properties |
|---|---|---|---|
| `raft_safety` | elections: 2 campaigns, 2 rounds, 1 restart, 1 failed save; service: 1 campaign, 4 rounds, a write in a log of 2, 1 restart, 1 failed save; logs: from diverged logs, 1 campaign, 2 rounds, logs of 3 | 3 nodes | `AppliedIsCurrent`, `ElectionSafety`, `LogsAgree`, `DurableVoteIsStable`, `RevisionNeverRegresses`, `ImplementsConfigService` |
| `raft_converge` | - | 3 nodes from diverged logs, unbounded rounds, 1 restart | `StableLeaderConverges` |
| `queue` | recovery: 1 job delivered at most twice, 2 consumers, 2 failed appends, 1 restart, 1 power loss; keys: 2 keys, 2 bodies, 1 failed append | timeout 2 | `LogIsTheQueue`, `PromisesKept`, `LeaseHonoured`, `JobsSettle` |
| `gateway_control` | - | 2 nodes, 2 revisions, 2 keys, lease 1, 1 setback, 1 failed save, 1 crash or power loss | `NeverMovesBack`, `SavedBeforeRouted`, `NoFalseDivergence`, `LeaseIsSpent`, `GatewayFollows` |
| `serving` | circuit, pool, requests, scheduler, cache | 3 attempts at a time and 8 in all; 3 workers with weights 3, 1, 1; 3 requests at 1 slot and 2 pools; 3 sessions, batch of 2, channel of 1; 2 pages of 2 rows | `CircuitIsSound`, `ChoicesHold`, `RequestsHold`, `SchedulerHolds`, `CacheHolds`, `OpenKeepsOut`, `EverythingEnds` |
| `trust_renewal` | - | 2 processes on one file, 2 generations, clock to 3, any 3 incidents | `PublishedOnce`, `DistributorKeeps`, `StagedIsSettled` |
| `identity` | handoff, requests, receivers | 3 watchers with 2 changes of their file and 1 failure; 2 requests with copies, replay cache of 1; 1 receiver and a stray one, any 2 incidents | `SignerIsSound`, `NoReplay`, `ReceiverKeeps`, `ReceiptsAreTrue`, `WatcherCatchesUp`, `PolicyIsEnforced`, `Converges` |
| `edge` | worker, edge, completions, scrapes, link, writes, payloads | 2 calls; 3 visits; 2 exchanges; 2 scrapers; 3 calls over a link; 2 handlers of writes, 2 writers, a log of 3; text of up to 2 symbols | `EdgeHolds`, `WorkerHolds`, `MetricsHold`, `JournalExplains`, `WritesHold`, `PayloadsDistinct`, `CallsEnd` |
| `raft_ack`, `ewma_probe`, `paged_tail`, `grammar_eos` | - | see the cfg | the findings of section 11 |

Why the bounds are enough: every property has a mutant, a plausible bug of the
code, that breaks it within its run's bounds, and every action and disjunct of
the next-state relations is taken. What goes beyond the bounds is the subject of
the proofs.

Deadlock is checked in `raft_converge`, `queue`, `gateway_control` and the
finding runs other than `grammar_eos`; in the others the bounded
instance may really stop, when its campaigns, requests or incidents are used up.

## 3. Raft and ConfigService

`Raft.tla` has one action per handler, split where the code gives up the state
lock. `mem[n]` is the persistent state a node works with, `disk[n]` its state
file; `camp`, `repl` and `prop` are a campaign, a round and a client write in
progress. Requests stay in `voteReqs` and `appends` for ever, so each may be
lost, delayed, duplicated or overtaken; an answer reaches the campaign or round
that asked, or nobody. A save either succeeds, or fails and leaves the old or
the new file, after which `storageError` stops the handlers that check it; the
saves at the end of a campaign or a round do not check it first, as in the code.

What is abstracted, and why nothing is lost:

- election timers: a campaign may start whenever the node is not leader;
- the trace journal: its failures show as a lost answer, a campaign without
  answers or a write that gives up, all of which the model has;
- `leader_id` and counters, which no decision reads;
- `join_all` with per-peer timeouts: a round or a campaign uses any subset of
  the answers that have arrived; stepping down to the highest term of a heard
  subset is stepping down to some heard term;
- an answer goes to the identical request of the present round, which differs
  from an earlier identical one in nothing the code reads;
- signatures, which the model takes as valid.

The error for overwriting a committed entry is left out of `AcceptAppend`;
`CommittedNeverOverwritten` shows that no request can produce it.

`ConfigService.tla` is the promise to readers: one append-only history, each
node serving the latest configuration of a prefix that only grows unless its
storage broke. `ImplementsConfigService` maps `chosen` to the history, the commit
index to the view and `applied` to what is served.

The cold start and the diverged start of `raft_safety` are both reachable; in the
latter one leader has committed its no-op through one peer and appended a write
alone, and another has won the next term with the third node. From there two
rounds and one more campaign suffice for figure-eight schedules. `LogsAgree` is
the conjunction of `LogMatching`, `CommittedPrefixesAgree`, `LeaderHoldsChosen`,
`ChosenIsDurable` and `CommittedNeverOverwritten`.

Fairness (`raft_converge`): the background loop keeps starting rounds on a
leader (weak), and a peer that is asked again and again answers in time again
and again (strong). `spawn_background` gives the first; the second is what a
connected peer means.

## 4. Batch queue

`BatchQueue.tla`: memory, the log file and stable storage are each the queue
state their records replay to, which is exact because replay and live
operation share `apply_event`. An operation takes the mutex with a time it read
earlier (`now` at most `clock`), resolves the expired claims one synced record
at a time, then makes its own transition. A failing append leaves nothing, a
part or all of its record and poisons the log; a process killed in the middle
of an append is such a failure followed by a restart. A power loss keeps what
was synced and may keep or lose the rest. That the log file itself is there after a
power loss is taken for granted: its directory is never synced (`wal.rs:77`).
Consumers keep every claim they were
given and may report it at any later time, more than once. `valid` becomes
false where the code would refuse the log. Sizes, totals, texts and timestamps
are abstracted; a refused enqueue changes nothing and is no action.

`LogIsTheQueue` is `LogReopens`, `MemoryFollowsFile` and `BooksAgree` (index,
gauges and claims fit the jobs); `PromisesKept` is `TokensUnique`,
`AckedIsFinal`, `DeliveriesBounded` and `KeyNamesOneJob`.

The clock moves only while a claim runs, and attempts bound the claims, so the
instances are finite without a clock bound. Two keys make several claims
expire at once; jobs do not otherwise interact.

Fairness: the holder of the mutex goes on, a poisoned process is restarted, time
passes, and consumers keep asking for work (strong, since other operations hold
the mutex in between). The last is an assumption on the environment: nothing in
the queue resolves expired claims unless it is called.

## 5. Gateway control watcher

`GatewayControl.tla`: one gateway process, the nodes it polls (`ConfigService`,
with the key each node signs with), the snapshot file and the two clocks.

| Model | Code |
|---|---|
| `Start`, `StartLive`, `StartFromDisk`, `StartUnsaved`, `StartFails` | `bootstrap_control_configuration`, `bootstrap_from_disk` and the save in `main` |
| `Fetch` | `fetch_control_configuration`: the first node with a usable answer |
| `PollRefuses`, `PollRenews`, `PollApplies`, `PollUnsaved` | one turn of `watch_control_plane` after an answer |
| `file`, `stable`, `Save`, `SaveFails` | `RoutingSnapshotStore`; `stable` is what a power loss leaves |
| `deadline`, `NewDeadline`, `DiskDeadline`, `Fresh` | `RoutingLeaseGuard` with the action `RejectNew` |
| `Learn`, `SwitchKey`, `Revoke` | commits reaching nodes, nodes and gateway restarted with new keys, in the order of RFC 0023 (`docs/rfcs/0023-signed-control-configurations.md`) |

A poll is two steps, the answer and its handling, so that the control plane
moves on in between. Saving and publishing are one: nobody reads the routing
between them, and a crash between them leaves the same file as one right after.
A save that fails, at any point before or after its rename, is a step of its
own. A wrong cluster, a bad signature, an unsigned or invalid
configuration is a node without a usable answer: committed configurations are
valid, so `validate_committed` and `build_pool` do not fail. Signature checking
switched off is the case of one key. `peak`, `verified_at` and `undone` are
history variables.

Two nodes, revisions and keys let one node lag in either; a failed save before
a crash gives every difference between file, stable storage and memory.
Fairness: the gateway's own steps happen; a process that is down is started
again; of the nodes asked again and again some answers in time; every node
catches up and gets the last key. The last is a real assumption: a poll stops at
the first usable answer, so a reachable node that never catches up hides the
others.

`NeverMovesBack` has one exception, `undone`. When `sync_directory` fails after
the rename (`routing_snapshot_store.rs:157`) the save is reported as failed,
yet the next start may load the renamed file and route by it without syncing
anything; a later power loss can bring the older file back and a lagging node
can then move the gateway back. This needs a failed sync, a restart and a power
loss, and goes against invariant 5 of
`docs/rfcs/0019-restart-safe-routing-snapshots.md` ("Applied and persisted
revisions never move backward").

## 6. Serving: the way of a completion to a token

`CircuitBreaker.tla`: any number of concurrent attempts share one circuit.
`circuit` is `CircuitData`; an attempt carries the generation and the kind it
began with. Every operation first reads the time and then takes the lock, so it
decides with a `now` at most `clock`. An attempt ends with an outcome or is
dropped without one, at any later time. The window keeps, beside each outcome,
when its attempt began, which the code does not keep and only `WindowIsFresh`
reads. Eight attempts open the circuit, probe it, close it and open it again with
attempts of the first period still running.

`WorkerPool.tla`: the five policies, the choice for a retry, leases and the
ring. Which circuits admit is arbitrary on every turn. Counters that only matter
modulo the number of workers or the probe interval are kept so. `FairShare`: under
the weighted policy every worker gets its weight of each round while all circuits
accept, and no worker is further from its share than one round for each
turn with a refusal. `RingStable`: taking a worker out of the ring only takes
it out of every key's order. One lease at a time is out in the instance, so that
`least_in_flight` does not meet unequal loads there.

`GatewayRequests.tla`: a request is a task with what it holds (`lease`, `permit`,
`reserved`); its deadline, its client and the pool may change at any step. A
replaced pool has slots and leases of its own. `NothingLeaks`: the counters and
semaphores are always what the live requests hold. `RetryBudgetHeld`: the
compare-and-exchange loop keeps retries within their share.

`Scheduler.tla`: handlers count a submission, then send it or give up; the task
receives, uncounts, admits and steps. `pc` is where the task is; the two calls of
`fill_available_slots` between batches are one phase, since what arrives between
them might as well have arrived before. `stepped` and `late` are history
variables. The properties (`OnePlace`, `QueuedCounts`, `OneStepPerBatch`,
`FreedSlotsAreFilled`, `AcceptedRequestsEnd`) are invariants 9 to 14 of
`docs/rfcs/0013-kv-cache-continuous-batching.md`.

`PagedCache.tla`: the pool's operations are one step each, as its mutex makes
them; sessions are created, stepped and dropped in any order. A row depends on its
token and position alone and is that pair; sampling is a choice of any token.
`ReferencesExact` and `RowsAreOwn` are invariants 1 to 4, 6 to 12 and 17 of
`docs/rfcs/0014-paged-kv-cache-prefix-ownership.md`. `GivenBack` and `EvictUntil` are the
loops of `release_locked` and `evict_oldest_locked`, as recursive functions.

Fairness: time passes; an attempt ends or is dropped (the gateway bounds it by
the request's deadline); requests keep asking an open circuit (strong, since
another probe may be in the way: an assumption on the environment, a circuit
nobody asks stays open); a request's task and the scheduler's task run whenever
they can, which is what the runtime gives a spawned task.

## 7. Edges: endpoints, metrics, writes, documents

`WorkerRequests.tla`: the controls of a request and the JSON grammar are
checked as the code checks them, over requests that are sound or unsound in one
way each; a session's step may choose any token that bans and grammar leave, or fail
in the native runtime, as when the cache is out of pages (`StepFails`). The channel to the handler, collected and streamed answers, leaving clients and a
scheduler task that dies are steps. `CallsAreCounted`; `GrammarNeverFails`: masks,
budget and grammar never fail an accepted request, whereas the native step may; `CallsEnd` (handlers are polled and sessions stepped, weakly fair).

`PublicEdge.tla`: time is in ticks and a bucket in units of which a minute's
ticks make a request, so that rounding is the code's. A visit reads the elapsed
time before it takes the bucket's lock. `RateIsKept`, `RetryAfterIsEnough`,
`OnlySoundRequestsEnter`. `PromptsAreBounded` states of an admitted prompt that any two
of its messages are within the limit together.

`Completions.tla` and `Scrapes.tla`: how requests and completions are counted
when handlers and bodies are cancelled at any await (`OutcomesAreTrue`,
`ResponsesAreCounted`), and what concurrent scrapes show of a service that moves
on (`ScrapesAreWhole`, `CountsOnlyGrow`). A gateway and a control node are read part by
part, each part under its own lock, so a document shows what was read for one scrape,
which may join parts of two moments. `Metrics.tla` puts the two together
(`MetricsHold`).

`LinkProxy.tla`: calls read the mode once; journal writes may leave a part of a
line (`JournalExplains`).

`ControlWrites.tla`: handlers authorize against the wall clock, wait for the
proposal lock, pass the revision fence, append, wait for the commit and sign
their answer. What Raft does to the node's log is its environment: elections with
their Noop, commits, the loss of leadership, and the entries of other leaders, which
run the same code (`Follow`). The revision is the index of the last committed
configuration, not the commit index. `WritesAreAuthorized`, `BooksFitTheLog`,
`AnswersStand`; and `AppliedIsNotReplayed`: a copy of an intent gets into the log behind
the first only from a leader that had not applied the first. It is a statement about the
leader's own knowledge and no protection of the cluster, as RFC 0024:264-268 says itself.

`SignedPayloads.tla`: the canonical bytes of eight kinds of documents, where
nothing but its position tells a length from a character. Every signed field is
there and takes several values, so that an encoder that forgets one is caught; what
is the same in all documents of a kind is part of its domain. `PayloadsDistinct`
compares all pairs of documents over small fields, of the same kind and of
different kinds.

## 8. The trust chain

`TrustDistributor.tla` keeps a snapshot and receipts in memory and one state
file, with replacements that fail or are uncertain and the poison flag that
follows. `TrustRenewal.tla` is the renewer's engine split at its awaits, with the
lock between processes, posts that time out and still arrive, clocks that fail
or are set back, and an operator who publishes next to it. `TrustReceiver.tla`
is a control node that follows the distributor or a local file, with a cache and
a floor file. A post that fails is retried, or fails the renewer closed when the failure
is not transient (`PublishTimesOut`). Left out, without effect on the properties: the
refusal of a receipt whose signature does not verify (receivers are honest); the moment
between the panic of a storage task and the lock that marks the store as poisoned
(`storage_task_dies` is one step); and the failure of the renewer's very first save of an
empty state.

`OnePerGeneration`: the renewer never posts two snapshots of one generation.
`NoFalseAlarm`: it accuses the distributor only with reason. `AcknowledgedSurvives`
and `FloorIsServed`: what was acknowledged or committed is not lost.
`NoRollback`, `CacheCoversFloor`, `ReceiptIsTrue`, `ReceiptsFit`: a receiver never
goes back, can always start from its cache, and its receipts are true for good.
`StagedIsSettled` and `Converges` say that the chain gets past crashes, under
weak fairness of the engine's, the watchers' and the transport's steps, which a
running process and a connected peer give; each names the reasons for which the
chain may rightly stand still.

## 9. Identities and requests

`WatchedBundles.tla`: one scheme, three watchers. A stamp stands for the
metadata a watcher compares. `SignerStaysTrusted`: reloads of the policy and
handoffs of the signer, in whatever order, leave a signer the active policy
trusts. `RuntimeIsReported`: what is reported is what runs. `NewestIsTaken` and
`ErrorsClear` are the liveness of the poll loop, under weak fairness of the
watcher, the policy's activation and the clock; a bundle refused because the TLS runtime
cannot be configured with it is not promised to be taken (`Due`).

`ServiceRequests.tla`: the time is read once per request and put before the expiry
latch, an atomic maximum, at the preflight and again in `authenticate`. Handlers share
the policy's read lock from their checks to the insertion into the replay cache, so
others may read later times in between, but no policy is replaced. `AcceptedOnce` holds
unless the clock was set back or a handler stalled longer than the skew between reading
the time and taking the cache's lock. It is about one process: a restart empties the
replay cache (`docs/rfcs/0025-cryptographic-service-identities.md:115`), and restarts are not
modelled here. `PolicyIsEnforced`: a request is accepted only under the policy in force
at that moment, by a key it trusts, and by a handler that looked at the latch before a
time at which the policy has expired got there. A handler that is past its look may still
accept after that.


## 10. Proofs

TLAPS checks every theorem to its last leaf, for every value of the constants.
Out of its reach, and left to TLC, are liveness under fairness
(`StableLeaderConverges`, `JobsSettle`, `GatewayFollows`, `EverythingEnds`,
`StagedIsSettled`, `WatcherCatchesUp`, `Converges`, `CallsEnd`) and `ENABLED`. The
library's induction theorems take an operator as a parameter, which the installed
provers cannot instantiate; where an induction over data is needed (the bytes of a
prompt, the pages given back, evictions until enough are free) it is done with a set
(`SetInduction`: a set of numbers with 0 and every successor is all of them), from the
well-foundedness of the numbers. Every invariant that a theorem below does not name
is only model-checked (section 13).

| Module | Theorems | About |
|---|---|---|
| `RaftProofs` | `TypeCorrect`, `OneLeader`, `VoteIsDurable`, `ServedIsCurrent`, `RevisionMonotone` | types, elections and the state file, what a node serves |
| `RaftLogProofs` | lemmas | what each step does to logs, candidates, leaders and requests |
| `RaftSafetyProofs` | `LogInvariant`, `LogsAreSafe`, `ClusterImplementsService` | the log and the refinement |
| `BatchQueueProofs` | `LogIsQueue`, `PromisesHold`, `LeasesHonoured` | the whole safety of the queue |
| `EdgeProofs` | `TypeCorrect`, `RoutingIsMonotone`, `PersistedFirst`, `Agreement`, `LeaseHolds` | the whole safety of the watcher |
| | `WritesAreHonest`, `JournalTellsTheTruth`, `RateAndRetry`, `WorkerCountsTruly`, `MetricsTellTheTruth` | signed writes, the link proxy's journal, the public edge, the worker's endpoint, what is counted and scraped |
| `ServingProofs` | `BatchIsSound`, `NothingIsLeaked`, `SingleProbe`, `FreshWindow`, `CircuitSound`, `OpenPeriodHolds`, `PagesAreHeld` | the worker's batches, the gateway's requests, the whole safety of a circuit, the paged cache |
| `IdentityProofs` | `AtMostOnce`, `PolicyHolds`, `IdentityIsSound` | authentication of requests, identity bundles |
| `TrustProofs` | `RenewalPublishesOnce`, `DistributorKeepsItsWord`, `ReceiversNeverGoBack`, `ReceiptsStayTrue` | renewer, distributor and receivers: all their safety |

Assumptions. The constants' types; that the instance bounds are naturals; for
Raft that the nodes are a finite set of several (`SeveralNodes`, in `Raft.tla`:
`NodeConfig::validate` demands exactly two peers) and that majorities intersect,
which is proved from finiteness. For the gateway that the workers are a finite
set (`RequestConfig`: the capacity is computed from their number), for the
bundles that the tokens standing for "nothing" and for a damaged file are not
bundles, policies or generations (`NothingIsNone`). Sessions, clients, requests,
keys and handlers may be infinite sets: the invariants carry that those under
way are finitely many. Nothing is assumed of reachable states.

### Raft

*Types and votes.* `TypeInv` adds to `TypeOK` that the commit index is within the
log and a leader's term positive. `VoteInv` relates memory and file: the file is
never ahead of memory in term, and a healthy node's memory and file are equal;
every granted answer is remembered by its voter's file, as the vote of that
term or by a later term; a node that won a term has a majority of such answers.
Two winners of one term would share a voter that remembers both, hence
`OneLeader`; the file part gives `VoteIsDurable`.

*The log.* `LogsAgree` is far from inductive: an entry is not yet committed when
it becomes impossible to lose. The proof uses a family F of all the logs ever
held, which only grows, and three facts of it: any two logs that share the
term of an index share everything up to it (matching), an index has one entry
per term (uniform), and terms do not decrease along a log (sorted). `Struct`
ties logs, files, candidates, leaders, rounds and requests in flight to F. An
entry of F is *open* at a node that could still acknowledge or elect against it,
and *safe* when every later leader must have inherited it (`Inherited`), every
acknowledgement is held (`Held`) and every vote since was given to a log that
has it (`Heeded`). `LeaderSafe` says that a leader's own entry is safe while it
is open, and `Knows` that every commit index, in memory, in a file, in a
request, is justified by a safe entry that a majority held. Steps fall into
quiet ones, which leave all of it alone (votes, answers, restarts, time-outs),
and the four that do not: sending, appending, merging and committing. A save
that fails may leave the old or the new file, so every step is proved for both.

From the invariant the five parts of `LogsAgree` follow, and the refinement: a
step that moves a commit index forward maps to `Learn`, which also lets the
history grow; a restart maps to `Restart`, everything else to a stutter.
`SeveralNodes` is needed: a node alone is its own majority and would commit an
entry whose save failed.

### Batch queue

Memory, file and stable storage are three points of one history of *legal*
records, stable storage first, the file last. `Follows(d, f)` says that f has the
records of d and more: no job lost, no terminal job changed, attempts and claim
numbers not smaller. The inductive invariant has four parts: `StoreInv` (each
point is a well-formed queue, in that order, and all that is in memory is in the
file), `OpInv` (the operation's lease was given out and its time is not in the
future), `LeaseInv` and `AcceptInv` (what was told). `Told` is what makes the
promises inductive: every claim given out is known at each of the three points,
the deliveries of a job are at most the attempts counted *on stable storage*, and
a claim that still runs in the file is the same on stable storage. The last one
is why a power loss cannot end or repeat a delivered claim; it holds because a
claim is answered after its sync. A record is shown legal at each of the four
places that write one, and a legal record applied to a well-formed queue gives a
well-formed queue that follows it (`LegalKeeps`), with the gauges counted by
cardinality of the jobs of a status.

### Circuit breaker and gateway control

*The circuit* (in `ServingProofs`): the invariant adds to `CircuitIsSound` that no attempt
holds a generation from the future, so that a late outcome of an old one is
told from a probe's.

*The watcher* (in `EdgeProofs`): `OrderInv` says that what is loaded is in the file and
the file remembers all it ever routed by (unless a power loss undid a rename
that was never synced); `AgreeInv` that every answer in flight is one
`ConfigService` could have given, so that a divergence error needs two different
configurations of one revision; `LeaseInv` bounds the saved and the running
deadline by the last good answer plus the setbacks of the wall clock. It uses
only the actions of `ConfigService`, which Raft is proved to implement.

### Serving

*The batch.* `HandInv` adds to `SchedulerHolds` that the task takes a session only
when it has a slot for it and waits only with an empty batch; without it `Admit`
could exceed the batch size. The lemmas say what `Append`, `Tail` and
`swap_remove` do to a sequence without repetitions: `swap_remove` takes out one
element, puts the last one, not yet stepped, at its index and moves nobody else.

*The gateway's requests.* Counting is the difficulty: a step changes the task of
one request and, when a slot is handed over, the task of one that waits.
`Balanced(c, t, W)` states what the counters must do when c becomes t and the
requests in W are woken, in terms of those tasks alone; `CountsKept` shows once
that a balanced step keeps every counter equal to a cardinality, and each action
is shown balanced. The invariant has four parts: `TasksInv` (what a task holds at
each phase, and that an allowance it loaded was true of the requests admitted so
far), `CountsInv`, `LineInv` (a worker's line has exactly the requests that wait
for it, each once: the head of a line really waits, and whoever gives up its
place is in it) and `BoundsInv`. The budget follows because a successful
compare-and-exchange says that the counter is what was compared with an
allowance, which only grows. `LetGoIs` is the hand-over: the slot goes to the
head of the line or back to the worker, whichever way the request ends.

*The paged cache* (`PagesAreHeld`). `CacheHolds` is not inductive: that a page is neither
lost nor handed out twice needs who counts it, and that a session reads its own rows needs
that nobody else writes where it reads. `CacheInv` therefore says of the pool (`PoolInv`) that
references are the number of tables and directory entries that name a page (`Counts`), that
an unreferenced page is empty and in the free list, which names none twice (`Booked`), and
that every entry's pages give the rows of its tokens (`Backed`); and of a session
(`StreamInv`) that its table gives the rows of its context, which begins with the prompt
while that may still be published. Three lemmas carry the steps: a page with one reference
is held by nobody but its session (`SoleHolder`), so the row written to it disturbs no other
reader; an eviction spares every page that still has a reference (`EvictOne`, and by induction
any number of them, `EvictMany`); and a copied tail continues the table it replaces
(`BackedMore`). Where a row is, `(i - 1) div page_tokens` and its remainder, is beyond the
solver's linear arithmetic, so quotient and remainder are characterized once
(`DivModUnique`) and then only by name. The theorem does not claim that `append` never
finds an inconsistent tail: `paged_tail` shows that it does, and the step that then fails
keeps the invariant.

### Identity

*Replay.* `Remembered(r)` is the invariant's core: an accepted request is in the
replay cache under its expiry, or the node's clock has passed that expiry. With
every handler's reading at most the clock, a second copy either finds the entry
or reads a time at which it is no longer fresh, and an eviction only forgets
entries that are past. Both need what `NoReplay` has as its premise, that the
clock is not set back and no handler stalls longer than the skew between its
reading and the cache. `PolicyHolds` needs no such premise. Its invariant is of the
handlers between check and insertion: each was verified by the policy that is still in
force, since it holds the read lock, and what it had heard from the latch was before the
expiry, since the latch is at least what any handler has put before it.

*Bundles.* `WatcherInv` adds what an iteration of the watcher holds on to: while
it activates, what it loaded is a bundle of its kind. Whether the key is trusted
is decided in the step that activates it, against the policy of that moment, and
a reload of the policy decides it again for the active key: both under the
signer's lock, so neither can invalidate the other's check.

### Trust

*The distributor.* `DiskInv` relates memory, file and stable storage: until a
replacement is uncertain memory is the file, unless the process started from an
unsynced file it is also what survives, and the file is never behind either.
`StorageKeeps` shows once what a replacement does, for each outcome, and the
handlers, which the renewer and the receivers share, are instances of it.

*The renewer.* `EngineFits` says what an engine may hold at each phase. Every
snapshot ever posted is the staged one or not above the committed generation; a
committed one was posted, unless an operator published by hand, and is not ahead
of what is served, unless a power loss undid a publication; and an answer that was
fetched lies between the committed generation and what is served.
`LockHeld` (a running engine holds the lock) makes it a statement about one
engine. What a fitting state needs of its surroundings only grows, so a step of
the environment keeps it (`EngineGoesOnFitting`).

*The receivers.* `FilesStand` is the order that makes them safe: the last policy
activated, the floor that survives, the floor in the file, and in remote mode
each file's cache above its floor. `FloorHeld` ties memory to it: a running
receiver's floor is the one that survives, and also the one in the file unless a
failed save has latched it, which is why nothing may be accepted after that. Receipts
are then true because a receipt is signed at the activation. The exception is
`lapsed`: a startup that takes a floor in the file for saved although its
directory was never synced. `ReceiptIsTrue` used to lack this exception; the
induction failed there, and a run with four incidents has the behaviour (a lapse,
a power loss, and an older policy activated next to the receipt of a newer one).

### Edges

*Signed writes.* `Permitted` follows a write from the handler that verified it into
the log: where writes must be signed it is what a trusted writer signed for this
cluster, and only a write without a writer has no fence. `CarriedInv` says that of
the handlers, `EntriesInv` of the log, whoever appended its entries, with the revision
an entry was appended over: the fence makes it the revision that the writer expected, and
it lies before the entry. Two copies of an intent expect the same revision, so it lies
before the first as well: `AppliedIsNotReplayed`. `RevisionInv` says that the revision is the
index of a committed configuration, and never a Noop's, whoever leads.
`Outstanding`
bounds the verified writes by those that ended and the handlers that are busy.

*The journal.* The file may have lost a line whose write failed. `Whole` says that it
has as many lines as numbers were given out, and only then the mode, its changes, the
calls and the drops are accounted for; that the numbers are in order is true always.
A drop is counted before its line is written, so `DropsCounted` adds the calls that
are between the two.

*The public edge.* `Paid` is the invariant of a bucket: what was granted since any
earlier grant together with what the bucket holds is at most the burst and what has
come in since. A refill keeps it because time never goes back in a bucket, although
a visit brings a reading older than the bucket's; a grant moves a request's worth
from the one side to the other. `Owed` is the promise of a refusal: at the time told,
the bucket will hold a request's worth, unless a grant comes first. Products of the rate and a
time are beyond the solver's linear arithmetic; they are named once and the
inequalities between the names are linear. The last conjunct of `EdgeHolds`,
`PromptsAreBounded`, is about the sum of `prompt_bytes`: by induction over the messages
the partial sums never fall, and each is at least any two messages before it
(`TotalsBound`).

*The worker's endpoint.* `Channel` is the invariant of a call that waits: the channel
holds tokens and, once the session has ended, exactly one end as its last event;
what the handler took and what is in the channel is what the session generated, less the
end-of-sequence token. `SessionRuns` says of a session in a grammar that the automaton
is as far as there are tokens and not at its end, which with the checks made when the
session was created leaves a token to choose (`GrammarLeavesToken`); a failing native step
ends the session like any other end. A timer finishes
once, so the histogram is the cardinality of the calls with an outcome.

*Metrics.* For the counts, `ExchangeFits` says which phase, timer and cause of an
exchange go together, and `Tallies` that each counter is the cardinality of a set of
exchanges. Every step moves one exchange, so `CountsFollow` reduces a step to what it
adds to or takes from each counter for that exchange (`OneMoves`); the exchanges may be
infinitely many, those counted are finitely many. For the scrapes, the render lock makes
whoever is not idle its only holder (`OneRenders`). `PartlyWritten` is the holder's
progress: the metrics up to a point in the registry's order have the snapshot's values,
the rest is still to be written, in that order; `MetricsShowOne` says that the metrics
show what a scrape had read whenever no refresh is in the middle of writing one. The
count in the metrics is never ahead of the service's (`CountIsReal`), which is why
`sync_counter`, that never lowers it, writes exactly the snapshot's.

## 11. Findings and observations

Findings, each a run that expects its violation:

- `raft_ack`: a client write can be answered with another leader's configuration
  that was committed at its index (`raft.rs:631`).
- `grammar_eos`: a structured answer can end successfully in the middle of the
  object when an enumerated choice is the end-of-sequence token
  (`worker/src/lib.rs:1349`).
- `ewma_probe`: when the number of workers divides the probe interval every probe
  starts at the same worker (`routing.rs:377`).
- `paged_tail`: with speculation, a published prefix may end in a page that holds
  rows beyond the prompt, and every session that starts from it fails
  (`inferlab_runtime.cpp:736`).

Observations that no document contradicts, or that no run states:

- Trust files: after a directory sync that failed, a restarted process takes the
  file it finds in the page cache as durable; a power loss may still undo it.
  `docs/rfcs/0027-signed-online-service-trust.md:245` can be read otherwise.
- A remote trust receiver that accepted a policy but failed to activate it is
  answered "not modified" from then on and does not retry before a restart or the
  next generation; with a file the watcher behaves likewise.
- A renewer whose staged generation expired before it was published fails closed
  until an operator acts, as documented. That it writes its file before each
  publication is what makes one byte string per generation hold.
- Weighted round robin: a turn on which every circuit refuses still adds weight
  (`routing.rs:354`).
- A refreshed pool has fresh semaphores and circuits, so a worker may run more
  requests than its limit while the old pool drains, and the admission capacity
  stays that of the first pool (`gateway/src/lib.rs:455`).
- Replay protection needs handlers that do not stall longer than the skew, and a
  clock that is not set back further.
- An append in place to a shared page would be caught by the tail check and not
  corrupt rows.
- Control writes: the fence compares with the revision that the leader has committed
  itself (`raft.rs:583`). A new leader that does not know yet that an intent is
  committed appends a replay of it, although RFC 0024:96-97 has "Replaying an already
  committed intent fails its signed expected-revision fence" without exception; and a
  leader appends an intent twice when the first copy's wait timed out, or its client
  hung up, before it committed, although RFC 0024:264-266 allows "at most one append
  on a leader". Lines 266-268 of the RFC leave both to the client to reconcile.
- Queue: an enqueue may be confirmed from a replayed record that was never
  synced (`wal.rs:83-87`); `KeyNamesOneJob` is therefore said until a power loss.
  Job names sort as text, which is numeric order up to 10^8 jobs (`store.rs:115`).
- Structured enumeration choices are emitted unescaped.
- The metrics middleware reports the methods that a route does not allow as
  "Other"; histogram deadlines may exceed the resilience counter of exceeded
  deadlines.
- The public edge spends a token for a request that admission then refuses.
- Link proxy: a torn journal line swallows the record after it; a request that
  read "allow" may be forwarded after the change to "drop".
- The freshness of a control write is checked before it waits for the proposal
  lock.

## 12. What is not modelled

The HTTP surface and the command-line tools of the control plane, the verification
of model artifacts, the tokenizer and the fake worker: input, output and parsing
around the handlers that are modelled. Of model execution the paged cache is
modelled, the numeric kernels, sampling and the dense cache are not. Of the
renewal schedule the clock, the deadlines and the next policy are modelled, the
encoding of the template is not. Cryptography is ideal throughout; that distinct
documents have distinct bytes is `PayloadsDistinct`.

## 13. What is only model-checked

Besides liveness: `PayloadsDistinct` and `ChoicesHold`, which compare what recursive or
numeric computations yield over bounded inputs.
