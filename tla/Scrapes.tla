------------------------------ MODULE Scrapes ------------------------------
(***************************************************************************)
(* The metrics listener of every service: MetricsRegistry::render of       *)
(* observability/src/registry.rs with the refresh that each service runs   *)
(* before it (gateway, worker, control plane, link proxy, batch queue,     *)
(* trust distributor and trust renewer).                                   *)
(*                                                                         *)
(* A refresh takes a snapshot of its service and writes it to the metrics  *)
(* one by one; encoding reads them one by one; another scrape may be under *)
(* way.  The service moves on all the while.  A gateway and a control node *)
(* are read part by part, each under its own lock, so that their snapshot  *)
(* may join parts of two moments.  A service is a state among              *)
(* `States' states of equal standing (a role, a mode, how many receivers   *)
(* have acknowledged) and a count that only grows.  Its lock may be taken  *)
(* or poisoned, and then there is no snapshot.  `taken' is history: the    *)
(* snapshots that refreshes took.                                          *)
(***************************************************************************)
EXTENDS Integers, Sequences, FiniteSets

CONSTANTS Scraper, States, MaxCount, MaxScrapes

ASSUME ScrapeBounds == States \in Nat \ {0} /\ MaxCount \in Nat /\ MaxScrapes \in Nat

VARIABLES
    service,       \* which service this is
    source,        \* what it is doing
    metric,        \* the registered metrics
    scraper,       \* per scraper: its phase, snapshot, what it has yet to write, has read
    render_lock,   \* who holds it
    taken,
    scraped        \* history: per scraper, the documents it got and their snapshots

scrapeVars == <<service, source, metric, scraper, render_lock, taken, scraped>>

ServiceName == {"gateway", "worker", "control_plane", "link_proxy", "batch_queue",
                "trust_distributor", "trust_renewer"}

ReadInParts == {"gateway", "control_plane"}

State == 1..States

\* The metrics in the order of the registry: one per state, the count, the health.
COUNT == States + 1
HEALTHY == States + 2

NoSnapshot == [state |-> 0, count |-> 0, healthy |-> 0]

-----------------------------------------------------------------------------
(* What a refresh writes, in order: pairs of a metric and its value.         *)

\* Mutant of sync_counter: the snapshot's value is added to what is there.
sync_again(value) == metric[COUNT] + value

\* sync_counter, set_counter and CounterMirror: the count is raised, never lowered.
sync_counter(value) == IF value > metric[COUNT] THEN value ELSE metric[COUNT]

\* One gauge per state: a one-hot family, or how many there are in each state.
Gauges(s) == [i \in State |-> <<i, IF s.state = i THEN 1 ELSE 0>>]

Everything(s) == Gauges(s) \o <<<<COUNT, sync_counter(s.count)>>, <<HEALTHY, s.healthy>>>>

\* The gateway, the worker and the renewer can always be read: a poisoned lock is
\* taken over.
gateway_refresh(s) == Everything(s)
worker_refresh(s) == Everything(s)
renewer_refresh(s) == Everything(s)

\* raft_snapshot_or_mark_unhealthy: without a snapshot the node is not healthy.
control_refresh(s) == IF s = NoSnapshot THEN <<<<HEALTHY, 0>>>> ELSE Everything(s)

\* The others keep what the last scrape had.
link_refresh(s) == IF s = NoSnapshot THEN << >> ELSE Everything(s)
queue_refresh(s) == IF s = NoSnapshot THEN << >> ELSE Everything(s)
distributor_refresh(s) == IF s = NoSnapshot THEN << >> ELSE Everything(s)

Writes(s) ==
    CASE service = "gateway" -> gateway_refresh(s)
      [] service = "worker" -> worker_refresh(s)
      [] service = "trust_renewer" -> renewer_refresh(s)
      [] service = "control_plane" -> control_refresh(s)
      [] service = "link_proxy" -> link_refresh(s)
      [] service = "batch_queue" -> queue_refresh(s)
      [] service = "trust_distributor" -> distributor_refresh(s)

\* metrics_snapshot, try_metrics_snapshot.
Snapshots ==
    IF source.readable \/ service \in {"gateway", "worker", "trust_renewer"}
    THEN [state |-> source.state, count |-> source.count, healthy |-> source.healthy]
    ELSE NoSnapshot

-----------------------------------------------------------------------------

FreshScrape(phase) == [phase |-> phase, snapshot |-> NoSnapshot, todo |-> << >>, read |-> << >>]

\* register: the metrics are registered empty; the refresh at its end is the first
\* of the services that have one, and a scrape begins with another.
ScrapesInit ==
    /\ service \in ServiceName
    /\ source = [state |-> 1, count |-> 0, healthy |-> 1, readable |-> TRUE]
    /\ metric = [m \in 1..HEALTHY |-> IF m \in {1, HEALTHY} THEN 1 ELSE 0]
    /\ scraper = [k \in Scraper |-> FreshScrape("idle")]
    /\ render_lock = {}
    /\ taken = {[state |-> 1, count |-> 0, healthy |-> 1]}
    /\ scraped = [k \in Scraper |-> << >>]

\* The service does something that its metrics show.
SourceMoves ==
    /\ source.readable /\ source.count < MaxCount
    /\ \E i \in State, h \in {0, 1} :
        source' = [source EXCEPT !.state = i, !.count = @ + 1, !.healthy = h]
    /\ UNCHANGED <<service, metric, scraper, render_lock, taken, scraped>>

\* Its lock is poisoned, or held by one of the distributor's mutations for a while.
SourceLocked ==
    /\ source.readable \/ service = "trust_distributor"
    /\ source' = [source EXCEPT !.readable = ~ @]
    /\ UNCHANGED <<service, metric, scraper, render_lock, taken, scraped>>

\* Mutant of takes_lock: every scrape is let in.
lets_in(k) == render_lock' = render_lock

\* The render lock.
takes_lock(k) == render_lock = {} /\ render_lock' = {k}

\* render_metrics.
RenderBegins(k) ==
    /\ scraper[k].phase = "idle" /\ Len(scraped[k]) < MaxScrapes
    /\ takes_lock(k)
    /\ scraper' = [scraper EXCEPT ![k] = FreshScrape("refresh")]
    /\ UNCHANGED <<service, source, metric, taken, scraped>>

\* With what it has read, the callback knows what to write.
Refreshed(k, s) ==
    /\ scraper' = [scraper EXCEPT ![k] =
            [@ EXCEPT !.phase = "write", !.snapshot = s, !.todo = Writes(s)]]
    /\ taken' = taken \cup {s}

\* The callback takes its snapshot: all of it, or the first part (the admission of a
\* gateway, the Raft state of a control node).
RefreshReads(k) ==
    /\ scraper[k].phase = "refresh"
    /\ IF service \in ReadInParts /\ Snapshots # NoSnapshot
       THEN /\ scraper' = [scraper EXCEPT ![k] = [@ EXCEPT !.phase = "rest", !.snapshot = Snapshots]]
            /\ UNCHANGED taken
       ELSE Refreshed(k, Snapshots)
    /\ UNCHANGED <<service, source, metric, render_lock, scraped>>

\* The other parts: counts of resilience and routing, of writes and service requests.
RefreshReadsRest(k) ==
    /\ scraper[k].phase = "rest"
    /\ Refreshed(k, [scraper[k].snapshot EXCEPT !.count = source.count])
    /\ UNCHANGED <<service, source, metric, render_lock, scraped>>

\* One metric is set.
RefreshWrites(k) ==
    LET write == Head(scraper[k].todo)
    IN  /\ scraper[k].phase = "write" /\ scraper[k].todo # << >>
        /\ metric' = [metric EXCEPT ![write[1]] = write[2]]
        /\ scraper' = [scraper EXCEPT ![k].todo = Tail(@)]
        /\ UNCHANGED <<service, source, render_lock, taken, scraped>>

\* encode walks the registry in its order.
EncodeReads(k) ==
    /\ scraper[k].phase = "write" /\ scraper[k].todo = << >>
    /\ Len(scraper[k].read) < HEALTHY
    /\ scraper' = [scraper EXCEPT ![k].read = Append(@, metric[Len(@) + 1])]
    /\ UNCHANGED <<service, source, metric, render_lock, taken, scraped>>

RenderEnds(k) ==
    /\ scraper[k].phase = "write" /\ Len(scraper[k].read) = HEALTHY
    /\ scraped' = [scraped EXCEPT ![k] =
            Append(@, [document |-> scraper[k].read, snapshot |-> scraper[k].snapshot])]
    /\ scraper' = [scraper EXCEPT ![k] = FreshScrape("idle")]
    /\ render_lock' = render_lock \ {k}
    /\ UNCHANGED <<service, source, metric, taken>>

ScrapesNext ==
    \/ SourceMoves \/ SourceLocked
    \/ \E k \in Scraper : \/ RenderBegins(k) \/ RefreshReads(k) \/ RefreshReadsRest(k)
                          \/ RefreshWrites(k) \/ EncodeReads(k) \/ RenderEnds(k)

ScrapesSpec == ScrapesInit /\ [][ScrapesNext]_scrapeVars

-----------------------------------------------------------------------------
(* Properties.                                                               *)

Shows(document, s) ==
    /\ \A i \in State : document[i] = IF s.state = i THEN 1 ELSE 0
    /\ document[COUNT] = s.count

\* A document shows what was read for it, and not half of it and half of what was
\* read for another scrape.  Without a snapshot it shows an earlier one, and a control
\* plane that cannot be read does not claim to be healthy (render and its comment on
\* the lock, raft_snapshot_or_mark_unhealthy).
ScrapesAreWhole ==
    \A k \in Scraper : \A i \in DOMAIN scraped[k] :
        LET document == scraped[k][i].document
            s == scraped[k][i].snapshot
        IN  IF s # NoSnapshot THEN Shows(document, s) /\ document[HEALTHY] = s.healthy
            ELSE /\ \E t \in taken \ {NoSnapshot} : Shows(document, t)
                 /\ service = "control_plane" => document[HEALTHY] = 0

\* Scrape after scrape a count only grows (sync_counter, CounterMirror).
CountsOnlyGrow ==
    \A k \in Scraper : \A i, j \in DOMAIN scraped[k] :
        i < j => scraped[k][i].document[COUNT] <= scraped[k][j].document[COUNT]

\* What is scraped was read for one scrape, and scrapes are in order.
ScrapesHold == ScrapesAreWhole /\ CountsOnlyGrow
=============================================================================
