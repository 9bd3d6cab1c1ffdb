------------------------------ MODULE MC_Edge ------------------------------
(* Instances for TLC of the modules at the system's edges: the gateway's       *)
(* public edge and its counts of completions, a worker's completion endpoint,  *)
(* the metrics listeners, the control plane's signed writes and the payloads   *)
(* that are signed, and the proxy of a link between control nodes.  They share *)
(* no state: `focus' says which of them runs, and the others rest in an        *)
(* initial state, so that their state spaces add up and do not multiply.       *)
EXTENDS MC_WorkerRequests, PublicEdge, Metrics, LinkProxy, ControlWrites,
        SignedPayloads

CONSTANTS v1, v2, v3, k1, NoKey, x1, x2, s1, s2, p1, p2, p3, h1, h2, alice, mallory

\* What clients of the public edge send: one sound body and one for each check.
Message(n) == [well_formed |-> TRUE, bytes |-> n]
SoundInput == [fits |-> TRUE, json |-> TRUE, messages |-> <<Message(1), Message(1)>>, max_tokens |-> 1]
Inputs ==
    {SoundInput,
     [SoundInput EXCEPT !.fits = FALSE],
     [SoundInput EXCEPT !.json = FALSE],
     [SoundInput EXCEPT !.messages = << >>],
     [SoundInput EXCEPT !.messages = <<Message(2), Message(1)>>],
     [SoundInput EXCEPT !.messages = <<Message(0), Message(0), Message(0)>>],
     [SoundInput EXCEPT !.messages = <<[well_formed |-> FALSE, bytes |-> 0]>>],
     [SoundInput EXCEPT !.max_tokens = 0],
     [SoundInput EXCEPT !.max_tokens = 2]}

Endpoints ==
    {[route |-> "chat", method |-> "POST"],
     [route |-> "chat", method |-> "GET"],
     [route |-> "", method |-> "GET"]}

\* A writer's intents for two revisions, one that is not valid, one of a
\* revoked writer, and one for another cluster.
Intent(writer, cluster, expected, issued_at, body) ==
    [writer |-> writer, cluster |-> cluster, expected |-> expected,
     issued_at |-> issued_at, body |-> body]
Intents ==
    {Intent(alice, "own", 0, 0, "good"),
     Intent(alice, "own", 2, 1, "good"),
     Intent(alice, "own", 0, 1, "bad"),
     Intent(mallory, "own", 0, 0, "good"),
     Intent(alice, "foreign", 0, 0, "good")}

\* Text of up to two symbols; a symbol may be a character, a length or a number.
ShortText == {<<>>, <<1>>, <<1, 1>>}

VARIABLE focus

allVars == <<workerVars, edgeVars, completionVars, scrapeVars, linkVars, writeVars, payloadVars, focus>>

MCInit ==
    /\ focus \in {"worker", "edge", "completions", "scrapes", "link", "writes", "payloads"}
    /\ WorkerInit /\ EdgeInit /\ CompletionsInit /\ ScrapesInit /\ LinkInit /\ WritesInit
    /\ focus # "scrapes" => service = "gateway"
    /\ focus # "writes" => required
    /\ IF focus = "payloads" THEN PayloadsInit ELSE compared = {}

\* Two calls meet in the scheduler's death and in the counters only: one of them
\* at a time has a grammar.
HasGrammar(c) == Asked(c) # Text /\ Asked(c).format # Text
OneGrammar == \A c, d \in Call : c # d => ~ (HasGrammar(c) /\ HasGrammar(d))

Worker(A) ==
    /\ focus = "worker" /\ A /\ OneGrammar'
    /\ UNCHANGED <<edgeVars, completionVars, scrapeVars, linkVars, writeVars, payloadVars, focus>>

MCNext ==
    \/ Worker(WorkerNext)
    \/ /\ focus = "edge" /\ EdgeNext
       /\ UNCHANGED <<workerVars, completionVars, scrapeVars, linkVars, writeVars, payloadVars, focus>>
    \/ /\ focus = "completions" /\ CompletionsNext
       /\ UNCHANGED <<workerVars, edgeVars, scrapeVars, linkVars, writeVars, payloadVars, focus>>
    \/ /\ focus = "scrapes" /\ ScrapesNext
       /\ UNCHANGED <<workerVars, edgeVars, completionVars, linkVars, writeVars, payloadVars, focus>>
    \/ /\ focus = "link" /\ LinkNext
       /\ UNCHANGED <<workerVars, edgeVars, completionVars, scrapeVars, writeVars, payloadVars, focus>>
    \/ /\ focus = "writes" /\ WritesNext
       /\ UNCHANGED <<workerVars, edgeVars, completionVars, scrapeVars, linkVars, payloadVars, focus>>

\* Handlers are polled and the scheduler steps its sessions (FairWorkerSpec);
\* the others have safety only.
MCSpec ==
    /\ MCInit /\ [][MCNext]_allVars
    /\ \A c \in Call : WF_allVars(Worker(HandlerProceeds(c))) /\ WF_allVars(Worker(SessionProceeds(c)))
============================================================================
