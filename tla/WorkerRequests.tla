--------------------------- MODULE WorkerRequests ---------------------------
(***************************************************************************)
(* A worker's completion endpoint: worker/src/lib.rs (chat_completions,    *)
(* Session, the stream of events), worker/src/decoding.rs (the controls    *)
(* and the JSON grammar) and the generation timer of worker/src/metrics.rs.*)
(*                                                                         *)
(* A request becomes a decoder session, which the scheduler steps; what a  *)
(* step yields goes through an unbounded channel to the handler, which     *)
(* collects it or streams it.  The client may go at any await, the queue   *)
(* may be full, and the scheduler's task may die.  When sessions are       *)
(* stepped is Scheduler's subject: here any live session may be.           *)
(*                                                                         *)
(* Logits are left out: a step may choose any token that the bans and the  *)
(* grammar leave, of which top-k, top-p and sampling pick one.  `told' is  *)
(* history: what the client was given last.                                *)
(***************************************************************************)
EXTENDS Integers, Sequences, SequencesExt, FiniteSets

CONSTANTS
    Call,
    ChatRequest,                  \* the requests that clients send
    Vocabulary,
    JSON_START, JSON_SEPARATOR, JSON_END, EOS_TOKEN,
    Absent,                       \* text that is not one token of the model
    Text,                         \* ResponseFormat::Text
    max_context,                  \* the model's context length
    draft_loaded                  \* is there a draft model?

ASSUME VocabularyHasEos == EOS_TOKEN \in Vocabulary /\ Absent \notin Vocabulary
ASSUME ContextIsPositive == max_context \in Nat \ {0}
ASSUME DraftType == draft_loaded \in BOOLEAN

VARIABLES
    call,           \* per call: where its handler is, its timer, its counts
    session,        \* per call: its decoder session
    events,         \* per call: the channel from the scheduler
    scheduler_up,
    counted,        \* the generation histograms: how many of each outcome
    told

workerVars == <<call, session, events, scheduler_up, counted, told>>

JSON_GRAMMAR_TOKENS == 6

Outcome == {"success", "error", "cancelled"}

-----------------------------------------------------------------------------
(* The controls and the grammar.                                             *)

Elements(s) == {s[i] : i \in DOMAIN s}

\* SamplingConfig::validate.  `in_range' stands for the temperature, top_k,
\* top_p and the repetition penalty.
SamplingIsValid(r) ==
    /\ r.in_range
    /\ Elements(r.bans) \subseteq Vocabulary
    /\ IsInjective(r.bans)
    /\ Elements(r.bans) # Vocabulary

\* compile_enum: each choice is one token, and no two are the same.
compile_enum(property) ==
    /\ property.string
    /\ property.choices # << >>
    /\ Elements(property.choices) \subseteq Vocabulary
    /\ IsInjective(property.choices)

ExpectedNames == {"answer", "confidence"}

\* Mutant of compile_constraint: a budget without the final token will do.
compile_without_eos(schema, max_tokens) == max_tokens >= JSON_GRAMMAR_TOKENS - 1

\* compile_constraint: the schemas that have an automaton.
compile_constraint(schema, max_tokens) ==
    /\ max_tokens >= JSON_GRAMMAR_TOKENS
    /\ schema.named /\ schema.strict /\ schema.object /\ schema.closed
    /\ schema.names = ExpectedNames
    /\ Elements(schema.required) = ExpectedNames /\ IsInjective(schema.required)
    /\ compile_enum(schema.answer) /\ compile_enum(schema.confidence)
    /\ {JSON_START, JSON_SEPARATOR, JSON_END} \subseteq Vocabulary

\* The automaton: the tokens that lead from state q to the next one.
Transitions(schema) ==
    <<{JSON_START}, Elements(schema.answer.choices), {JSON_SEPARATOR},
      Elements(schema.confidence.choices), {JSON_END}, {EOS_TOKEN}, {}>>

\* TokenDfa::allowed_token_ids; without a grammar the list is empty.
allowed_token_ids(format, state) ==
    IF format = Text THEN {} ELSE Transitions(format)[state + 1]

is_accepting(state) == state = JSON_GRAMMAR_TOKENS

\* Mutant of validate_banned_tokens: the whole grammar is looked at, not each state.
validate_some(schema, bans) ==
    \E q \in 0..(JSON_GRAMMAR_TOKENS - 1) :
        ~ (allowed_token_ids(schema, q) \subseteq bans)

\* validate_banned_tokens: every state but the last keeps a legal token.
validate_banned_tokens(schema, bans) ==
    \A q \in 0..(JSON_GRAMMAR_TOKENS - 1) :
        ~ (allowed_token_ids(schema, q) \subseteq bans)

\* The draft model goes with a positive number of speculative tokens.
SpeculationIsValid(r) ==
    /\ r.speculative_tokens <= 8
    /\ r.speculative_tokens > 0 => draft_loaded /\ r.format = Text

\* Session::new and inferlab_session_create.
SessionIsValid(r) ==
    /\ SamplingIsValid(r)
    /\ r.format # Text => /\ compile_constraint(r.format, r.max_tokens)
                          /\ validate_banned_tokens(r.format, Elements(r.bans))
    /\ SpeculationIsValid(r)
    /\ r.max_tokens \in 1..max_context

-----------------------------------------------------------------------------
(* A step of a session.                                                      *)

NoCall == [phase |-> "new", timer |-> "none", got |-> 0]
NoWorkerSession == [live |-> FALSE, state |-> 0, generated |-> 0, finished |-> FALSE]

WorkerInit ==
    /\ call = [c \in Call |-> NoCall]
    /\ session = [c \in Call |-> NoWorkerSession]
    /\ events = [c \in Call |-> << >>]
    /\ scheduler_up = TRUE
    /\ counted = [o \in Outcome |-> 0]
    /\ told = [c \in Call |-> [request |-> Text, last |-> "nothing"]]

Asked(c) == told[c].request

\* build_distribution: bans first, then the grammar's mask, where an empty list
\* masks nothing.
Candidates(c) ==
    LET r == Asked(c)
        allowed == allowed_token_ids(r.format, session[c].state)
        unbanned == Vocabulary \ Elements(r.bans)
    IN  IF allowed = {} THEN unbanned ELSE unbanned \cap allowed

\* The receiver is dropped with its handler.
Listening(c) == call[c].phase \notin {"new", "over"}

\* Mutant of SessionEnds: the handler is not told of the end.
SessionEndsSilently(c, s, event) ==
    /\ session' = [session EXCEPT ![c] = [s EXCEPT !.live = FALSE]]
    /\ UNCHANGED events

\* The session has ended: the scheduler lets go of it, and what it sends with
\* it is lost on a handler that has gone.
SessionEnds(c, s, event) ==
    /\ session' = [session EXCEPT ![c] = [s EXCEPT !.live = FALSE]]
    /\ events' = IF Listening(c) THEN [events EXCEPT ![c] = Append(@, event)] ELSE events

\* Session::next_token without a token: the native session has no more to give,
\* which is an error inside the grammar, or all tokens are masked, which always is.
StepYieldsNothing(c) ==
    LET s == session[c]
        at_limit == s.finished \/ s.generated >= Asked(c).max_tokens
    IN  /\ s.live
        /\ at_limit \/ Candidates(c) = {}
        /\ SessionEnds(c, s, IF at_limit /\ (Asked(c).format = Text \/ is_accepting(s.state))
                             THEN "finished" ELSE "error")
        /\ UNCHANGED <<call, scheduler_up, counted, told>>

\* inferlab_session_next throws on its way to a token: the cache has no page
\* left, or its tail is not the one expected (module PagedCache says when).
StepFails(c) ==
    LET s == session[c]
    IN  /\ s.live /\ ~ s.finished /\ s.generated < Asked(c).max_tokens
        /\ SessionEnds(c, s, "native_error")
        /\ UNCHANGED <<call, scheduler_up, counted, told>>

\* Mutant of Advanced: the automaton stays where it is.
AdvancedNot(c, t) ==
    [session[c] EXCEPT !.generated = @ + 1, !.finished = t = EOS_TOKEN]

\* inferlab_session_next has chosen t, and TokenDfa::advance takes it.
Advanced(c, t) ==
    [session[c] EXCEPT !.generated = @ + 1,
                       !.finished = t = EOS_TOKEN,
                       !.state = IF Asked(c).format = Text THEN @ ELSE @ + 1]

\* A token: the end of the sequence, or one to send.  A send that fails tells
\* the scheduler that the client has gone.
StepChooses(c, t) ==
    LET s == session[c]
    IN  /\ s.live /\ ~ s.finished /\ s.generated < Asked(c).max_tokens
        /\ t \in Candidates(c)
        /\ IF Asked(c).format # Text /\ t \notin allowed_token_ids(Asked(c).format, s.state)
           THEN SessionEnds(c, s, "error")
           ELSE IF t = EOS_TOKEN THEN SessionEnds(c, Advanced(c, t), "finished")
           ELSE IF ~ Listening(c) THEN SessionEnds(c, Advanced(c, t), "token")
           ELSE /\ session' = [session EXCEPT ![c] = Advanced(c, t)]
                /\ events' = [events EXCEPT ![c] = Append(@, "token")]
        /\ UNCHANGED <<call, scheduler_up, counted, told>>

\* The scheduler's task dies with the sessions it holds; their channels close.
SchedulerDies ==
    /\ scheduler_up
    /\ scheduler_up' = FALSE
    /\ session' = [c \in Call |-> [session[c] EXCEPT !.live = FALSE]]
    /\ events' = [c \in Call |-> IF session[c].live /\ Listening(c)
                                 THEN Append(events[c], "closed") ELSE events[c]]
    /\ UNCHANGED <<call, counted, told>>

-----------------------------------------------------------------------------
(* The handler.                                                              *)

\* Mutant of finish: a timer may finish twice.
finish_again(c, phase, outcome) ==
    /\ call' = [call EXCEPT ![c].phase = phase, ![c].timer = outcome]
    /\ counted' = [counted EXCEPT ![outcome] = @ + 1]

\* GenerationTimer::finish: the first outcome is the one that counts.
finish(c, phase, outcome) ==
    /\ call' = [call EXCEPT ![c].phase = phase,
                            ![c].timer = IF @ = "none" THEN outcome ELSE @]
    /\ counted' = IF call[c].timer = "none"
                  THEN [counted EXCEPT ![outcome] = @ + 1] ELSE counted

Tell(c, r, what) == told' = [told EXCEPT ![c] = [request |-> r, last |-> what]]

\* chat_completions up to its first await: a request for another model, one no
\* session can be made for, one the scheduler does not take, or a session.
chat_completions(c, r) ==
    /\ call[c].phase = "new"
    /\ \/ /\ \E full \in BOOLEAN : ~ r.model \/ ~ SessionIsValid(r) \/ ~ scheduler_up \/ full
          /\ finish(c, "over", "error")
          /\ Tell(c, r, "error")
          /\ UNCHANGED <<session, events, scheduler_up>>
       \/ /\ r.model /\ SessionIsValid(r) /\ scheduler_up
          /\ call' = [call EXCEPT ![c].phase = IF r.stream THEN "role" ELSE "collect"]
          /\ session' = [session EXCEPT ![c].live = TRUE]
          /\ Tell(c, r, "nothing")
          /\ UNCHANGED <<events, scheduler_up, counted>>

\* The next event of the call, taken from the channel.
Takes(c, event) ==
    /\ events[c] # << >> /\ Head(events[c]) = event
    /\ events' = [events EXCEPT ![c] = Tail(@)]
    /\ UNCHANGED <<session, scheduler_up>>

\* SchedulerEvent::Error, of the masks and the grammar or of the native step,
\* which the handler does not tell apart; and recv on a channel whose sender is
\* gone, which "closed" stands for.
Failure == {"error", "native_error", "closed"}

TakesToken(c) ==
    /\ call[c].phase \in {"collect", "generate"}
    /\ Takes(c, "token")
    /\ call' = [call EXCEPT ![c].got = @ + 1]
    /\ UNCHANGED <<counted, told>>

\* collect_scheduled has the whole answer, or an error.
CollectEnds(c) ==
    /\ call[c].phase = "collect"
    /\ \/ Takes(c, "finished") /\ finish(c, "over", "success") /\ Tell(c, Asked(c), "complete")
       \/ /\ \E e \in Failure : Takes(c, e)
          /\ finish(c, "over", "error") /\ Tell(c, Asked(c), "error")

StreamRole(c) ==
    /\ call[c].phase = "role"
    /\ call' = [call EXCEPT ![c].phase = "generate"]
    /\ UNCHANGED <<session, events, scheduler_up, counted, told>>

\* The stream's last chunk before [DONE].
StreamFinishes(c) ==
    /\ call[c].phase = "generate"
    /\ \/ /\ Takes(c, "finished")
          /\ call' = [call EXCEPT ![c].phase = "done"]
          /\ Tell(c, Asked(c), "complete")
          /\ UNCHANGED counted
       \/ /\ \E e \in Failure : Takes(c, e)
          /\ finish(c, "done", "error") /\ Tell(c, Asked(c), "error")

\* [DONE], and then the end of the body, at which the timer is told of success.
StreamEnds(c) ==
    \/ /\ call[c].phase = "done"
       /\ call' = [call EXCEPT ![c].phase = "end"]
       /\ UNCHANGED <<session, events, scheduler_up, counted, told>>
    \/ /\ call[c].phase = "end"
       /\ finish(c, "over", "success")
       /\ UNCHANGED <<session, events, scheduler_up, told>>

\* The client goes: the handler or the stream is dropped, with the receiver and
\* the timer, which counts a cancellation if it has not finished.
ClientGoes(c) ==
    /\ Listening(c)
    /\ finish(c, "over", "cancelled")
    /\ events' = [events EXCEPT ![c] = << >>]
    /\ UNCHANGED <<session, scheduler_up, told>>

\* What a handler does when it is polled, and what the scheduler does.
HandlerProceeds(c) ==
    TakesToken(c) \/ CollectEnds(c) \/ StreamRole(c) \/ StreamFinishes(c) \/ StreamEnds(c)

SessionProceeds(c) ==
    StepYieldsNothing(c) \/ StepFails(c) \/ \E t \in Vocabulary : StepChooses(c, t)

WorkerNext ==
    \/ \E c \in Call : \/ \E r \in ChatRequest : chat_completions(c, r)
                       \/ SessionProceeds(c) \/ HandlerProceeds(c) \/ ClientGoes(c)
    \/ SchedulerDies

WorkerSpec == WorkerInit /\ [][WorkerNext]_workerVars

-----------------------------------------------------------------------------
(* Properties.                                                               *)

WorkerTypeOK ==
    /\ \A c \in Call :
        /\ call[c] \in [phase : {"new", "collect", "role", "generate", "done", "end", "over"},
                        timer : Outcome \cup {"none"}, got : 0..max_context]
        /\ session[c] \in [live : BOOLEAN, state : 0..JSON_GRAMMAR_TOKENS,
                           generated : 0..max_context, finished : BOOLEAN]
        /\ events[c] \in Seq({"token", "finished"} \cup Failure)
    /\ scheduler_up \in BOOLEAN
    /\ counted \in [Outcome -> Nat]

\* Every call that is over was counted once, as a success only if the client was
\* given the whole answer, as an error if it was told of one, and the tokens
\* counted for a complete answer are those its session produced (chat_completions,
\* streaming_response, collect_scheduled and GenerationTimer).
CallsAreCounted ==
    /\ \A o \in Outcome : counted[o] = Cardinality({c \in Call : call[c].timer = o})
    /\ \A c \in Call :
        /\ call[c].phase = "over" => call[c].timer # "none"
        /\ call[c].timer = "success" => told[c].last = "complete"
        /\ told[c].last = "error" => call[c].timer = "error"
        /\ told[c].last = "complete" =>
            call[c].got = session[c].generated - (IF session[c].finished THEN 1 ELSE 0)

\* A structured session is never failed by its own constraints: no state of the
\* grammar is left without a token and the budget reaches its end (compile_constraint,
\* validate_banned_tokens and next_token).  The native step may still fail it, and
\* the scheduler may die: neither is a matter of the grammar.
GrammarNeverFails ==
    \A c \in Call : Asked(c) # Text =>
        (Asked(c).format # Text => /\ "error" \notin Elements(events[c])
                                   /\ session[c].live => Candidates(c) # {})

\* The worker counts every call once and truly, whether it is answered, fails or is
\* left, and no call fails by its own grammar.
WorkerHolds == WorkerTypeOK /\ CallsAreCounted /\ GrammarNeverFails

\* docs/rfcs/0015-sampling-structured-decoding.md:311: a structured response
\* terminates successfully only after the grammar's EOS.
SuccessIsAccepted ==
    \A c \in Call : told[c].last = "complete" /\ Asked(c).format # Text
        => is_accepting(session[c].state)

\* Every call ends, if handlers are polled and the scheduler steps its sessions.
CallsEnd == \A c \in Call : call[c].phase # "new" ~> call[c].phase = "over"
=============================================================================
