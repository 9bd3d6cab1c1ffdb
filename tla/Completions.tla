---------------------------- MODULE Completions ----------------------------
(***************************************************************************)
(* How the gateway counts what it serves: observe_http and InFlightGuard   *)
(* of observability/src/http.rs around every request, and in it            *)
(* CompletionTimer and CompletionStream of gateway/src/metrics.rs with the *)
(* deadline that ends a body (gateway/src/lib.rs).                         *)
(*                                                                         *)
(* An exchange is one request.  Its handler may be cancelled at any await, *)
(* its body at any chunk; its deadline passes at any time after it has     *)
(* started.  What happens between start and headers is GatewayRequests'    *)
(* subject: here it ends in an error, at the deadline or in a response.    *)
(* `cause' is history: what really ended the exchange.                     *)
(***************************************************************************)
EXTENDS Integers, FiniteSets

CONSTANTS
    Exchange,
    Endpoint         \* what is asked: a route the router matched, or "", and a method

VARIABLES
    exchange,        \* per exchange: its phase, its timer and what it was labelled
    past,            \* per exchange: has its deadline passed?
    deadline_fired,  \* per exchange: the flag that its body's deadline sets
    in_flight,       \* the gauge
    requests,        \* responses counted, by label
    completions,     \* the histogram's counts, by outcome
    deadline_exceeded, \* the resilience controller's count
    cause

completionVars == <<exchange, past, deadline_fired, in_flight, requests, completions,
                    deadline_exceeded, cause>>

CompletionOutcome == {"success", "error", "cancelled", "deadline"}
StatusClass == {"2xx", "3xx", "4xx", "5xx"}

\* allows_method, for the gateway's routes.
allows_method(route, method) ==
    IF route = "chat" THEN method = "POST" ELSE method = "GET"

\* from_matched_path and the labels of observe_http: a route that is not known,
\* or not for this method, is one label, whatever the path and the method.
Label(e) ==
    IF e.route # "" /\ allows_method(e.route, e.method)
    THEN <<e.route, e.method>> ELSE <<"unmatched", "other">>

Labels == {Label(e) : e \in Endpoint}

CompletionsInit ==
    /\ exchange = [x \in Exchange |-> [phase |-> "new", timer |-> "none", label |-> <<>>]]
    /\ past = [x \in Exchange |-> FALSE]
    /\ deadline_fired = [x \in Exchange |-> FALSE]
    /\ in_flight = 0
    /\ requests = [l \in Labels \X StatusClass |-> 0]
    /\ completions = [o \in CompletionOutcome |-> 0]
    /\ deadline_exceeded = 0
    /\ cause = [x \in Exchange |-> "none"]

-----------------------------------------------------------------------------
(* The timer.                                                                *)

deadline_reached(x) == deadline_fired[x] \/ past[x]

\* Mutant of finish: a timer that has finished finishes again.
finish_twice(x, phase, outcome) ==
    /\ exchange' = [exchange EXCEPT ![x].phase = phase, ![x].timer = outcome]
    /\ completions' = [completions EXCEPT ![outcome] = @ + 1]

\* finish: the first outcome is the one that counts.
finish_completion(x, phase, outcome) ==
    IF exchange[x].timer = "running"
    THEN /\ exchange' = [exchange EXCEPT ![x].phase = phase, ![x].timer = outcome]
         /\ completions' = [completions EXCEPT ![outcome] = @ + 1]
    ELSE /\ exchange' = [exchange EXCEPT ![x].phase = phase]
         /\ UNCHANGED completions

\* Drop for CompletionTimer.
drop_outcome(x) == IF deadline_reached(x) THEN "deadline" ELSE "cancelled"

-----------------------------------------------------------------------------
(* The handler, up to the response's headers.                                *)

\* observe_http, before next.run.
Begins(x, e) ==
    /\ exchange[x].phase = "new"
    /\ exchange' = [exchange EXCEPT ![x].phase = "handler", ![x].label = Label(e)]
    /\ in_flight' = in_flight + 1
    /\ UNCHANGED <<past, deadline_fired, requests, completions, deadline_exceeded, cause>>

\* observe_http, after next.run: the response is counted and the guard dropped.
Responds(x, status) ==
    /\ requests' = [requests EXCEPT ![<<exchange[x].label, status>>] = @ + 1]
    /\ in_flight' = in_flight - 1

\* A response that no timer measures: another route, or a completion turned away
\* before its timer starts.
RespondsUntimed(x, status) ==
    /\ exchange[x].phase = "handler" /\ exchange[x].timer = "none"
    /\ exchange' = [exchange EXCEPT ![x].phase = "over"]
    /\ Responds(x, status)
    /\ UNCHANGED <<past, deadline_fired, completions, deadline_exceeded, cause>>

\* CompletionTimer::start.
TimerStarts(x) ==
    /\ exchange[x].phase = "handler" /\ exchange[x].timer = "none"
    /\ exchange[x].label = <<"chat", "POST">>
    /\ exchange' = [exchange EXCEPT ![x].timer = "running"]
    /\ UNCHANGED <<past, deadline_fired, in_flight, requests, completions, deadline_exceeded, cause>>

DeadlinePasses(x) ==
    /\ exchange[x].timer # "none" /\ exchange[x].phase # "over" /\ ~ past[x]
    /\ past' = [past EXCEPT ![x] = TRUE]
    /\ UNCHANGED <<exchange, deadline_fired, in_flight, requests, completions,
                   deadline_exceeded, cause>>

Timed(x) == exchange[x].phase = "handler" /\ exchange[x].timer = "running"

\* An early return that marks an error: no worker, an upstream that failed, or
\* retries that ran out.
HandlerFails(x) ==
    /\ Timed(x)
    /\ finish_completion(x, "over", "error")
    /\ Responds(x, "5xx")
    /\ cause' = [cause EXCEPT ![x] = "failed"]
    /\ UNCHANGED <<past, deadline_fired, deadline_exceeded>>

\* An early return at the deadline.
HandlerTimesOut(x) ==
    /\ Timed(x) /\ past[x]
    /\ deadline_exceeded' = deadline_exceeded + 1
    /\ deadline_fired' = [deadline_fired EXCEPT ![x] = TRUE]
    /\ finish_completion(x, "over", "deadline")
    /\ Responds(x, "5xx")
    /\ cause' = [cause EXCEPT ![x] = "timed_out"]
    /\ UNCHANGED past

\* into_stream: the body takes the timer along.
IntoStream(x, status) ==
    /\ Timed(x)
    /\ exchange' = [exchange EXCEPT ![x].phase = status]
    /\ Responds(x, status)
    /\ UNCHANGED <<past, deadline_fired, completions, deadline_exceeded, cause>>

\* The client goes before there are headers: the handler's future is dropped with
\* the guard and the timer, and no response is counted.
HandlerDropped(x) ==
    /\ exchange[x].phase = "handler"
    /\ in_flight' = in_flight - 1
    /\ IF exchange[x].timer = "none"
       THEN exchange' = [exchange EXCEPT ![x].phase = "over"] /\ UNCHANGED completions
       ELSE finish_completion(x, "over", drop_outcome(x))
    /\ cause' = [cause EXCEPT ![x] = "gone_early"]
    /\ UNCHANGED <<past, deadline_fired, requests, deadline_exceeded>>

-----------------------------------------------------------------------------
(* The body: CompletionStream over take_until.                               *)

Streaming(x) == exchange[x].phase \in StatusClass

\* The deadline's future is polled first and, once its timer has fired, ends
\* the body.
BodyTimesOut(x) ==
    /\ Streaming(x) /\ past[x]
    /\ deadline_fired' = [deadline_fired EXCEPT ![x] = TRUE]
    /\ deadline_exceeded' = deadline_exceeded + 1
    /\ finish_completion(x, "ended", "deadline")
    /\ cause' = [cause EXCEPT ![x] = "timed_out"]
    /\ UNCHANGED <<past, in_flight, requests>>

\* Mutant of end_outcome: the status alone decides.
end_by_status(x) == IF exchange[x].phase = "2xx" THEN "success" ELSE "error"

\* The outcome of a body that its upstream ended.
end_outcome(x) ==
    IF deadline_reached(x) THEN "deadline"
    ELSE IF exchange[x].phase = "2xx" THEN "success" ELSE "error"

\* The upstream ends the body, before the timer of the deadline has fired.
BodyEnds(x) ==
    /\ Streaming(x)
    /\ finish_completion(x, "ended", end_outcome(x))
    /\ cause' = [cause EXCEPT ![x] = IF past[x] THEN "ended_late" ELSE "ended"]
    /\ UNCHANGED <<past, deadline_fired, in_flight, requests, deadline_exceeded>>

\* A chunk is an error.
BodyFails(x) ==
    /\ Streaming(x)
    /\ finish_completion(x, "ended", IF deadline_reached(x) THEN "deadline" ELSE "error")
    /\ cause' = [cause EXCEPT ![x] = "failed"]
    /\ UNCHANGED <<past, deadline_fired, in_flight, requests, deadline_exceeded>>

\* The body is dropped: after its end, or because the client went.
BodyDropped(x) ==
    /\ Streaming(x) \/ exchange[x].phase = "ended"
    /\ finish_completion(x, "over", drop_outcome(x))
    /\ cause' = IF Streaming(x) THEN [cause EXCEPT ![x] = "gone"] ELSE cause
    /\ UNCHANGED <<past, deadline_fired, in_flight, requests, deadline_exceeded>>

CompletionsNext ==
    \E x \in Exchange :
        \/ \E e \in Endpoint : Begins(x, e)
        \/ \E s \in StatusClass : RespondsUntimed(x, s) \/ IntoStream(x, s)
        \/ TimerStarts(x) \/ DeadlinePasses(x)
        \/ HandlerFails(x) \/ HandlerTimesOut(x) \/ HandlerDropped(x)
        \/ BodyTimesOut(x) \/ BodyEnds(x) \/ BodyFails(x) \/ BodyDropped(x)

CompletionsSpec == CompletionsInit /\ [][CompletionsNext]_completionVars

-----------------------------------------------------------------------------
(* Properties.                                                               *)

Timings(o) == {x \in Exchange : exchange[x].timer = o}
CutByDeadline == {x \in Exchange : cause[x] = "timed_out"}
BeingHandled == {x \in Exchange : exchange[x].phase = "handler"}
Answered(l) ==
    {x \in Exchange : /\ exchange[x].label = l /\ exchange[x].phase # "handler"
                      /\ cause[x] # "gone_early"}

\* The histogram has every timed exchange that is over once, under one outcome:
\* a success was a whole body of a successful response that ended in time, what the
\* deadline cut is a deadline, and a client that left is not an error
\* (CompletionTimer, CompletionStream, deadline_future in proxy_chat_completions).
OutcomesAreTrue ==
    /\ \A o \in CompletionOutcome : completions[o] = Cardinality(Timings(o))
    /\ \A x \in Exchange :
        LET timer == exchange[x].timer
        IN  /\ exchange[x].phase = "over" => timer # "running"
            /\ timer = "success" => cause[x] = "ended"
            /\ timer = "error" => cause[x] \in {"failed", "ended"}
            /\ cause[x] = "timed_out" => timer = "deadline"
            /\ cause[x] \in {"gone", "gone_early"} => timer \in {"none", "cancelled", "deadline"}
    /\ deadline_exceeded = Cardinality(CutByDeadline)

\* The gauge is what is between receipt and headers, and every exchange past them
\* was counted once under its label, but for those that left before (observe_http,
\* InFlightGuard).
ResponsesAreCounted ==
    /\ in_flight = Cardinality(BeingHandled)
    /\ \A l \in Labels :
        requests[<<l, "2xx">>] + requests[<<l, "3xx">>] + requests[<<l, "4xx">>]
            + requests[<<l, "5xx">>]
            = Cardinality(Answered(l))

\* What the gateway counts is what happened.
CompletionsAreCounted == OutcomesAreTrue /\ ResponsesAreCounted
=============================================================================
