------------------------- MODULE MC_WorkerRequests -------------------------
(* An instance of WorkerRequests for TLC: the requests that clients send.    *)
EXTENDS WorkerRequests

CONSTANTS c1, c2, yes, no, high

OneOf(s) == [string |-> TRUE, choices |-> s]

\* The schema of inference_summary_response_format, with these choices.
Schema(answers, confidences) ==
    [named |-> TRUE, strict |-> TRUE, object |-> TRUE, closed |-> TRUE,
     names |-> ExpectedNames, required |-> <<"answer", "confidence">>,
     answer |-> OneOf(answers), confidence |-> OneOf(confidences)]

Summary == Schema(<<yes, no>>, <<high>>)

Plain == [model |-> TRUE, stream |-> TRUE, max_tokens |-> 2, in_range |-> TRUE,
          bans |-> << >>, format |-> Text, speculative_tokens |-> 0]

Structured == [Plain EXCEPT !.format = Summary, !.max_tokens = JSON_GRAMMAR_TOKENS]

\* Requests that become sessions, and one of each kind that does not.
Sound ==
    {Plain,
     [Plain EXCEPT !.stream = FALSE, !.speculative_tokens = 1],
     [Plain EXCEPT !.max_tokens = 1, !.bans = <<EOS_TOKEN>>],
     [Structured EXCEPT !.bans = <<yes>>],
     [Structured EXCEPT !.stream = FALSE, !.max_tokens = 7]}

Unsound ==
    {[Plain EXCEPT !.model = FALSE],
     [Plain EXCEPT !.in_range = FALSE],
     [Plain EXCEPT !.max_tokens = 0],
     [Plain EXCEPT !.bans = <<yes, yes>>],
     [Structured EXCEPT !.max_tokens = JSON_GRAMMAR_TOKENS - 1],
     [Structured EXCEPT !.bans = <<yes, no>>],
     [Structured EXCEPT !.bans = <<EOS_TOKEN>>],
     [Structured EXCEPT !.speculative_tokens = 1],
     [Structured EXCEPT !.format = Schema(<<Absent>>, <<high>>)],
     [Structured EXCEPT !.format = Schema(<<yes, yes>>, <<high>>)],
     [Structured EXCEPT !.format.strict = FALSE]}

ChatRequests == Sound \cup Unsound

\* A choice may be the text of any token: here, of the one that ends a sequence.
EndingChoice == {[Structured EXCEPT !.format = Schema(<<yes, EOS_TOKEN>>, <<high>>)]}

FairWorkerSpec ==
    /\ WorkerSpec
    /\ \A c \in Call : WF_workerVars(HandlerProceeds(c)) /\ WF_workerVars(SessionProceeds(c))
=============================================================================
