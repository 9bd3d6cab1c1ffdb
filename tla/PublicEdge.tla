----------------------------- MODULE PublicEdge -----------------------------
(***************************************************************************)
(* The hosted public edge of the gateway: hosted_public_edge_middleware in *)
(* gateway/src/lib.rs with gateway/src/public_edge.rs (the input policy    *)
(* and a token bucket per credential) and gateway/src/                     *)
(* public_authentication.rs.                                               *)
(*                                                                         *)
(* A visit is one request on its way through the middleware.  It waits for *)
(* its body, when the client may go; then it reads the elapsed time and    *)
(* takes its credential's bucket under a lock, which other visits may take *)
(* in between with a later time.  Time is in ticks; a bucket counts units  *)
(* of which `minute' make a request.  `grants' and `promise' are history:  *)
(* when the bucket granted, and what the last refusal told the client.     *)
(***************************************************************************)
EXTENDS Integers, Sequences, SequencesExt, FiniteSets

CONSTANTS
    Visit,
    ApiKey,                      \* the configured keys: each has its own slot
    Header,                      \* what requests may carry for a key
    Input,                       \* the bodies that clients send
    max_messages, max_prompt_bytes, max_output_tokens,
    rate_requests_per_minute, rate_burst,
    second, minute,              \* in ticks
    capacity,                    \* what admission takes
    MaxElapsed                   \* bounds the clock

validate_positive_bounded(value, maximum) == value \in Nat /\ value # 0 /\ value <= maximum

\* PublicEdgeConfig::validate: each limit is positive and bounded.
limits_are_valid ==
    /\ validate_positive_bounded(max_messages, 256)
    /\ validate_positive_bounded(max_prompt_bytes, 65536)
    /\ validate_positive_bounded(max_output_tokens, 4096)
    /\ validate_positive_bounded(rate_requests_per_minute, 60000)
    /\ validate_positive_bounded(rate_burst, 1000)

\* from_configuration, as the hosted mode needs it: one to sixteen keys.
keys_are_valid == Cardinality(ApiKey) \in 1..16

ASSUME EdgeConfigIsValid == limits_are_valid /\ keys_are_valid
ASSUME InputType ==
    Input \subseteq [fits : BOOLEAN, json : BOOLEAN,
                     messages : Seq([well_formed : BOOLEAN, bytes : Nat]), max_tokens : Int]
ASSUME TicksType == second \in Nat \ {0} /\ minute \in Nat \ {0} /\ minute % second = 0
ASSUME EdgeBounds == capacity \in Nat \ {0} /\ MaxElapsed \in Nat

VARIABLES
    elapsed,      \* the monotonic clock since the controller was made
    visit,        \* per visit: its phase, slot, time read, body and result
    bucket,       \* per slot: available_units and last_elapsed
    rejections,   \* per reason
    inside,       \* admission permits held
    grants,       \* history: per slot, the times at which requests were granted
    promise       \* history: per slot, when a refused client may come back

edgeVars == <<elapsed, visit, bucket, rejections, inside, grants, promise>>

InputReason == {"malformed_json", "invalid_messages", "too_many_messages",
                "prompt_too_large", "invalid_max_tokens", "max_output_tokens_exceeded"}
Reason == InputReason \cup {"authentication", "body_too_large", "rate_limited", "admission_full"}

EdgeInit ==
    /\ elapsed = 0
    /\ visit = [v \in Visit |-> [phase |-> "new"]]
    /\ bucket = [k \in ApiKey |-> [available_units |-> rate_burst * minute, last_elapsed |-> 0]]
    /\ rejections = [r \in Reason |-> 0]
    /\ inside = 0
    /\ grants = [k \in ApiKey |-> << >>]
    /\ promise = [k \in ApiKey |-> {}]

-----------------------------------------------------------------------------
(* The input policy.                                                         *)

\* Mutant of prompt_bytes: the last message only.
last_bytes(messages) == messages[Len(messages)].bytes

prompt_bytes(messages) ==
    LET total[i \in 0..Len(messages)] ==
            IF i = 0 THEN 0 ELSE total[i - 1] + messages[i].bytes
    IN  total[Len(messages)]

\* The checks of validate_input in their order: a reason, and whether it applies.
Checks(b) ==
    <<<<"malformed_json", ~ b.json>>,
      <<"invalid_messages", b.messages = << >>>>,
      <<"too_many_messages", Len(b.messages) > max_messages>>,
      <<"invalid_messages", \E i \in DOMAIN b.messages : ~ b.messages[i].well_formed>>,
      <<"prompt_too_large", b.messages # << >> /\ prompt_bytes(b.messages) > max_prompt_bytes>>,
      <<"invalid_max_tokens", b.max_tokens <= 0>>,
      <<"max_output_tokens_exceeded", b.max_tokens > max_output_tokens>>>>

\* validate_input: the reason of the first check that applies.
validate_input(b) ==
    LET failed == {i \in DOMAIN Checks(b) : Checks(b)[i][2]}
    IN  IF failed = {} THEN "none" ELSE Checks(b)[Min(failed)][1]

-----------------------------------------------------------------------------
(* The bucket.                                                               *)

CeilDiv(a, b) == (a + b - 1) \div b
AtMost(a, b) == IF a < b THEN a ELSE b
AtLeastOf(a, b) == IF a > b THEN a ELSE b

\* Mutant of Refilled: the time read is believed although the bucket has seen a later one.
RefilledBack(k, read) ==
    LET b == bucket[k]
    IN  [available_units |-> AtMost(b.available_units
                + AtLeastOf(read - b.last_elapsed, 0) * rate_requests_per_minute,
                rate_burst * minute),
         last_elapsed |-> read]

\* The bucket of slot k brought up to the time a visit has read, or to the
\* later time that another visit has brought it to.
Refilled(k, read) ==
    LET b == bucket[k]
        at == AtLeastOf(read, b.last_elapsed)
    IN  [available_units |-> AtMost(b.available_units
                + (at - b.last_elapsed) * rate_requests_per_minute,
                rate_burst * minute),
         last_elapsed |-> at]

\* Mutant of retry_seconds: whole seconds are cut off.
retry_early(units) ==
    AtLeastOf(1, ((minute - units) \div rate_requests_per_minute) \div second)

\* What a refusal puts in Retry-After, clamped to a minute.
retry_seconds(units) ==
    AtMost(minute \div second,
           AtLeastOf(1, CeilDiv(CeilDiv(minute - units, rate_requests_per_minute), second)))

-----------------------------------------------------------------------------
(* The middleware.                                                           *)

\* public_edge_rejection.
Rejected(v, reason) ==
    /\ visit' = [visit EXCEPT ![v] = [phase |-> "rejected", reason |-> reason]]
    /\ rejections' = [rejections EXCEPT ![reason] = @ + 1]

\* PublicApiAuthenticator::authorizes: one header with a configured key.
authorizes(header) == header \in ApiKey

\* A request with a configured key has the key's slot.
Arrives(v, header) ==
    /\ visit[v].phase = "new"
    /\ IF authorizes(header)
       THEN visit' = [visit EXCEPT ![v] = [phase |-> "body", slot |-> header]] /\ UNCHANGED rejections
       ELSE Rejected(v, "authentication")
    /\ UNCHANGED <<elapsed, bucket, inside, grants, promise>>

\* The body has been read, or is too large; what passes the input policy goes
\* on to its bucket with the time it reads now.
BodyArrives(v, b) ==
    /\ visit[v].phase = "body"
    /\ IF ~ b.fits THEN Rejected(v, "body_too_large")
       ELSE IF validate_input(b) # "none" THEN Rejected(v, validate_input(b))
       ELSE /\ visit' = [visit EXCEPT ![v] = [phase |-> "timed", slot |-> visit[v].slot,
                                              read |-> elapsed, input |-> b]]
            /\ UNCHANGED rejections
    /\ UNCHANGED <<elapsed, bucket, inside, grants, promise>>

\* The client goes while its body is awaited: nothing is counted.
GoesBeforeBody(v) ==
    /\ visit[v].phase = "body"
    /\ visit' = [visit EXCEPT ![v] = [phase |-> "gone"]]
    /\ UNCHANGED <<elapsed, bucket, rejections, inside, grants, promise>>

\* try_consume, under the bucket's lock.
try_consume(v) ==
    LET k == visit[v].slot
        b == Refilled(k, visit[v].read)
    IN  /\ visit[v].phase = "timed"
        /\ IF b.available_units >= minute
           THEN /\ bucket' = [bucket EXCEPT ![k] = [b EXCEPT !.available_units = @ - minute]]
                /\ visit' = [visit EXCEPT ![v] = [phase |-> "paid", input |-> visit[v].input]]
                /\ grants' = [grants EXCEPT ![k] = Append(@, b.last_elapsed)]
                /\ promise' = [promise EXCEPT ![k] = {}]
                /\ UNCHANGED rejections
           ELSE /\ bucket' = [bucket EXCEPT ![k] = b]
                /\ Rejected(v, "rate_limited")
                /\ promise' = [promise EXCEPT ![k] = @ \cup
                        {b.last_elapsed + second * retry_seconds(b.available_units)}]
                /\ UNCHANGED grants
        /\ UNCHANGED <<elapsed, inside>>

\* try_admit_request: what was taken from the bucket is not given back.
try_admit_request(v) ==
    /\ visit[v].phase = "paid"
    /\ IF inside < capacity
       THEN /\ inside' = inside + 1
            /\ visit' = [visit EXCEPT ![v].phase = "inside"]
            /\ UNCHANGED rejections
       ELSE Rejected(v, "admission_full") /\ UNCHANGED inside
    /\ UNCHANGED <<elapsed, bucket, grants, promise>>

\* The request is over, and its permit dropped.
Leaves(v) ==
    /\ visit[v].phase = "inside"
    /\ visit' = [visit EXCEPT ![v].phase = "over"]
    /\ inside' = inside - 1
    /\ UNCHANGED <<elapsed, bucket, rejections, grants, promise>>

EdgeTick ==
    /\ elapsed < MaxElapsed
    /\ elapsed' = elapsed + 1
    /\ UNCHANGED <<visit, bucket, rejections, inside, grants, promise>>

EdgeNext ==
    \/ \E v \in Visit : \/ \E h \in Header : Arrives(v, h)
                        \/ \E b \in Input : BodyArrives(v, b)
                        \/ GoesBeforeBody(v) \/ try_consume(v) \/ try_admit_request(v) \/ Leaves(v)
    \/ EdgeTick

EdgeSpec == EdgeInit /\ [][EdgeNext]_edgeVars

-----------------------------------------------------------------------------
(* Properties.                                                               *)

\* Between any two grants of a credential lies the time that its rate asks for
\* beyond the burst, whatever order the visits take the lock in (TokenBucket).
RateIsKept ==
    \A k \in ApiKey : \A i, j \in DOMAIN grants[k] : i <= j =>
        (j - i + 1) * minute
            <= rate_burst * minute + (grants[k][j] - grants[k][i]) * rate_requests_per_minute

\* A refused client that waits as long as Retry-After says finds a token, if
\* nobody else has taken one (try_consume, insert_retry_after).
RetryAfterIsEnough ==
    \A k \in ApiKey : \A t \in promise[k] : Refilled(k, t).available_units >= minute

\* What gets in keeps every limit of the policy (hosted_public_edge_middleware,
\* validate_input).
OnlySoundRequestsEnter ==
    \A v \in Visit : visit[v].phase \in {"inside", "over"} =>
        LET b == visit[v].input
        IN  /\ b.fits /\ b.json /\ Len(b.messages) \in 1..max_messages
            /\ \A i \in DOMAIN b.messages : b.messages[i].well_formed
            /\ b.max_tokens \in 1..max_output_tokens

\* The bound on a prompt is not one on each message alone: already two of them
\* together keep it (prompt_bytes).
PromptsAreBounded ==
    \A v \in Visit : visit[v].phase \in {"inside", "over"} =>
        LET messages == visit[v].input.messages
        IN  \A i, j \in DOMAIN messages :
                i # j => messages[i].bytes + messages[j].bytes <= max_prompt_bytes

RejectedFor(reason) == {v \in Visit : visit[v].phase = "rejected" /\ visit[v].reason = reason}
Insiders == {v \in Visit : visit[v].phase = "inside"}

\* Each rejection is counted once, under its reason, and a permit is held by each
\* request that is inside and by no other (public_edge_rejection, try_admit_request).
EveryVisitCounts ==
    /\ \A r \in Reason : rejections[r] = Cardinality(RejectedFor(r))
    /\ inside = Cardinality(Insiders) /\ inside <= capacity

\* The public edge does what it says.
EdgeHolds ==
    /\ RateIsKept /\ RetryAfterIsEnough /\ OnlySoundRequestsEnter /\ PromptsAreBounded
    /\ EveryVisitCounts
=============================================================================
