\* Each of the three watchers, whose file changes twice and of whose steps one
\* fails; two requests with their copies at a replay cache of one entry; one
\* expected receiver of policies and a stray one, with any two incidents.
SPECIFICATION MCSpec
CONSTANTS
    Nothing = Nothing
    Damaged = Damaged
    c1 = c1
    c2 = c2
    q1 = q1
    q2 = q2
    k1 = k1
    h1 = h1
    h2 = h2
    r1 = r1
    x1 = x1
    Credential = {c1, c2}
    MaxBundle = 2
    MaxPolicy = 2
    MaxStamp = 3
    MaxDate = 1
    MaxMishaps = 1
    Request = {q1, q2}
    Key = {k1}
    Handler = {h1, h2}
    max_age = 1
    max_skew = 1
    MAX_REPLAY_ENTRIES = 1
    MaxTime = 3
    MaxSetbacks = 1
    MaxReplaced = 2
    None = None
    Receiver = {r1, x1}
    Expected = {r1}
    policy_lifetime = 2
    maximum_future_skew = 0
    MaxGeneration = 2
    MaxClock = 3
    MaxIncidents = 2
CHECK_DEADLOCK FALSE
INVARIANTS
    SignerIsSound
    NoReplay
    ReceiverKeeps
    ReceiptsAreTrue
PROPERTIES
    WatcherCatchesUp
    PolicyIsEnforced
    Converges
