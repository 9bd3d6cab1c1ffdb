\* A circuit with three attempts at a time; every policy over three workers;
\* three requests at one worker with one slot, whose pool is replaced once;
\* three sessions for a batch of two and a channel of one; two sessions
\* of a cache with two pages of two rows and one prefix.
SPECIFICATION MCSpec
CONSTANTS
    a1 = a1
    a2 = a2
    a3 = a3
    q1 = q1
    q2 = q2
    q3 = q3
    w1 = w1
    r1 = r1
    r2 = r2
    r3 = r3
    s1 = s1
    s2 = s2
    Attempt = {a1, a2, a3}
    window_size = 3
    minimum_requests = 2
    failure_rate_percent = 60
    open_duration = 2
    MaxAttempts = 8
    Unknown = Unknown
    worker_count = 3
    weight <- Weights
    ewma_probe_interval = 2
    RingSize = 6
    virtual_nodes = 2
    MaxEstimate = 2
    MaxLeases = 1
    MaxRefused = 1
    Client = {q1, q2, q3}
    Target = {w1}
    worker_concurrency_limit = 1
    waiting_room = 1
    max_retries = 1
    retry_budget_percent = 50
    MaxPools = 2
    Session = {r1, r2, r3}
    NoSession = NoSession
    max_batch_size = 2
    queue_capacity = 1
    MaxTokens = 1
    Stream = {s1, s2}
    Token = {1, 2}
    Prompt <- Prompts
    page_tokens = 2
    page_count = 2
    prefix_capacity = 1
    context_length = 3
    MaxNew = 2
    MaxDraft = 1
CHECK_DEADLOCK FALSE
INVARIANTS
    CircuitIsSound
    ChoicesHold
    RequestsHold
    SchedulerHolds
    CacheHolds
PROPERTIES
    OpenKeepsOut
    EverythingEnds
