\* Two calls of a worker, three visits of the public edge, two exchanges, two
\* scrapers, three Raft calls over a link and two concurrent writes.
SPECIFICATION MCSpec
CONSTANTS
    c1 = c1
    c2 = c2
    yes = yes
    no = no
    high = high
    JSON_START = JSON_START
    JSON_SEPARATOR = JSON_SEPARATOR
    JSON_END = JSON_END
    EOS_TOKEN = EOS_TOKEN
    Absent = Absent
    Text = Text
    Call = {c1, c2}
    Vocabulary = {yes, no, high, JSON_START, JSON_SEPARATOR, JSON_END, EOS_TOKEN}
    ChatRequest <- ChatRequests
    max_context = 7
    draft_loaded = TRUE
    v1 = v1
    v2 = v2
    v3 = v3
    k1 = k1
    NoKey = NoKey
    Visit = {v1, v2, v3}
    ApiKey = {k1}
    Header = {k1, NoKey}
    Input <- Inputs
    max_messages = 2
    max_prompt_bytes = 2
    max_output_tokens = 1
    rate_requests_per_minute = 2
    rate_burst = 1
    second = 2
    minute = 6
    capacity = 1
    MaxElapsed = 4
    x1 = x1
    x2 = x2
    Exchange = {x1, x2}
    Endpoint <- Endpoints
    s1 = s1
    s2 = s2
    Scraper = {s1, s2}
    States = 2
    MaxCount = 1
    MaxScrapes = 2
    p1 = p1
    p2 = p2
    p3 = p3
    RaftCall = {p1, p2, p3}
    MaxEvents = 5
    MaxFailedWrites = 2
    h1 = h1
    h2 = h2
    alice = alice
    mallory = mallory
    WriteHandler = {h1, h2}
    Writer = {alice, mallory}
    trusted_writers = {alice, mallory}
    revoked_writers = {mallory}
    Bodies = {"good", "bad"}
    invalid_bodies = {"bad"}
    Signed <- Intents
    max_age = 1
    max_future_skew = 0
    MaxWriteClock = 2
    MaxEntries = 3
    MaxRefusals = 2
    FieldText <- ShortText
    FieldNumber = {0, 1, 2, 3}
CHECK_DEADLOCK FALSE
INVARIANTS
    EdgeHolds
    WorkerHolds
    MetricsHold
    JournalExplains
    WritesHold
    PayloadsDistinct
PROPERTIES
    CallsEnd
