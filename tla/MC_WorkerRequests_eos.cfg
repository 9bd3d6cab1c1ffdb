\* One structured request whose answer may be the text of the end token.
SPECIFICATION WorkerSpec
CONSTANTS
    c1 = c1
    c2 = c2
    yes = yes
    no = no
    high = high
    JSON_START = JSON_START
    JSON_SEPARATOR = JSON_SEPARATOR
    JSON_END = JSON_END
    EOS_TOKEN = EOS_TOKEN
    Absent = Absent
    Text = Text
    Call = {c1}
    Vocabulary = {yes, no, high, JSON_START, JSON_SEPARATOR, JSON_END, EOS_TOKEN}
    ChatRequest <- EndingChoice
    max_context = 7
    draft_loaded = TRUE
CHECK_DEADLOCK FALSE
INVARIANT SuccessIsAccepted
