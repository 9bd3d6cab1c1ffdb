\* Two sessions, three pages of two rows, two prefixes.
SPECIFICATION CacheSpec
CONSTANTS
    s1 = s1
    s2 = s2
    Stream = {s1, s2}
    Token = {1, 2}
    Prompt <- Prompts
    page_tokens = 2
    page_count = 3
    prefix_capacity = 2
    context_length = 4
    MaxNew = 2
    MaxDraft = 1
INVARIANTS
    TailIsConsistent
