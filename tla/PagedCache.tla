------------------------------ MODULE PagedCache ------------------------------
(***************************************************************************)
(* The paged key/value cache of a worker and the decoder sessions that     *)
(* fill it: PagedKvPool and Session of worker/cpp/inferlab_runtime.cpp,    *)
(* driven by Session of worker/src/lib.rs.                                 *)
(*                                                                         *)
(* A session keeps its rows in pages of the pool, which it names in its    *)
(* block table.  A prompt whose rows are complete is published in the      *)
(* prefix directory; a later session whose prompt begins with it starts    *)
(* from its pages.  Pages are counted by reference, copied when a shared   *)
(* one is written, and the oldest prefixes go when pages run short.        *)
(*                                                                         *)
(* The pool's mutex makes each of its operations one step.  The scheduler  *)
(* steps one session at a time; handlers create and drop others meanwhile. *)
(* A row of keys and values depends on its token and position alone, so it *)
(* is that pair; sampling is a choice of any token.  The order of the      *)
(* directory stands for the last_used stamps, oldest first.                *)
(***************************************************************************)
EXTENDS Integers, Sequences, SequencesExt, FiniteSets

CONSTANTS
    Stream,           \* sessions
    Token,
    Prompt,           \* the tokens of the prompts
    page_tokens,
    page_count,
    prefix_capacity,
    context_length,
    MaxNew,           \* the largest max_tokens asked for
    MaxDraft          \* the largest speculative_tokens asked for

\* inferlab_model_configure_paged_cache; tokenize leaves at least the first
\* token and at most a full context.
ASSUME PagesType ==
    /\ context_length \in Nat \ {0} /\ page_count \in Nat \ {0}
    /\ page_tokens \in 1..context_length
    /\ prefix_capacity \in Nat
ASSUME PromptType ==
    Prompt \subseteq UNION {[1..n -> Token] : n \in 1..context_length}
ASSUME RequestBounds == MaxNew \in 1..context_length /\ MaxDraft \in 0..8

VARIABLES
    kv,       \* the pool: rows and references of each page, free list, prefixes
    stream    \* stream[s]: the session; a step that failed leaves its reason in phase

cacheVars == <<kv, stream>>

-----------------------------------------------------------------------------
PageId == 1..page_count
Owned(table) == {table[i] : i \in DOMAIN table}

NewPool == [rows |-> [p \in PageId |-> << >>],
            references |-> [p \in PageId |-> 0],
            free_pages |-> Reverse([p \in PageId |-> p]),
            prefixes |-> << >>]

\* retain_locked of every page of a table.
retain(q, table) ==
    [q EXCEPT !.references = [p \in PageId |-> @[p] + IF p \in Owned(table) THEN 1 ELSE 0]]

\* The free list once the pages of a table that are unused have been given back.
GivenBack(free, table, unused) ==
    LET after[i \in 0..Len(table)] ==
            IF i = 0 THEN free
            ELSE IF table[i] \in unused THEN Append(after[i - 1], table[i])
            ELSE after[i - 1]
    IN  after[Len(table)]

\* release_locked of every page of a table, which names no page twice.
release(q, table) ==
    LET unused == {p \in Owned(table) : q.references[p] = 1}
    IN  [q EXCEPT !.references = [p \in PageId |-> @[p] - IF p \in Owned(table) THEN 1 ELSE 0],
                  !.rows = [p \in PageId |-> IF p \in unused THEN << >> ELSE @[p]],
                  !.free_pages = GivenBack(@, table, unused)]

\* Mutant of evict_oldest: the entry goes and keeps its pages.
ForgetOldest(q) == [q EXCEPT !.prefixes = Tail(@)]

evict_oldest(q) ==
    [release(q, Head(q.prefixes).pages) EXCEPT !.prefixes = Tail(@)]

\* Prefixes are evicted until there is Enough, or none is left.
EvictUntil(q, Enough(_)) ==
    LET n == Len(q.prefixes)
        after[k \in 0..n] == IF k = 0 THEN q ELSE evict_oldest(after[k - 1])
        done == {k \in 0..n : k = n \/ Enough(after[k])}
    IN  after[CHOOSE k \in done : \A j \in done : k <= j]

HasFree(q) == q.free_pages # << >>

\* allocate_locked, once a page is free.
allocate(q) ==
    [q EXCEPT !.references[Last(q.free_pages)] = 1,
              !.rows[Last(q.free_pages)] = << >>,
              !.free_pages = Front(@)]

-----------------------------------------------------------------------------
NoStream == [phase |-> "none", prompt |-> << >>, context |-> << >>, block_table |-> << >>,
             cached |-> 0, published |-> FALSE, drafts |-> 0, remaining |-> 0, buffer |-> 0]

Failed == {"exhausted", "inconsistent"}
Phases == {"none", "idle", "caching", "select"} \cup Failed

CacheInit ==
    /\ kv = NewPool
    /\ stream = [s \in Stream |-> NoStream]

\* acquire_longest_prefix: the entry of the directory to start from.
Matches(tokens) == {i \in DOMAIN kv.prefixes : IsPrefix(kv.prefixes[i].tokens, tokens)}
Longest(found) ==
    CHOOSE i \in found : \A j \in found : Len(kv.prefixes[j].tokens) <= Len(kv.prefixes[i].tokens)
Used(q, i) == [q EXCEPT !.prefixes = Append(RemoveAt(@, i), @[i])]

\* A handler creates a session: the constructor of Session takes the pages of
\* the longest prefix, and a whole prompt found there is not published again.
CreateStream(s) ==
    /\ stream[s].phase = "none"
    /\ \E prompt \in Prompt, remaining \in 1..MaxNew, drafts \in 0..MaxDraft :
       LET found == Matches(prompt)
           hit == kv.prefixes[Longest(found)]
           new == [NoStream EXCEPT !.phase = "idle", !.prompt = prompt, !.context = prompt,
                                   !.drafts = drafts, !.remaining = remaining]
       IN  IF found = {}
           THEN stream' = [stream EXCEPT ![s] = new] /\ UNCHANGED kv
           ELSE /\ stream' = [stream EXCEPT ![s] =
                      [new EXCEPT !.block_table = hit.pages, !.cached = Len(hit.tokens),
                                  !.published = hit.tokens = prompt]]
                /\ kv' = Used(retain(kv, hit.pages), Longest(found))

\* The session ends: it finished, its client left, or its step failed.
DropStream(s) ==
    /\ stream[s].phase \in {"idle"} \cup Failed
    /\ kv' = release(kv, stream[s].block_table)
    /\ stream' = [stream EXCEPT ![s] = NoStream]

\* Mutant of Extend: the rows stay cached when the context slides.
KeepRows(s, tokens, at) ==
    LET long == stream[s].context \o tokens
    IN  /\ stream' = [stream EXCEPT ![s] = [at EXCEPT !.context =
              IF Len(long) <= context_length THEN long ELSE RemoveAt(long, 2)]]
        /\ UNCHANGED kv

\* append_context, for all of `tokens': at most the last goes over the context,
\* which then loses its second token and every cached row.
Extend(s, tokens, at) ==
    LET long == stream[s].context \o tokens
        fits == Len(long) <= context_length
    IN  /\ kv' = IF fits THEN kv ELSE release(kv, stream[s].block_table)
        /\ stream' = [stream EXCEPT ![s] =
              IF fits THEN [at EXCEPT !.context = long]
              ELSE [at EXCEPT !.context = RemoveAt(long, 2), !.block_table = << >>,
                              !.cached = 0, !.published = TRUE]]

\* The scheduler is between two steps.
Between == \A s \in Stream : stream[s].phase \notin {"caching", "select"}

\* inferlab_session_next hands out a token planned before.
NextBuffered(s) ==
    /\ Between /\ stream[s].phase = "idle" /\ stream[s].buffer > 0
    /\ stream' = [stream EXCEPT ![s].buffer = @ - 1, ![s].remaining = @ - 1]
    /\ UNCHANGED kv

CanPlan(st) == st.drafts > 0 /\ st.remaining >= 2 /\ Len(st.context) < context_length

\* How many tokens are drafted.
DraftLimit(st) ==
    LET room == {st.drafts, st.remaining - 1, context_length - Len(st.context)}
    IN  CHOOSE n \in room : \A m \in room : n <= m

\* inferlab_session_next plans a speculative cycle: the drafts that verify, and
\* one token of the target, go to the context at once; the first is handed out.
\* No row is cached.
plan_speculative(s) ==
    LET st == stream[s]
    IN  /\ Between /\ st.phase = "idle" /\ st.buffer = 0 /\ CanPlan(st)
        /\ \E n \in 1..(DraftLimit(st) + 1) : \E tokens \in [1..n -> Token] :
              Extend(s, tokens, [st EXCEPT !.buffer = n - 1, !.remaining = @ - 1])

\* inferlab_session_next decodes one token from the cache.
BeginStep(s) ==
    /\ Between /\ stream[s].phase = "idle" /\ stream[s].buffer = 0
    /\ stream[s].remaining > 0 /\ ~CanPlan(stream[s])
    /\ stream' = [stream EXCEPT ![s].phase = "caching"]
    /\ UNCHANGED kv

Fail(s, why) == stream' = [stream EXCEPT ![s].phase = why]

\* The row goes to the tail page, which nobody shares.
writable(q, slot, tail) == slot # 0 /\ q.references[tail] = 1

\* What allocate_locked evicts until there is a page to write to.
FreePage(q, slot, tail) == EvictUntil(q, LAMBDA y : HasFree(y) \/ writable(y, slot, tail))

\* The next row of the session goes to the last page of its table.
Written(s, q, table) ==
    LET row == <<stream[s].context[stream[s].cached + 1], stream[s].cached>>
    IN  /\ kv' = [q EXCEPT !.rows[Last(table)] = Append(@, row)]
        /\ stream' = [stream EXCEPT ![s].block_table = table, ![s].cached = @ + 1]

\* PagedKvPool::append for the next row of ensure_cache.  A new page is taken
\* at the start of a page, and for a copy of a shared tail; when there is none
\* the evictions stay.
append(s) ==
    LET st == stream[s]
        slot == st.cached % page_tokens
        tail == Last(st.block_table)
        q == FreePage(kv, slot, tail)
        page == Last(q.free_pages)
        copy == SubSeq(kv.rows[tail], 1, slot)
    IN  /\ st.phase = "caching" /\ st.cached < Len(st.context)
        /\ \/ /\ slot # 0 /\ Len(kv.rows[tail]) # slot
              /\ Fail(s, "inconsistent") /\ UNCHANGED kv
           \/ /\ slot = 0 /\ HasFree(q)
              /\ Written(s, allocate(q), Append(st.block_table, page))
           \/ /\ slot # 0 /\ Len(kv.rows[tail]) = slot /\ writable(q, slot, tail)
              /\ Written(s, q, st.block_table)
           \/ /\ slot # 0 /\ Len(kv.rows[tail]) = slot /\ ~writable(q, slot, tail) /\ HasFree(q)
              /\ Written(s, [release(allocate(q), <<tail>>) EXCEPT !.rows[page] = copy],
                         Append(Front(st.block_table), page))
           \/ /\ slot # 0 => Len(kv.rows[tail]) = slot
              /\ ~writable(q, slot, tail) /\ ~HasFree(q)
              /\ Fail(s, "exhausted") /\ kv' = q

PromptPages(st) ==
    SubSeq(st.block_table, 1, (Len(st.prompt) + page_tokens - 1) \div page_tokens)

\* Mutant of publish_prefix: a full directory grows, and the pages of a replaced
\* entry are not given back.
LeakyPublish(q, st) ==
    [retain(q, PromptPages(st)) EXCEPT !.prefixes =
        Append(SelectSeq(@, LAMBDA e : e.tokens # st.prompt),
               [tokens |-> st.prompt, pages |-> PromptPages(st)])]

\* The oldest entries make room for a new one.
RoomForEntry(q) == EvictUntil(q, LAMBDA y : Len(y.prefixes) < prefix_capacity)

\* publish_prefix: an entry of the same tokens takes the new pages, and the
\* oldest entry makes room for a new one.
publish_prefix(q, st) ==
    LET pages == PromptPages(st)
        entry == [tokens |-> st.prompt, pages |-> pages]
        same == {i \in DOMAIN q.prefixes : q.prefixes[i].tokens = st.prompt}
        i == CHOOSE j \in same : TRUE
    IN  IF prefix_capacity = 0 THEN q
        ELSE IF same = {} THEN [retain(RoomForEntry(q), pages) EXCEPT !.prefixes = Append(@, entry)]
        ELSE [release(retain(q, pages), q.prefixes[i].pages) EXCEPT
                 !.prefixes = Append(RemoveAt(@, i), entry)]

\* The end of ensure_cache.
Publish(s) ==
    /\ stream[s].phase = "caching" /\ stream[s].cached = Len(stream[s].context)
    /\ kv' = IF stream[s].published THEN kv ELSE publish_prefix(kv, stream[s])
    /\ stream' = [stream EXCEPT ![s].phase = "select", ![s].published = TRUE]

\* materialize reads the rows, a token is selected, and the context takes it.
Select(s) ==
    /\ stream[s].phase = "select"
    /\ \E t \in Token :
          Extend(s, <<t>>, [stream[s] EXCEPT !.phase = "idle", !.remaining = @ - 1])

CacheNext ==
    \E s \in Stream :
        \/ CreateStream(s) \/ DropStream(s)
        \/ NextBuffered(s) \/ plan_speculative(s)
        \/ BeginStep(s) \/ append(s) \/ Publish(s) \/ Select(s)

CacheSpec == CacheInit /\ [][CacheNext]_cacheVars

-----------------------------------------------------------------------------
Live == {s \in Stream : stream[s].phase # "none"}

\* Types, and a block table of ceil(cached / page_tokens) pages
\* (RFC 0014, invariant 5), which materialize insists on.
CacheTypeOK ==
    /\ kv.rows \in [PageId -> Seq(Token \X (0..(context_length - 1)))]
    /\ \A p \in PageId : Len(kv.rows[p]) <= page_tokens
    /\ kv.references \in [PageId -> Nat]
    /\ IsInjective(kv.free_pages) /\ Owned(kv.free_pages) \subseteq PageId
    /\ Len(kv.prefixes) <= prefix_capacity
    /\ IsInjective([i \in DOMAIN kv.prefixes |-> kv.prefixes[i].tokens])
    /\ \A s \in Live :
        /\ stream[s].phase \in Phases
        /\ stream[s].cached <= Len(stream[s].context)
        /\ Len(stream[s].context) <= context_length
        /\ Len(stream[s].block_table) = (stream[s].cached + page_tokens - 1) \div page_tokens

\* A page has one reference for every block table and every directory entry
\* that names it, and is free exactly when there is none: no page is lost, and
\* none is handed out while somebody still reads it (RFC 0014, 1 to 4 and 7 to 10).
ReferencesExact ==
    \A p \in PageId :
        /\ kv.references[p] =
              Cardinality({s \in Stream : p \in Owned(stream[s].block_table)})
              + Cardinality({i \in DOMAIN kv.prefixes : p \in Owned(kv.prefixes[i].pages)})
        /\ p \in Owned(kv.free_pages) <=> kv.references[p] = 0
        /\ kv.references[p] = 0 => kv.rows[p] = << >>

Holds(table, tokens, n) ==
    \A i \in 1..n :
        LET page == kv.rows[table[((i - 1) \div page_tokens) + 1]]
            slot == ((i - 1) % page_tokens) + 1
        IN  slot <= Len(page) /\ page[slot] = <<tokens[i], i - 1>>

\* What materialize reads for a session are the rows of its own context, in
\* order, and what a prefix would give a new session are the rows of its tokens,
\* whoever shared, copied, evicted or wrote the pages (RFC 0014, 6, 11, 12, 17).
RowsAreOwn ==
    /\ \A s \in Live : Holds(stream[s].block_table, stream[s].context, stream[s].cached)
    /\ \A i \in DOMAIN kv.prefixes :
          Holds(kv.prefixes[i].pages, kv.prefixes[i].tokens, Len(kv.prefixes[i].tokens))

\* Pages are held as long as they are used and read by whom they belong to:
\* ReferencesExact and RowsAreOwn.
CacheHolds == CacheTypeOK /\ ReferencesExact /\ RowsAreOwn

\* append never finds a tail page with other rows than its session's: the
\* check in the code ("paged KV tail occupancy is inconsistent") never fires.
TailIsConsistent == \A s \in Stream : stream[s].phase # "inconsistent"
=============================================================================
