--------------------------- MODULE IdentityProofs ---------------------------
(***************************************************************************)
(* Proofs about ServiceRequests, for every set of requests, keys and       *)
(* handlers, every capacity of the replay cache and all bounds: no request *)
(* is accepted twice while the clock is not set back and no handler waits  *)
(* longer than the skew, and what is accepted is accepted under the policy *)
(* in force, which had not expired when the handler looked.                *)
(* Proofs about WatchedBundles, for every set of bundles and policies: a   *)
(* control node's policy trusts the key it signs with, and a TLS identity  *)
(* that is reported is the one that runs.                                  *)
(***************************************************************************)
EXTENDS WatchedBundles, ServiceRequests, FiniteSetTheorems, TLAPS

-----------------------------------------------------------------------------
(* The invariant.                                                            *)

Handling == [phase : {"arrived", "checked"}, now : Time, request : Request, heard : Time]

\* Types; what is handled was sent, and the largest time seen is known.
HandlersInv ==
    /\ node_clock \in Time /\ max_observed \in Time /\ witnessed \in Time
    /\ setbacks \in 0..MaxSetbacks
    /\ trust_mode \in Trust
    /\ sent \in [Request -> Signed \cup {Unsent}]
    /\ handler \in [Handler -> Handling \cup {Free}]
    /\ \A h \in Handler : handler[h] \in Handling => sent[handler[h].request] # Unsent
    /\ disturbed \in BOOLEAN
    /\ witnessed <= max_observed

\* A handler that holds the policy's lock has found its request good under it.
CheckedInv ==
    \A h \in Handler : handler[h].phase = "checked" =>
        /\ verify(handler[h].request)
        /\ is_fresh(handler[h].request, handler[h].now)
        /\ handler[h].heard < trust_mode.expires_at

CacheInv ==
    /\ replay_cache \subseteq [request : Request, expiry : Nat]
    /\ IsFiniteSet(replay_cache)
    /\ Cardinality(replay_cache) <= MAX_REPLAY_ENTRIES

\* A request that was accepted is in the cache or too old to be accepted again.
Remembered(r) ==
    /\ sent[r] # Unsent
    /\ \/ node_clock > expires_at(r)
       \/ [request |-> r, expiry |-> expires_at(r)] \in replay_cache

OnceInv ==
    /\ accepted \in [Request -> Nat]
    /\ ~disturbed =>
          /\ \A h \in Handler : handler[h].now <= node_clock
          /\ \A r \in Request : /\ accepted[r] <= 1
                                /\ accepted[r] = 1 => Remembered(r)

RequestsInv == HandlersInv /\ CheckedInv /\ CacheInv /\ OnceInv

-----------------------------------------------------------------------------
LEMMA SignedIsSent == \A s \in Signed : s # Unsent /\ s.issued_at \in Nat
BY RequestBounds DEF Signed, Unsent, Time

LEMMA FreeIsFree == Free \notin Handling /\ Free.now = 0 /\ Free.phase = "free"
BY DEF Free, Handling

LEMMA LaterOf ==
    ASSUME NEW a \in Time, NEW b \in Time
    PROVE  Later(a, b) \in Time /\ a <= Later(a, b) /\ b <= Later(a, b)
BY RequestBounds DEF Later, Time

\* What is kept of the cache.
LEMMA RetainedFits ==
    ASSUME CacheInv, NEW now
    PROVE  /\ Retained(now) \subseteq replay_cache /\ IsFiniteSet(Retained(now))
           /\ Cardinality(Retained(now)) \in Nat
           /\ Cardinality(Retained(now)) <= MAX_REPLAY_ENTRIES
<1>1. Retained(now) \in SUBSET replay_cache
  BY DEF Retained
<1>2. /\ IsFiniteSet(Retained(now)) /\ Cardinality(Retained(now)) <= Cardinality(replay_cache)
  BY <1>1, FS_Subset DEF CacheInv
<1>3. Cardinality(Retained(now)) \in Nat /\ Cardinality(replay_cache) \in Nat
  BY <1>2, FS_CardinalityType DEF CacheInv
<1> QED BY <1>1, <1>2, <1>3, RequestBounds DEF CacheInv

LEMMA RequestsInitial ==
    ASSUME RequestsInit
    PROVE  RequestsInv
<1>1. HandlersInv
  <2>1. trust_mode \in Trust
    BY DEF RequestsInit
  <2>2. 0 \in Time /\ 0 \in 0..MaxSetbacks /\ 0 <= 0
    BY RequestBounds DEF Time
  <2>3. handler \in [Handler -> Handling \cup {Free}] /\ \A h \in Handler : handler[h] = Free
    BY DEF RequestsInit
  <2>4. sent \in [Request -> Signed \cup {Unsent}] /\ disturbed \in BOOLEAN
    BY DEF RequestsInit
  <2>5. \A h \in Handler : handler[h] \notin Handling
    BY <2>3, FreeIsFree
  <2> QED BY <2>1, <2>2, <2>3, <2>4, <2>5 DEF RequestsInit, HandlersInv
<1>2. CacheInv
  BY FS_EmptySet, RequestBounds DEF RequestsInit, CacheInv
<1>3. OnceInv
  BY FreeIsFree DEF RequestsInit, OnceInv
<1>4. CheckedInv
  BY FreeIsFree DEF RequestsInit, CheckedInv
<1> QED BY <1>1, <1>2, <1>3, <1>4 DEF RequestsInv

LEMMA SignKeeps ==
    ASSUME RequestsInv, NEW r \in Request, Sign(r)
    PROVE  RequestsInv'
<1> USE DEF RequestsInv
<1>1. PICK s \in Signed : sent' = [sent EXCEPT ![r] = s]
  BY DEF Sign
<1>2. /\ sent[r] = Unsent
      /\ UNCHANGED <<node_clock, setbacks, max_observed, trust_mode, handler, replay_cache,
                     accepted, disturbed, witnessed>>
  BY DEF Sign
<1>3. \A q \in Request : sent[q] # Unsent => q # r /\ sent'[q] = sent[q]
  BY <1>1, <1>2 DEF HandlersInv
<1>4. HandlersInv'
  <2>1. sent' \in [Request -> Signed \cup {Unsent}]
    BY <1>1 DEF HandlersInv
  <2>2. ASSUME NEW h \in Handler, handler'[h] \in Handling
        PROVE  sent'[handler'[h].request] # Unsent
    <3>1. handler[h].request \in Request /\ sent[handler[h].request] # Unsent
      BY <1>2, <2>2 DEF HandlersInv, Handling
    <3> QED BY <1>2, <1>3, <3>1
  <2> QED BY <1>2, <2>1, <2>2 DEF HandlersInv
<1>5. CacheInv'
  BY <1>2 DEF CacheInv
<1>6. OnceInv'
  <2>1. ASSUME NEW q \in Request, Remembered(q) PROVE Remembered(q)'
    BY <1>2, <1>3, <2>1 DEF Remembered, expires_at
  <2> QED BY <1>2, <2>1 DEF OnceInv
<1>7. CheckedInv'
  <2>1. SUFFICES ASSUME NEW h \in Handler, handler[h].phase = "checked"
                 PROVE  /\ verify(handler[h].request)'
                        /\ is_fresh(handler[h].request, handler[h].now)'
                        /\ handler[h].heard < trust_mode.expires_at
    BY <1>2 DEF CheckedInv
  <2>2. handler[h] \in Handling
    BY <2>1, FreeIsFree DEF HandlersInv
  <2>3. handler[h].request \in Request /\ sent[handler[h].request] # Unsent
    BY <2>2 DEF HandlersInv, Handling
  <2>4. sent'[handler[h].request] = sent[handler[h].request]
    BY <1>3, <2>3
  <2> QED BY <1>2, <2>1, <2>4 DEF CheckedInv, verify, is_fresh
<1> QED BY <1>4, <1>5, <1>6, <1>7

LEMMA PreflightKeeps ==
    ASSUME RequestsInv, NEW h \in Handler, NEW r \in Request, preflight(h, r)
    PROVE  RequestsInv'
<1> USE DEF RequestsInv
<1> DEFINE job == [phase |-> "arrived", now |-> node_clock, request |-> r, heard |-> 0]
<1>1. /\ sent[r] # Unsent
      /\ max_observed' = Later(max_observed, node_clock)
      /\ witnessed' = Later(witnessed, node_clock)
      /\ handler' = handler \/ handler' = [handler EXCEPT ![h] = job]
      /\ UNCHANGED <<node_clock, setbacks, trust_mode, sent, replay_cache, accepted, disturbed>>
  BY DEF preflight
<1>2. /\ job \in Handling /\ job.now = node_clock /\ job.request = r
      /\ job.phase = "arrived"
  BY RequestBounds DEF Handling, HandlersInv, Time
<1> HIDE DEF job
<1>3. \A g \in Handler : handler'[g] = handler[g] \/ handler'[g] = job
  BY <1>1 DEF HandlersInv
<1>4. HandlersInv'
  <2>1. handler' \in [Handler -> Handling \cup {Free}]
    BY <1>1, <1>2 DEF HandlersInv
  <2>2. \A g \in Handler : handler'[g] \in Handling => sent'[handler'[g].request] # Unsent
    BY <1>1, <1>2, <1>3 DEF HandlersInv
  <2>3. /\ max_observed' \in Time /\ witnessed' \in Time /\ witnessed' <= max_observed'
    <3>1. /\ node_clock \in Time /\ max_observed \in Time /\ witnessed \in Time
          /\ witnessed <= max_observed
      BY DEF HandlersInv
    <3> QED BY <1>1, <3>1, RequestBounds DEF Later, Time
  <2> QED BY <1>1, <2>1, <2>2, <2>3 DEF HandlersInv
<1>5. CacheInv'
  BY <1>1 DEF CacheInv
<1>6. OnceInv'
  <2>1. ASSUME NEW q \in Request, Remembered(q) PROVE Remembered(q)'
    BY <1>1, <2>1 DEF Remembered, expires_at
  <2>2. node_clock <= node_clock
    BY DEF HandlersInv, Time
  <2>3. ~disturbed => \A g \in Handler : handler'[g].now <= node_clock'
    BY <1>1, <1>2, <1>3, <2>2 DEF OnceInv
  <2> QED BY <1>1, <2>1, <2>3 DEF OnceInv
<1>7. CheckedInv'
  BY <1>1, <1>2, <1>3 DEF CheckedInv, verify, is_fresh
<1> QED BY <1>4, <1>5, <1>6, <1>7

\* The handler at work, and what it handles.
LEMMA AtWork ==
    ASSUME HandlersInv, NEW h \in Handler, handler[h].phase \in {"arrived", "checked"}
    PROVE  /\ handler[h] \in Handling
           /\ handler[h].request \in Request /\ handler[h].now \in Time
           /\ sent[handler[h].request] \in Signed
<1>1. handler[h] \in Handling
  BY FreeIsFree DEF HandlersInv
<1>2. handler[h].request \in Request /\ handler[h].now \in Time
  BY <1>1 DEF Handling
<1> QED BY <1>1, <1>2 DEF HandlersInv

LEMMA CheckKeeps ==
    ASSUME RequestsInv, NEW h \in Handler, check_request(h)
    PROVE  RequestsInv'
<1> USE DEF RequestsInv
<1> DEFINE r == handler[h].request
           now == handler[h].now
           good == not_expired(now) /\ verify(r) /\ is_fresh(r, now)
           job == [handler[h] EXCEPT !.phase = "checked", !.heard = witnessed]
<1>1. /\ handler[h].phase = "arrived"
      /\ max_observed' = Later(max_observed, now)
      /\ handler' = [handler EXCEPT ![h] = IF good THEN job ELSE Free]
      /\ UNCHANGED <<node_clock, setbacks, trust_mode, sent, replay_cache, accepted, disturbed,
                     witnessed>>
  BY DEF check_request
<1>2. handler[h] \in Handling /\ r \in Request /\ now \in Time /\ sent[r] # Unsent
  BY <1>1, AtWork, SignedIsSent
<1>3. /\ job \in Handling /\ job.now = now /\ job.request = r
      /\ job.phase = "checked" /\ job.heard = witnessed
  BY <1>2 DEF Handling, HandlersInv
<1>4. good => witnessed < trust_mode.expires_at
  <2>1. max_observed \in Nat /\ witnessed \in Nat /\ witnessed <= max_observed /\ now \in Nat
    BY <1>2 DEF HandlersInv, Time
  <2>2. trust_mode.expires_at \in Nat
    BY RequestBounds DEF HandlersInv, Trust
  <2> QED BY <2>1, <2>2 DEF not_expired, policy_expired, Later
<1>5. \A g \in Handler : handler'[g] = IF g = h THEN (IF good THEN job ELSE Free) ELSE handler[g]
  BY <1>1 DEF HandlersInv
<1>6. CheckedInv'
  <2>1. SUFFICES ASSUME NEW g \in Handler, handler'[g].phase = "checked"
                 PROVE  /\ verify(handler'[g].request)
                        /\ is_fresh(handler'[g].request, handler'[g].now)
                        /\ handler'[g].heard < trust_mode.expires_at
    BY <1>1 DEF CheckedInv, verify, is_fresh
  <2>2. CASE g = h
    <3>1. good /\ handler'[g] = job
      BY <1>5, <2>1, <2>2, FreeIsFree
    <3> HIDE DEF job
    <3> QED BY <1>3, <1>4, <3>1
  <2>3. CASE g # h
    BY <1>5, <2>1, <2>3 DEF CheckedInv
  <2> QED BY <2>2, <2>3
<1> HIDE DEF job, good
<1>7. \A g \in Handler :
        /\ handler'[g] \in Handling \cup {Free}
        /\ handler'[g] \in Handling => sent[handler'[g].request] # Unsent
        /\ handler'[g].now \in {handler[g].now, 0}
  <2>1. SUFFICES ASSUME NEW g \in Handler
                 PROVE  /\ handler'[g] \in Handling \cup {Free}
                        /\ handler'[g] \in Handling => sent[handler'[g].request] # Unsent
                        /\ handler'[g].now \in {handler[g].now, 0}
    OBVIOUS
  <2>2. CASE handler'[g] = Free
    BY <2>2, FreeIsFree
  <2>3. CASE g = h /\ handler'[g] = job
    BY <1>2, <1>3, <2>3
  <2>4. CASE handler'[g] = handler[g]
    BY <2>4 DEF HandlersInv
  <2> QED BY <1>5, <2>2, <2>3, <2>4
<1>8. HandlersInv'
  <2>1. handler' \in [Handler -> Handling \cup {Free}]
    <3>1. (IF good THEN job ELSE Free) \in Handling \cup {Free}
      BY <1>3
    <3> QED BY <1>1, <3>1 DEF HandlersInv
  <2>2. max_observed' \in Time /\ witnessed' <= max_observed'
    BY <1>1, <1>2, RequestBounds DEF HandlersInv, Later, Time
  <2> QED BY <1>1, <1>7, <2>1, <2>2 DEF HandlersInv
<1>9. CacheInv'
  BY <1>1 DEF CacheInv
<1>10. OnceInv'
  <2>1. \A q \in Request : Remembered(q)' = Remembered(q)
    BY <1>1 DEF Remembered, expires_at
  <2>2. ASSUME ~disturbed', NEW g \in Handler PROVE handler'[g].now <= node_clock'
    <3>1. handler[g].now <= node_clock
      BY <1>1, <2>2 DEF OnceInv
    <3>2. 0 <= node_clock
      BY DEF HandlersInv, Time
    <3>3. CASE handler'[g].now = handler[g].now
      BY <1>1, <3>1, <3>3
    <3>4. CASE handler'[g].now = 0
      BY <1>1, <3>2, <3>4
    <3>5. handler'[g].now = handler[g].now \/ handler'[g].now = 0
      BY <1>7
    <3> QED BY <3>3, <3>4, <3>5
  <2> QED BY <1>1, <2>1, <2>2 DEF OnceInv
<1> QED BY <1>6, <1>8, <1>9, <1>10

LEMMA ConsultKeeps ==
    ASSUME RequestsInv, NEW h \in Handler, consult_cache(h)
    PROVE  RequestsInv'
<1> USE DEF RequestsInv
<1>0. PICK r, now : r = handler[h].request /\ now = handler[h].now
  OBVIOUS
<1> DEFINE x == [request |-> r, expiry |-> expires_at(r)]
<1>1. /\ handler[h].phase = "checked"
      /\ disturbed' = (disturbed \/ node_clock > now + max_skew)
      /\ \/ ~Replayed(r, now) /\ Admit(r, now)
         \/ replay_cache' = Retained(now) /\ UNCHANGED accepted
      /\ handler' = [handler EXCEPT ![h] = Free]
      /\ UNCHANGED <<node_clock, setbacks, max_observed, trust_mode, sent, witnessed>>
  BY <1>0 DEF consult_cache
<1>2. handler[h] \in Handling /\ r \in Request /\ now \in Time /\ sent[r] \in Signed
  BY <1>0, <1>1, AtWork
<1>3. /\ sent[r].issued_at \in Nat /\ expires_at(r) \in Nat /\ x.request = r
      /\ x.expiry = expires_at(r)
  BY <1>2, SignedIsSent, RequestBounds DEF expires_at
<1>4. /\ node_clock \in Nat /\ now \in Nat /\ max_age \in Nat /\ max_skew \in Nat
  BY <1>2, RequestBounds DEF HandlersInv, Time
<1>5. HandlersInv' /\ CheckedInv'
  <2>1. handler' \in [Handler -> Handling \cup {Free}]
    BY <1>1 DEF HandlersInv
  <2>2. \A g \in Handler : handler'[g] \in Handling => sent'[handler'[g].request] # Unsent
    BY <1>1, FreeIsFree DEF HandlersInv
  <2>3. disturbed' \in BOOLEAN
    BY <1>1
  <2>4. HandlersInv'
    BY <1>1, <2>1, <2>2, <2>3 DEF HandlersInv
  <2>5. \A g \in Handler : handler'[g].phase = "checked" => handler'[g] = handler[g]
    BY <1>1, FreeIsFree DEF HandlersInv
  <2>6. CheckedInv'
    BY <1>1, <2>5 DEF CheckedInv, verify, is_fresh
  <2> QED BY <2>4, <2>6
<1>6. ASSUME ~disturbed'
      PROVE  /\ ~disturbed /\ now <= node_clock /\ node_clock <= now + max_skew
             /\ \A g \in Handler : handler'[g].now <= node_clock'
             /\ \A q \in Request : /\ accepted[q] <= 1
                                   /\ accepted[q] = 1 => Remembered(q)
  <2>1. ~disturbed /\ ~(node_clock > now + max_skew)
    BY <1>1, <1>6
  <2>2. \A g \in Handler : handler[g].now <= node_clock
    BY <2>1 DEF OnceInv
  <2>3. \A g \in Handler : handler'[g].now <= node_clock'
    BY <1>1, <1>4, <2>2, FreeIsFree DEF HandlersInv
  <2> QED BY <1>0, <1>4, <2>1, <2>2, <2>3 DEF OnceInv
\* What is dropped from the cache had expired by now.
<1>7. ASSUME NEW q \in Request, Remembered(q), now <= node_clock,
             Retained(now) \subseteq replay_cache'
      PROVE  Remembered(q)'
  <2> DEFINE e == [request |-> q, expiry |-> expires_at(q)]
  <2>1. sent'[q] = sent[q] /\ expires_at(q)' = expires_at(q) /\ node_clock' = node_clock
    BY <1>1 DEF expires_at
  <2>2. sent[q] \in Signed /\ expires_at(q) \in Nat
    <3>1. sent[q] \in Signed
      BY <1>7 DEF Remembered, HandlersInv
    <3> QED BY <3>1, SignedIsSent, RequestBounds DEF expires_at
  <2>3. CASE node_clock > expires_at(q)
    BY <1>7, <2>1, <2>3 DEF Remembered
  <2>4. CASE e \in replay_cache /\ ~(node_clock > expires_at(q))
    <3>1. e.expiry >= now
      BY <1>4, <1>7, <2>2, <2>4
    <3>2. e \in replay_cache'
      BY <1>7, <2>4, <3>1 DEF Retained
    <3> QED BY <1>7, <2>1, <3>2 DEF Remembered
  <2> QED BY <1>7, <2>3, <2>4 DEF Remembered
<1>8. CASE ~Replayed(r, now) /\ Admit(r, now)
  <2>1. /\ replay_cache' = Retained(now) \cup {x}
        /\ accepted' = [accepted EXCEPT ![r] = @ + 1]
        /\ Cardinality(Retained(now)) < MAX_REPLAY_ENTRIES
        /\ \A e \in Retained(now) : e.request # r
    <3>1. Cardinality(Retained(now)) \in Nat
      BY RetainedFits
    <3> QED BY <1>8, <3>1, RequestBounds DEF Admit, Replayed
  <2>2. now <= sent[r].issued_at + max_age
    BY <1>0, <1>1 DEF CheckedInv, is_fresh
  <2>3. CacheInv'
    <3>1. IsFiniteSet(Retained(now)) /\ Retained(now) \subseteq replay_cache
      BY RetainedFits
    <3>2. x \notin Retained(now)
      BY <1>3, <2>1
    <3>3. /\ IsFiniteSet(Retained(now) \cup {x})
          /\ Cardinality(Retained(now) \cup {x}) = Cardinality(Retained(now)) + 1
      BY <3>1, <3>2, FS_AddElement
    <3>4. Cardinality(Retained(now)) + 1 <= MAX_REPLAY_ENTRIES
      BY <2>1, RetainedFits, RequestBounds
    <3>5. x \in [request : Request, expiry : Nat]
      BY <1>2, <1>3
    <3> QED BY <2>1, <3>1, <3>3, <3>4, <3>5 DEF CacheInv
  <2>4. OnceInv'
    <3>1. accepted' \in [Request -> Nat]
      BY <1>2, <2>1 DEF OnceInv
    <3>2. ASSUME ~disturbed'
          PROVE  \A q \in Request : /\ accepted'[q] <= 1
                                    /\ accepted'[q] = 1 => Remembered(q)'
      <4>1. accepted[r] # 1
        <5>1. SUFFICES ASSUME accepted[r] = 1 PROVE FALSE
          OBVIOUS
        <5>2. Remembered(r)
          BY <1>2, <1>6, <3>2, <5>1
        <5>3. node_clock <= now + max_skew /\ now <= node_clock
          BY <1>6, <3>2
        <5>4. node_clock <= expires_at(r)
          BY <1>3, <1>4, <2>2, <5>3 DEF expires_at
        <5>5. x \in replay_cache
          BY <1>3, <1>4, <5>2, <5>4 DEF Remembered
        <5>6. x.expiry >= now
          BY <1>3, <1>4, <5>3, <5>4
        <5>7. x \in Retained(now)
          BY <5>5, <5>6 DEF Retained
        <5> QED BY <1>3, <2>1, <5>7
      <4>2. accepted[r] = 0 /\ accepted'[r] = 1
        BY <1>2, <1>6, <2>1, <3>2, <4>1 DEF OnceInv
      <4>3. Remembered(r)'
        <5>1. sent'[r] = sent[r] /\ expires_at(r)' = expires_at(r)
          BY <1>1 DEF expires_at
        <5>2. sent'[r] # Unsent
          BY <1>2, <5>1, SignedIsSent
        <5>3. x \in replay_cache'
          BY <2>1
        <5> QED BY <5>1, <5>2, <5>3 DEF Remembered
      <4>4. ASSUME NEW q \in Request, q # r
            PROVE  accepted'[q] <= 1 /\ (accepted'[q] = 1 => Remembered(q)')
        <5>1. accepted'[q] = accepted[q]
          BY <2>1, <4>4 DEF OnceInv
        <5>2. Retained(now) \subseteq replay_cache'
          BY <2>1
        <5>3. now <= node_clock /\ accepted[q] <= 1 /\ (accepted[q] = 1 => Remembered(q))
          BY <1>6, <3>2
        <5> QED BY <1>7, <5>1, <5>2, <5>3
      <4> QED BY <4>2, <4>3, <4>4
    <3> QED BY <1>6, <3>1, <3>2 DEF OnceInv
  <2> QED BY <1>5, <2>3, <2>4
<1>9. CASE replay_cache' = Retained(now) /\ UNCHANGED accepted
  <2>1. replay_cache' = Retained(now)
    BY <1>9
  <2>2. Retained(now) \subseteq replay_cache
    BY RetainedFits
  <2>3. CacheInv'
    BY <2>1, RetainedFits DEF CacheInv
  <2>4. OnceInv'
    <3>1. Retained(now) \subseteq replay_cache'
      BY <2>1, <2>2
    <3>2. ASSUME ~disturbed', NEW q \in Request
          PROVE  accepted'[q] <= 1 /\ (accepted'[q] = 1 => Remembered(q)')
      BY <1>6, <1>7, <1>9, <3>1, <3>2
    <3>3. accepted' \in [Request -> Nat]
      BY <1>9 DEF OnceInv
    <3> QED BY <1>6, <3>2, <3>3 DEF OnceInv
  <2> QED BY <1>5, <2>3, <2>4
<1> QED BY <1>1, <1>8, <1>9

LEMMA PolicyKeeps ==
    ASSUME RequestsInv, apply_policy
    PROVE  RequestsInv'
<1> USE DEF RequestsInv
<1>1. /\ Readers = {}
      /\ trust_mode' \in Trust
      /\ max_observed' = Later(max_observed, node_clock)
      /\ UNCHANGED <<node_clock, setbacks, sent, handler, replay_cache, accepted, disturbed,
                     witnessed>>
  BY DEF apply_policy
<1>2. max_observed' \in Time /\ witnessed' <= max_observed'
  BY <1>1, RequestBounds DEF HandlersInv, Later, Time
<1>3. HandlersInv'
  BY <1>1, <1>2 DEF HandlersInv
<1>4. CacheInv'
  BY <1>1 DEF CacheInv
<1>5. \A q \in Request : Remembered(q)' = Remembered(q)
  BY <1>1 DEF Remembered, expires_at
<1>6. OnceInv'
  BY <1>1, <1>5 DEF OnceInv
<1>7. CheckedInv'
  BY <1>1 DEF CheckedInv, Readers
<1> QED BY <1>3, <1>4, <1>6, <1>7

LEMMA ClockKeeps ==
    ASSUME RequestsInv, ClockAdvances \/ ClockSetBack
    PROVE  RequestsInv'
<1> USE DEF RequestsInv
<1>1. /\ UNCHANGED <<max_observed, trust_mode, sent, handler, replay_cache, accepted, witnessed>>
      /\ node_clock' \in Time /\ setbacks' \in 0..MaxSetbacks
      /\ disturbed' \in BOOLEAN
      /\ ~disturbed' => ~disturbed /\ node_clock' = node_clock + 1
  <2>1. node_clock \in Time /\ setbacks \in 0..MaxSetbacks /\ disturbed \in BOOLEAN
    BY DEF HandlersInv
  <2>2. CASE ClockAdvances
    BY <2>1, <2>2, RequestBounds DEF ClockAdvances, Time
  <2>3. CASE ClockSetBack
    BY <2>1, <2>3, RequestBounds DEF ClockSetBack, Time
  <2> QED BY <2>2, <2>3
<1>2. HandlersInv'
  BY <1>1 DEF HandlersInv
<1>3. CacheInv'
  BY <1>1 DEF CacheInv
<1>4. OnceInv'
  <2>1. ASSUME ~disturbed', NEW h \in Handler
        PROVE  handler'[h].now <= node_clock'
    <3>1. handler[h].now \in Nat
      BY FreeIsFree DEF HandlersInv, Handling, Time
    <3>2. node_clock \in Nat
      BY DEF HandlersInv, Time
    <3>3. handler[h].now <= node_clock
      BY <1>1, <2>1 DEF OnceInv
    <3> QED BY <1>1, <2>1, <3>1, <3>2, <3>3
  <2>2. ASSUME ~disturbed', NEW q \in Request, Remembered(q)
        PROVE  Remembered(q)'
    <3>1. sent[q] \in Signed
      BY <2>2 DEF Remembered, HandlersInv
    <3>2. expires_at(q) \in Nat /\ expires_at(q)' = expires_at(q)
      BY <1>1, <3>1, SignedIsSent, RequestBounds DEF expires_at
    <3>3. node_clock \in Nat /\ node_clock' = node_clock + 1
      BY <1>1, <2>2 DEF HandlersInv, Time
    <3>4. node_clock > expires_at(q) => node_clock' > expires_at(q)'
      BY <3>2, <3>3
    <3> QED BY <1>1, <2>2, <3>2, <3>4 DEF Remembered
  <2> QED BY <1>1, <2>1, <2>2 DEF OnceInv
<1>5. CheckedInv'
  BY <1>1 DEF CheckedInv, verify, is_fresh
<1> QED BY <1>2, <1>3, <1>4, <1>5

LEMMA RequestsStutter ==
    ASSUME RequestsInv, UNCHANGED requestVars
    PROVE  RequestsInv'
<1>1. \A q \in Request : Remembered(q)' = Remembered(q)
  BY DEF requestVars, Remembered, expires_at
<1>2. HandlersInv' /\ CacheInv'
  BY DEF requestVars, RequestsInv, HandlersInv, CacheInv
<1>3. OnceInv'
  BY <1>1 DEF requestVars, RequestsInv, OnceInv
<1>4. CheckedInv'
  BY DEF requestVars, RequestsInv, CheckedInv, verify, is_fresh
<1> QED BY <1>2, <1>3, <1>4 DEF RequestsInv

LEMMA RequestsKeep ==
    ASSUME RequestsInv, [RequestsNext]_requestVars
    PROVE  RequestsInv'
<1>1. CASE RequestStep
  BY <1>1, SignKeeps, PreflightKeeps, CheckKeeps, ConsultKeeps DEF RequestStep
<1>2. CASE apply_policy
  BY <1>2, PolicyKeeps
<1>3. CASE ClockAdvances \/ ClockSetBack
  BY <1>3, ClockKeeps
<1>4. CASE UNCHANGED requestVars
  BY <1>4, RequestsStutter
<1> QED BY <1>1, <1>2, <1>3, <1>4 DEF RequestsNext

-----------------------------------------------------------------------------
(* The theorems.                                                             *)

LEMMA RequestsInvImplies ==
    ASSUME RequestsInv
    PROVE  NoReplay
<1>1. \A h \in Handler : handler[h] = Free \/
          handler[h] \in [phase : {"arrived", "checked"}, now : Time,
                           request : Request, heard : Time]
  BY DEF RequestsInv, HandlersInv, Handling
<1>2. RequestsTypeOK
  BY <1>1 DEF RequestsInv, HandlersInv, CacheInv, OnceInv, RequestsTypeOK
<1>3. AcceptedOnce
  BY DEF RequestsInv, OnceInv, AcceptedOnce
<1> QED BY <1>2, <1>3 DEF NoReplay

\* However often a signed request is delivered, and however the handlers of
\* its copies interleave with each other, with new policies and with the
\* eviction of old entries, authenticate accepts it at most once, as long as
\* the clock is not set back and no handler stalls longer than the skew; and
\* the replay cache never holds more than MAX_REPLAY_ENTRIES.
THEOREM AtMostOnce == RequestsSpec => []NoReplay
<1>1. RequestsInit => RequestsInv
  BY RequestsInitial
<1>2. RequestsInv /\ [RequestsNext]_requestVars => RequestsInv'
  BY RequestsKeep
<1>3. RequestsInv => NoReplay
  BY RequestsInvImplies
<1> QED BY <1>1, <1>2, <1>3, PTL DEF RequestsSpec

\* Whatever handlers interleave between a handler's checks and its insertion
\* into the replay cache, it accepts only what the policy in force trusts, and
\* nothing once a time at which that policy has expired had been put before
\* the latch when it looked there, also after the clock was set back.
THEOREM PolicyHolds == RequestsSpec => PolicyIsEnforced
<1>1. RequestsInit => RequestsInv
  BY RequestsInitial
<1>2. RequestsInv /\ [RequestsNext]_requestVars => RequestsInv'
  BY RequestsKeep
<1>3. RequestsInv => CheckedInv
  BY DEF RequestsInv
<1>4. CheckedInv =>
        [\A h \in Handler :
            LET r == handler[h].request
            IN handler[h].phase = "checked" /\ accepted'[r] # accepted[r] /\ handler'[h] = Free
               => verify(r) /\ handler[h].heard < trust_mode.expires_at]_requestVars
  BY DEF CheckedInv
<1> QED BY <1>1, <1>2, <1>3, <1>4, PTL DEF RequestsSpec, PolicyIsEnforced

-----------------------------------------------------------------------------
(* The watched bundle.                                                       *)

WatcherType ==
    [phase : {"idle", "observed", "load", "activate"},
     seen : 0..MaxStamp \cup {Nothing},
     under : 1..MaxPolicy \cup {Nothing},
     loaded : Bundle \cup {Nothing},
     completed : 0..MaxStamp \cup {Nothing},
     rejected : ((0..MaxStamp) \X (1..MaxPolicy)) \cup {Nothing}]

\* What an iteration of the watcher holds on to.
WatcherInv ==
    /\ watcher \in WatcherType
    /\ watcher.phase \in {"load", "activate"} => watcher.under # Nothing
    /\ watcher.phase = "activate" => watcher.loaded \in BundlesOf(kind)

BundlesInv == SignerIsSound /\ WatcherInv

LEMMA BundlesInitial ==
    ASSUME Init
    PROVE  BundlesInv
<1> USE DEF Init
<1>1. PICK b \in BundlesOf(kind) :
        /\ b.ca = "pinned" /\ b.from = 0 /\ b.generation = 1
        /\ file = [stamp |-> 1, contents |-> b]
        /\ active = b
        /\ runtime = b
        /\ policy \in {p \in Policy : p.generation = 1 /\ b.credential \in p.trusted
                                      /\ (kind # "control" => p.trusted = Credential
                                                              /\ p.expires_at = MaxDate + 1)}
  OBVIOUS
<1>2. policy \in Policy /\ b.credential \in policy.trusted
  BY <1>1
<1>3. /\ watcher \in WatcherType /\ watcher.phase = "idle" /\ watcher.seen = Nothing
      /\ watcher.loaded = Nothing /\ watcher.completed = Nothing
      /\ watcher.rejected = Nothing
  BY DEF Idle, WatcherType
<1>4. file \in [stamp : 1..MaxStamp, contents : BundlesOf(kind) \cup {Damaged, Nothing}]
  <2>1. 1 \in 1..MaxStamp
    BY BoundsPositive
  <2> QED BY <1>1, <2>1
<1>5. clock \in 0..MaxDate /\ mishaps \in 0..MaxMishaps
  BY BoundsPositive
<1>6. TypeOK
  BY <1>1, <1>2, <1>3, <1>4, <1>5 DEF TypeOK
<1>7. SignerStaysTrusted /\ RuntimeIsReported
  BY <1>1, <1>2 DEF SignerStaysTrusted, RuntimeIsReported
<1>8. WatcherInv
  BY <1>3 DEF WatcherInv
<1> QED BY <1>6, <1>7, <1>8 DEF BundlesInv, SignerIsSound

\* A step of the watcher that leaves everything but its own state alone keeps
\* the invariant if it keeps the watcher's part.
WatcherKept ==
    /\ WatcherInv'
    /\ watcher'.phase = "idle" <=> watcher'.seen = Nothing
    /\ watcher'.phase = "activate" <=> watcher'.loaded # Nothing

LEMMA WatcherMoves ==
    ASSUME BundlesInv, WatcherKept, mishaps' \in 0..MaxMishaps,
           last_error' \in {Nothing, "unavailable", "invalid", "not_yet_valid",
                            "stale_generation", "generation_fork", "issuer_ca_mismatch",
                            "candidate_rejected", "runtime_configuration"},
           UNCHANGED <<kind, clock, file, active, runtime, policy, offered>>
    PROVE  BundlesInv'
<1>1. /\ watcher'.phase \in {"idle", "observed", "load", "activate"}
      /\ watcher'.seen \in 0..MaxStamp \cup {Nothing}
      /\ watcher'.completed \in 0..MaxStamp \cup {Nothing}
      /\ watcher'.rejected \in ((0..MaxStamp) \X (1..MaxPolicy)) \cup {Nothing}
  BY DEF WatcherKept, WatcherInv, WatcherType
<1>2. TypeOK'
  BY <1>1 DEF BundlesInv, SignerIsSound, TypeOK, WatcherKept, BundlesOf
<1>3. SignerStaysTrusted' /\ RuntimeIsReported'
  BY DEF BundlesInv, SignerIsSound, SignerStaysTrusted, RuntimeIsReported
<1> QED BY <1>2, <1>3 DEF BundlesInv, SignerIsSound, WatcherKept

LEMMA StampIs ==
    ASSUME BundlesInv
    PROVE  Stamp \in 0..MaxStamp
<1>1. file.stamp \in 1..MaxStamp
  BY DEF BundlesInv, SignerIsSound, TypeOK
<1> QED BY <1>1, BoundsPositive DEF Stamp

\* The parts of the invariant that the watcher's steps use.
LEMMA WatcherFacts ==
    ASSUME BundlesInv
    PROVE  /\ watcher \in WatcherType
           /\ watcher.seen = Nothing <=> watcher.phase = "idle"
           /\ watcher.loaded # Nothing <=> watcher.phase = "activate"
           /\ watcher.phase \in {"load", "activate"} => watcher.under \in 1..MaxPolicy
           /\ watcher.phase = "activate" => watcher.loaded \in BundlesOf(kind)
           /\ policy \in Policy /\ policy.generation \in 1..MaxPolicy
           /\ mishaps \in 0..MaxMishaps
           /\ last_error \in {Nothing, "unavailable", "invalid", "not_yet_valid",
                            "stale_generation", "generation_fork", "issuer_ca_mismatch",
                            "candidate_rejected", "runtime_configuration"}
<1>1. watcher \in WatcherType /\ watcher.under \in 1..MaxPolicy \cup {Nothing}
  BY DEF BundlesInv, WatcherInv, WatcherType
<1>2. policy \in Policy
  BY DEF BundlesInv, SignerIsSound, TypeOK
<1>3. policy.generation \in 1..MaxPolicy
  BY <1>2 DEF Policy
<1> QED BY <1>1, <1>2, <1>3 DEF BundlesInv, SignerIsSound, TypeOK, WatcherInv

LEMMA MishapIs ==
    ASSUME mishaps \in 0..MaxMishaps, mishaps < MaxMishaps
    PROVE  mishaps + 1 \in 0..MaxMishaps
BY BoundsPositive

LEMMA ObserveKeeps ==
    ASSUME BundlesInv, Observe
    PROVE  BundlesInv'
<1>1. PICK x \in 0..MaxStamp : watcher' = [watcher EXCEPT !.phase = "observed", !.seen = x]
  <2>1. 0 \in 0..MaxStamp
    BY BoundsPositive
  <2> QED BY <2>1, StampIs DEF Observe
<1>2. /\ watcher.phase = "idle" /\ mishaps' \in 0..MaxMishaps
      /\ UNCHANGED <<kind, clock, file, active, runtime, last_error, policy, offered>>
  BY WatcherFacts, MishapIs DEF Observe
<1>3. watcher \in WatcherType /\ watcher.loaded = Nothing
  BY <1>2, WatcherFacts
<1>4. /\ watcher' \in WatcherType /\ watcher'.phase = "observed" /\ watcher'.seen = x
      /\ watcher'.loaded = Nothing
  BY <1>1, <1>3 DEF WatcherType
<1>5. x # Nothing
  BY <1>1, NothingIsNone
<1>6. WatcherKept
  BY <1>4, <1>5 DEF WatcherKept, WatcherInv
<1> QED BY <1>2, <1>6, WatcherFacts, WatcherMoves

LEMMA PollKeeps ==
    ASSUME BundlesInv, poll
    PROVE  BundlesInv'
<1>1. /\ watcher.phase = "observed"
      /\ UNCHANGED <<kind, clock, file, active, runtime, last_error, policy, offered, mishaps>>
  BY DEF poll
<1>2. watcher \in WatcherType /\ watcher.loaded = Nothing /\ watcher.seen # Nothing
  BY <1>1, WatcherFacts
<1>3. /\ watcher.rejected \in ((0..MaxStamp) \X (1..MaxPolicy)) \cup {Nothing}
      /\ policy.generation \in 1..MaxPolicy /\ policy.generation # Nothing
  <2>1. policy.generation \in 1..MaxPolicy
    BY WatcherFacts
  <2>2. policy.generation # Nothing
    BY <2>1, NothingIsNone
  <2> QED BY <1>2, <2>1, <2>2 DEF WatcherType
<1>4. CASE watcher' = [watcher EXCEPT !.phase = "idle", !.seen = Nothing]
  <2>1. /\ watcher' \in WatcherType /\ watcher'.phase = "idle" /\ watcher'.seen = Nothing
        /\ watcher'.loaded = Nothing
    BY <1>2, <1>4 DEF WatcherType
  <2>2. WatcherKept
    BY <2>1 DEF WatcherKept, WatcherInv
  <2> QED BY <1>1, <2>2, WatcherFacts, WatcherMoves
<1>5. ASSUME NEW x \in {watcher.rejected, Nothing},
             watcher' = [watcher EXCEPT !.phase = "load", !.under = policy.generation,
                                        !.completed = Nothing, !.rejected = x]
      PROVE  BundlesInv'
  <2>1. /\ watcher' \in WatcherType /\ watcher'.phase = "load"
        /\ watcher'.seen = watcher.seen /\ watcher'.under = policy.generation
        /\ watcher'.loaded = Nothing
    BY <1>2, <1>3, <1>5 DEF WatcherType
  <2>2. WatcherKept
    BY <1>2, <1>3, <2>1 DEF WatcherKept, WatcherInv
  <2> QED BY <1>1, <2>2, WatcherFacts, WatcherMoves
<1>6. \/ watcher' = [watcher EXCEPT !.phase = "idle", !.seen = Nothing]
      \/ \E x \in {watcher.rejected, Nothing} :
            watcher' = [watcher EXCEPT !.phase = "load", !.under = policy.generation,
                                       !.completed = Nothing, !.rejected = x]
  BY <1>2 DEF poll, WatcherType
<1> QED BY <1>4, <1>5, <1>6

LEMMA EndedKeeps ==
    ASSUME BundlesInv, NEW done \in BOOLEAN,
           NEW x \in ((0..MaxStamp) \X (1..MaxPolicy)) \cup {Nothing},
           watcher' = Ended(done, x)
    PROVE  WatcherKept
<1>1. watcher \in WatcherType
  BY WatcherFacts
<1>2. /\ watcher.seen \in 0..MaxStamp \cup {Nothing}
      /\ watcher.completed \in 0..MaxStamp \cup {Nothing}
  BY <1>1 DEF WatcherType
<1>3. /\ watcher' \in WatcherType /\ watcher'.phase = "idle" /\ watcher'.seen = Nothing
      /\ watcher'.loaded = Nothing
  BY <1>2 DEF WatcherType, Ended, Idle
<1> QED BY <1>3 DEF WatcherKept, WatcherInv

LEMMA SourceKeeps ==
    ASSUME BundlesInv, Load \/ Refuse \/ ReadFails
    PROVE  BundlesInv'
<1>1. CASE Load
  <2>1. /\ watcher.phase = "load" /\ load(file.contents) = "loaded"
        /\ watcher' = [watcher EXCEPT !.phase = "activate", !.loaded = file.contents]
        /\ UNCHANGED <<kind, clock, file, active, runtime, last_error, policy, offered, mishaps>>
    BY <1>1 DEF Load
  <2>2. file.contents \in BundlesOf(kind) \cup {Damaged, Nothing}
    BY DEF BundlesInv, SignerIsSound, TypeOK
  <2>3. file.contents \in BundlesOf(kind)
    BY <2>1, <2>2 DEF load, read_bundle_file, decode
  <2>4. file.contents \in Bundle /\ file.contents # Nothing
    BY <2>3, NothingIsNone DEF BundlesOf
  <2>5. watcher \in WatcherType /\ watcher.seen # Nothing /\ watcher.under \in 1..MaxPolicy
    BY <2>1, WatcherFacts
  <2>6. watcher.under # Nothing
    BY <2>1 DEF BundlesInv, WatcherInv
  <2>7. /\ watcher' \in WatcherType /\ watcher'.phase = "activate"
        /\ watcher'.seen = watcher.seen /\ watcher'.under = watcher.under
        /\ watcher'.loaded = file.contents
    BY <2>1, <2>4, <2>5 DEF WatcherType
  <2>8. kind' = kind
    BY <2>1
  <2>9. WatcherInv'
    BY <2>3, <2>6, <2>7, <2>8 DEF WatcherInv, BundlesOf
  <2>10. WatcherKept
    BY <2>4, <2>5, <2>7, <2>9 DEF WatcherKept
  <2> QED BY <2>1, <2>10, WatcherFacts, WatcherMoves
<1>2. CASE Refuse \/ ReadFails
  <2>1. PICK error \in {"unavailable", "invalid", "not_yet_valid"} : SourceFails(error)
    BY <1>2 DEF Refuse, ReadFails, load
  <2>2. mishaps' \in 0..MaxMishaps
    BY <1>2, WatcherFacts, MishapIs DEF Refuse, ReadFails
  <2>3. /\ watcher' = Ended(~Retried(error), Nothing) /\ last_error' = error
        /\ UNCHANGED <<kind, clock, file, active, runtime, policy, offered>>
    BY <2>1 DEF SourceFails
  <2>4. WatcherKept
    BY <2>3, EndedKeeps DEF Retried
  <2> QED BY <2>2, <2>3, <2>4, WatcherMoves
<1> QED BY <1>1, <1>2

LEMMA ActivateKeeps ==
    ASSUME BundlesInv, activate_bundle \/ PublishFails
    PROVE  BundlesInv'
<1>1. PICK b : b = watcher.loaded
  OBVIOUS
<1>2. watcher.phase = "activate" /\ b \in BundlesOf(kind)
  BY <1>1, WatcherFacts DEF activate_bundle, PublishFails
<1>3. /\ watcher.seen \in 0..MaxStamp /\ watcher.under \in 1..MaxPolicy
  <2>1. watcher.seen # Nothing /\ watcher \in WatcherType /\ watcher.under \in 1..MaxPolicy
    BY <1>2, WatcherFacts
  <2> QED BY <2>1 DEF WatcherType
<1>4. CASE PublishFails
  <2>1. /\ watcher' = Ended(TRUE, Nothing) /\ last_error' = "runtime_configuration"
        /\ mishaps < MaxMishaps /\ mishaps' = mishaps + 1
        /\ UNCHANGED <<kind, clock, file, active, runtime, policy, offered>>
    BY <1>4 DEF PublishFails
  <2>2. WatcherKept
    BY <2>1, EndedKeeps
  <2>3. mishaps' \in 0..MaxMishaps
    BY <2>1, WatcherFacts, MishapIs
  <2> QED BY <2>1, <2>2, <2>3, WatcherMoves
<1>5. CASE Verdict(b) # "activated" /\ NotTaken(Verdict(b))
  <2>1. /\ last_error' = IF Verdict(b) = "unchanged" THEN Nothing ELSE Verdict(b)
        /\ watcher' = IF Verdict(b) = "candidate_rejected"
                      THEN Ended(FALSE, <<watcher.seen, watcher.under>>)
                      ELSE Ended(TRUE, Nothing)
        /\ UNCHANGED <<kind, clock, file, active, runtime, policy, offered, mishaps>>
    BY <1>5 DEF NotTaken
  <2>2. WatcherKept
    BY <1>3, <2>1, EndedKeeps
  <2>3. last_error' \in {Nothing, "unavailable", "invalid", "not_yet_valid",
                            "stale_generation", "generation_fork", "issuer_ca_mismatch",
                            "candidate_rejected", "runtime_configuration"}
    BY <1>5, <2>1 DEF Verdict
  <2> QED BY <2>1, <2>2, <2>3, WatcherFacts, WatcherMoves
<1>6. CASE Verdict(b) = "activated" /\ Taken(b)
  <2>1. /\ active' = b /\ runtime' = IF kind = "tls" THEN b ELSE runtime
        /\ last_error' = Nothing /\ watcher' = Ended(TRUE, Nothing)
        /\ UNCHANGED <<kind, clock, file, policy, offered, mishaps>>
    BY <1>6 DEF Taken
  <2>2. WatcherKept
    BY <2>1, EndedKeeps
  <2>3. kind = "control" => b.credential \in policy.trusted
    BY <1>6 DEF Verdict, Validator, service_signer_is_eligible
  <2>4. /\ watcher'.phase \in {"idle", "observed", "load", "activate"}
        /\ watcher'.seen \in 0..MaxStamp \cup {Nothing}
        /\ watcher'.completed \in 0..MaxStamp \cup {Nothing}
        /\ watcher'.rejected \in ((0..MaxStamp) \X (1..MaxPolicy)) \cup {Nothing}
    BY <2>2 DEF WatcherKept, WatcherInv, WatcherType
  <2>5. active' \in BundlesOf(kind)' /\ runtime' \in BundlesOf(kind)'
    BY <1>2, <2>1 DEF BundlesInv, SignerIsSound, TypeOK, BundlesOf
  <2>6. TypeOK'
    BY <2>1, <2>2, <2>4, <2>5 DEF BundlesInv, SignerIsSound, TypeOK, WatcherKept, BundlesOf
  <2>7. SignerStaysTrusted' /\ RuntimeIsReported'
    BY <2>1, <2>3 DEF BundlesInv, SignerIsSound, SignerStaysTrusted, RuntimeIsReported
  <2> QED BY <2>2, <2>6, <2>7 DEF BundlesInv, SignerIsSound, WatcherKept
<1> QED BY <1>1, <1>4, <1>5, <1>6 DEF activate_bundle

LEMMA PolicyMoves ==
    ASSUME BundlesInv, CheckPolicy \/ ActivatePolicy
    PROVE  BundlesInv'
<1> USE DEF BundlesInv, SignerIsSound
<1>1. UNCHANGED <<kind, clock, file, active, runtime, last_error, watcher, mishaps>>
  BY DEF CheckPolicy, ActivatePolicy
<1>2. /\ policy' \in Policy /\ offered' \in Policy \cup {Nothing}
      /\ policy' = policy \/ active.credential \in policy'.trusted
  BY DEF CheckPolicy, ActivatePolicy, validate_local_signing_credential, TypeOK
<1>3. TypeOK'
  BY <1>1, <1>2 DEF TypeOK, BundlesOf
<1>4. SignerStaysTrusted' /\ RuntimeIsReported'
  BY <1>1, <1>2 DEF SignerStaysTrusted, RuntimeIsReported
<1>5. WatcherInv'
  BY <1>1 DEF WatcherInv, BundlesOf
<1> QED BY <1>3, <1>4, <1>5

LEMMA EnvironmentMoves ==
    ASSUME BundlesInv, ChangeFile \/ Tick \/ UNCHANGED vars
    PROVE  BundlesInv'
<1> USE DEF BundlesInv, SignerIsSound
<1>1. UNCHANGED <<kind, active, runtime, last_error, watcher, policy, offered, mishaps>>
  BY DEF ChangeFile, Tick, vars
<1>2. file' \in [stamp : 1..MaxStamp, contents : BundlesOf(kind) \cup {Damaged, Nothing}]
  <2>1. file.stamp \in 1..MaxStamp
    BY DEF TypeOK
  <2>2. CASE ChangeFile
    <3>1. PICK c \in BundlesOf(kind) \cup {Damaged, Nothing} :
              file' = [stamp |-> file.stamp + 1, contents |-> c]
      BY <2>2 DEF ChangeFile
    <3>2. file.stamp + 1 \in 1..MaxStamp
      BY <2>1, <2>2, BoundsPositive DEF ChangeFile
    <3> QED BY <3>1, <3>2
  <2>3. CASE file' = file
    BY <2>3 DEF TypeOK
  <2> QED BY <2>2, <2>3 DEF Tick, vars
<1>3. clock' \in 0..MaxDate
  BY BoundsPositive DEF ChangeFile, Tick, vars, TypeOK
<1>4. TypeOK'
  BY <1>1, <1>2, <1>3 DEF TypeOK, BundlesOf
<1>5. SignerStaysTrusted' /\ RuntimeIsReported'
  BY <1>1 DEF SignerStaysTrusted, RuntimeIsReported
<1>6. WatcherInv'
  BY <1>1 DEF WatcherInv, BundlesOf
<1> QED BY <1>4, <1>5, <1>6

\* However handoffs of the signer, reloads of the policy, changes of the file
\* and failures interleave, a control node's active policy trusts the key that
\* it signs with, and a TLS identity that is reported is the one that runs.
THEOREM IdentityIsSound == Spec => []SignerIsSound
<1>1. Init => BundlesInv
  BY BundlesInitial
<1>2. BundlesInv /\ [Next]_vars => BundlesInv'
  <2> SUFFICES ASSUME BundlesInv, [Next]_vars
               PROVE  BundlesInv'
    OBVIOUS
  <2>1. CASE BundleWatcherStep
    BY <2>1, ObserveKeeps, PollKeeps, SourceKeeps, ActivateKeeps DEF BundleWatcherStep
  <2>2. CASE CheckPolicy \/ ActivatePolicy
    BY <2>2, PolicyMoves
  <2>3. CASE ChangeFile \/ Tick \/ UNCHANGED vars
    BY <2>3, EnvironmentMoves
  <2> QED BY <2>1, <2>2, <2>3 DEF Next
<1>3. BundlesInv => SignerIsSound
  BY DEF BundlesInv
<1> QED BY <1>1, <1>2, <1>3, PTL DEF Spec
=============================================================================
