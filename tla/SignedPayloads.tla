--------------------------- MODULE SignedPayloads ---------------------------
(* The canonical bytes that the signatures and fingerprints of the system are  *)
(* made over: control responses and control writes (control-auth), service     *)
(* requests, trust snapshots of both versions, trust receipts, and the         *)
(* renewal template and authority fingerprints (service-auth).                 *)
(*                                                                             *)
(* A byte string is a sequence of symbols.  A big-endian u32 length or count   *)
(* and a u64 number are one symbol each, drawn from the same alphabet as the   *)
(* characters of a string: nothing but its position tells a length from a      *)
(* character.  What is the same in every document of a kind (schemas,          *)
(* algorithm, the method and path of a control write) is its domain prefix,    *)
(* and SHA-256 is the identity: it adds no collision of interest.              *)
EXTENDS Naturals, Sequences, FiniteSets, SequencesExt, TLC

CONSTANTS
    FieldText,          \* field values: short sequences of symbols
    FieldNumber         \* values of numeric fields: symbols

ASSUME FieldTextIsSymbols == FieldText \subseteq Seq(FieldNumber) /\ FieldNumber \subseteq Nat

VARIABLE compared         \* the one or two kinds of documents that are compared

payloadVars == <<compared>>

Domains == [control_routing |-> <<100>>, control_write |-> <<101>>, service_request |-> <<102>>,
            trust_policy_v1 |-> <<103>>, trust_policy_v2 |-> <<104>>, trust_receipt |-> <<105>>,
            renewal_template |-> <<106>>, renewal_authority |-> <<107>>]

-----------------------------------------------------------------------------
\* Mutant of append_string: no length.
append_bare(value) == value

\* append_string, append_bytes: the length comes before the value.
append_string(value) == <<Len(value)>> \o value

\* append_count, then every item.
append_items(items) ==
    <<Len(items)>> \o FlattenSeq([i \in DOMAIN items |-> FlattenSeq(items[i])])

append_strings(values) == FlattenSeq([i \in DOMAIN values |-> append_string(values[i])])

append_workers(workers) ==
    append_items([i \in DOMAIN workers |->
        <<append_strings(<<workers[i].id, workers[i].base_url>>), <<workers[i].weight>>>>])

\* canonical_payload of control-auth: what a node signs of a configuration.
control_routing(d) ==
    Domains.control_routing \o append_strings(<<d.key, d.cluster>>) \o <<d.revision, d.term>>
        \o append_string(d.policy) \o append_workers(d.workers)

\* canonical_write_payload of control-auth: a writer's intent.
control_write(d) ==
    Domains.control_write \o append_strings(<<d.writer, d.cluster>>)
        \o <<d.expected_revision, d.issued_at>>
        \o append_strings(<<d.nonce, d.policy>>) \o append_workers(d.workers)

\* Mutant of service_request: the cluster is not signed.
service_request_anywhere(d) ==
    Domains.service_request \o append_strings(<<d.service, d.audience, d.method, d.path>>)
        \o <<d.issued_at>> \o append_strings(<<d.nonce, d.body>>)

\* canonical_payload of service-auth: a request of one service to another.
service_request(d) ==
    Domains.service_request
        \o append_strings(<<d.service, d.audience, d.method, d.path, d.cluster>>)
        \o <<d.issued_at>> \o append_strings(<<d.nonce, d.body>>)

\* The lists shared by a trust policy and a renewal template.
trust_lists(d) ==
    append_items([i \in DOMAIN d.trusted |-> <<append_strings(d.trusted[i])>>])
        \o append_items([i \in DOMAIN d.revoked_services |-> <<append_string(d.revoked_services[i])>>])
        \o append_items([i \in DOMAIN d.revoked |-> <<append_strings(d.revoked[i])>>])
        \o append_items([i \in DOMAIN d.gateways |-> <<append_string(d.gateways[i])>>])

\* canonical_payload of trust_snapshot.rs: only version 2 carries an expiry.
trust_policy_v1(d) ==
    Domains.trust_policy_v1 \o append_string(d.cluster) \o <<d.generation, d.issued_at>>
        \o trust_lists(d) \o append_string(d.key)

trust_policy_v2(d) ==
    Domains.trust_policy_v2 \o append_string(d.cluster)
        \o <<d.generation, d.issued_at, d.expires>>
        \o trust_lists(d) \o append_string(d.key)

\* Mutant of trust_receipt: the time of the application is not signed.
trust_receipt_undated(d) ==
    Domains.trust_receipt \o append_string(d.cluster) \o <<d.generation>>
        \o append_strings(<<d.key, d.snapshot_signature, d.receiver, d.receiver_credential>>)

\* canonical_receipt: which snapshot a credential of a receiver applied, and when.
trust_receipt(d) ==
    Domains.trust_receipt \o append_string(d.cluster) \o <<d.generation>>
        \o append_strings(<<d.key, d.snapshot_signature, d.receiver, d.receiver_credential>>)
        \o <<d.applied_at>>

\* canonical_semantics of a renewal template (its two schemas are checked, so
\* they are constants), and the fingerprint of the template together with the
\* root key that may sign it.
canonical_semantics(d) ==
    Domains.renewal_template \o append_string(d.cluster) \o trust_lists(d)

authority_fingerprint(d) ==
    Domains.renewal_authority \o append_string(canonical_semantics(d))
        \o append_strings(<<d.key, d.public_key>>)

encode(kind, d) ==
    CASE kind = "control_routing" -> control_routing(d)
      [] kind = "control_write" -> control_write(d)
      [] kind = "service_request" -> service_request(d)
      [] kind = "trust_policy_v1" -> trust_policy_v1(d)
      [] kind = "trust_policy_v2" -> trust_policy_v2(d)
      [] kind = "trust_receipt" -> trust_receipt(d)
      [] kind = "renewal_template" -> canonical_semantics(d)
      [] kind = "renewal_authority" -> authority_fingerprint(d)

-----------------------------------------------------------------------------
(* The documents.  Every signed field takes two values or more; those of a     *)
(* text differ in length, so that its neighbour could swallow the difference.  *)
(* An identifier is not empty, a body and a public key may be, and a           *)
(* generation, an issue time and an application time are positive.             *)
Id == FieldText \ {<<>>}
Positive == FieldNumber \ {0}

RoutingWorker == [id : Id, base_url : Id, weight : Positive]
Workers == { <<>> } \cup { <<w>> : w \in RoutingWorker } \cup { <<w, w>> : w \in RoutingWorker }

Credentials == Id \X Id \X FieldText
Lists == [trusted : { <<>> } \cup { <<c>> : c \in Credentials },
          revoked_services : { <<>> } \cup { <<s>> : s \in Id },
          revoked : { <<>> } \cup { <<c>> : c \in Id \X Id },
          gateways : { <<>> } \cup { <<s>> : s \in Id } \cup { <<s, s>> : s \in Id }]

\* What a trust policy or a renewal document has besides its lists.
HeadersOf(kind, number) ==
    CASE kind = "trust_policy_v1" ->
            [cluster : Id, generation : number, issued_at : number, key : Id]
      [] kind = "trust_policy_v2" ->
            {h \in [cluster : Id, generation : number, issued_at : number,
                    expires : Positive, key : Id] : h.issued_at < h.expires}
      [] kind = "renewal_template" -> [cluster : Id]
      [] kind = "renewal_authority" -> [cluster : Id, key : Id, public_key : Id]

DocumentsOf(kind) ==
    CASE kind = "control_routing" ->
            [key : Id, cluster : Id, revision : FieldNumber, term : FieldNumber, policy : Id,
             workers : Workers]
      [] kind = "control_write" ->
            [writer : Id, cluster : Id, expected_revision : FieldNumber, issued_at : FieldNumber,
             nonce : Id, policy : Id, workers : Workers]
      [] kind = "service_request" ->
            [service : Id, audience : Id, method : Id, path : Id, cluster : Id,
             issued_at : FieldNumber, nonce : Id, body : FieldText]
      [] kind = "trust_receipt" ->
            [cluster : Id, generation : Positive, key : Id, snapshot_signature : Id,
             receiver : Id, receiver_credential : Id, applied_at : Positive]
      [] OTHER ->
            {header @@ lists : header \in HeadersOf(kind, {1}), lists \in Lists}
                \cup {header @@ lists : header \in HeadersOf(kind, Positive),
                                      lists \in {l \in Lists : l.trusted = <<>> /\ l.revoked = <<>>}}

PayloadsInit == compared \in {kinds \in SUBSET DOMAIN Domains : Cardinality(kinds) \in 1..2}

-----------------------------------------------------------------------------
(* No two documents, of one kind or of two, have the same canonical bytes: a   *)
(* signature or a fingerprint made for one is never good for another, with one *)
(* signed field changed, text moved between neighbouring fields or lists, or   *)
(* one kind taken for another (the canonical_* encoders).                      *)
PayloadsDistinct ==
    LET documents == UNION {{kind} \X DocumentsOf(kind) : kind \in compared}
    IN  Cardinality({encode(d[1], d[2]) : d \in documents}) = Cardinality(documents)
=============================================================================
