------------------------------ MODULE Metrics ------------------------------
(***************************************************************************)
(* What an operator reads of a service: the counts it keeps (Completions,  *)
(* for the gateway) and the documents its metrics listener serves          *)
(* (Scrapes).  The two share no state.                                     *)
(***************************************************************************)
EXTENDS Completions, Scrapes

\* What the services report is what happened: every exchange is counted as it
\* ended, and a document shows one snapshot (CompletionsAreCounted of
\* gateway/src/metrics.rs and observability/src/http.rs, ScrapesHold of
\* MetricsRegistry::render).
MetricsHold == CompletionsAreCounted /\ ScrapesHold
============================================================================
