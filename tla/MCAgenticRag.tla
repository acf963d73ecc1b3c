----------------------------- MODULE MCAgenticRag -----------------------------
(* A small corpus and the kinds of question, for TLC. *)
EXTENDS AgenticRagProperties

CONSTANTS catalog, runbook, webhooks, declines, policy

MCAbout ==
  [chunk \in {catalog, runbook, webhooks, declines, policy} |->
    CASE chunk = catalog ->
           [doc_type |-> "error_codes", mentions |-> {"GATEWAY_TIMEOUT", "timeout"},
            primary |-> "GATEWAY_TIMEOUT", place |-> "error-codes"]
      [] chunk = runbook ->
           [doc_type |-> "runbook", mentions |-> {"runbook", "settlement"},
            primary |-> "none", place |-> "incident-runbook"]
      [] chunk = webhooks ->
           [doc_type |-> "webhook_docs", mentions |-> {"webhook", "WEBHOOK_TIMEOUT"},
            primary |-> "WEBHOOK_TIMEOUT", place |-> "webhooks"]
      [] chunk = declines ->
           [doc_type |-> "error_codes", mentions |-> {"INSUFFICIENT_FUNDS"},
            primary |-> "INSUFFICIENT_FUNDS", place |-> "declines"]
      [] chunk = policy ->
           [doc_type |-> "api_docs", mentions |-> {}, primary |-> "none", place |-> "policy"]]

Asks(codes, topics, glossary, limit, enough) ==
  [codes |-> codes, topics |-> topics, glossary |-> glossary,
   max_iterations |-> limit, min_kept |-> enough]

\* One code with its topic, two codes, a typed and an untyped topic, a topic
\* the corpus has no document of, a question without facets; one round, the
\* default three, and enough to run out of queries; run_agentic_rag may also
\* be asked for two chunks, or for none.
MCCalls ==
  {Asks({"GATEWAY_TIMEOUT"}, {"timeout"}, FALSE, 3, 1),
   Asks({"GATEWAY_TIMEOUT", "WEBHOOK_TIMEOUT"}, {"timeout"}, FALSE, 3, 1),
   Asks({"INSUFFICIENT_FUNDS", "GATEWAY_TIMEOUT"}, {"timeout"}, FALSE, 6, 1),
   Asks({}, {"settlement"}, TRUE, 6, 1),
   Asks({}, {"refund", "webhook"}, FALSE, 5, 1),
   Asks({}, {"dispute"}, FALSE, 6, 2),
   Asks({}, {}, FALSE, 3, 1),
   Asks({}, {}, FALSE, 0, 1),
   Asks({}, {}, FALSE, 3, 0),
   Asks({}, {}, TRUE, 5, 2)}

=============================================================================
