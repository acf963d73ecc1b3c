------------------------ MODULE MCInvestigationStore ------------------------
(* Small instances of InvestigationStore for TLC. *)
EXTENDS InvestigationStoreProperties, TLC

CONSTANTS w1, w2, w3, doc, metric

CasesOf(S1, S2, S3, Backends) ==
  {[backend |-> b, asks |-> w1 :> r1 @@ w2 :> r2 @@ w3 :> r3] :
     b \in Backends, r1 \in S1, r2 \in S2, r3 \in S3}

\* Two requests that share evidence, as runs or as a metrics request, and a
\* third that deletes either, or measures in between.
Mixed(Backends) ==
  CasesOf({Create({doc, metric})},
          {Create({doc, metric}), Metrics({metric})},
          {Delete(w1), Delete(w2), Metrics({metric})}, Backends)

\* Two runs that share one item, and delete_all among them.
Clearing ==
  CasesOf({Create({doc, metric})}, {Create({metric}), Delete(w1)}, {DeleteAll},
          {"postgresql"})

AllCases == Mixed({"sqlite", "postgresql"}) \cup Clearing

=============================================================================
