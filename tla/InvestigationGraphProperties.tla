--------------------- MODULE InvestigationGraphProperties ---------------------
(***************************************************************************)
(* What module InvestigationGraph is checked against.                      *)
(***************************************************************************)
EXTENDS InvestigationGraph

Nodes == {"planner", "investigate", "tasks", "aggregate", "sufficiency", "refine",
          "incident_risk", "verifier", "writer", "critic", "end", "failed"}

Hypothesis == [cause: Causes, cites: SUBSET ItemIds, confidence: 0..100]

VerifiedClaim ==
  [cause: Causes, cites: SUBSET ItemIds, confidence: 0..100, supported: BOOLEAN,
   opposed: BOOLEAN, weak: BOOLEAN, critical: BOOLEAN]

\* The state graph keeps its shape: InvestigationState's fields hold what their
\* declarations say, and the loops stay within max_iterations and one revision.
TypeOK ==
  /\ pc \in Nodes
  /\ steps \in 0..RecursionLimit
  /\ expired \in BOOLEAN /\ timed_out \in BOOLEAN /\ error \in BOOLEAN
  /\ question \in Questions
  /\ merchant \in Merchants \cup {NoMerchant}
  /\ carried \in Merchants \cup {NoMerchant}
  /\ plan \subseteq TaskTypes
  /\ pending \subseteq TaskTypes
  /\ visit \in [todo: SUBSET TaskTypes, found: SUBSET EvidenceItem, done: Nat,
                failed: BOOLEAN]
  /\ evidence \subseteq EvidenceItem
  /\ completed \in Nat
  /\ iteration \in 0..MaxIterations
  /\ sufficiency \in [sufficient: BOOLEAN, missing: SUBSET TaskTypes]
  /\ hypotheses \subseteq Hypothesis
  /\ claims \subseteq VerifiedClaim
  /\ gaps \subseteq TaskTypes
  /\ report \in [written: BOOLEAN, established: BOOLEAN, cause: Causes,
                 cites: SUBSET ItemIds, refs: SUBSET ItemIds, confidence: 0..100]
  /\ critique \in [made: BOOLEAN, approved: BOOLEAN]
  /\ revisions \in 0..1

-----------------------------------------------------------------------------
(* Reports *)

\* A report that says its evidence is sufficient was written by a run that
\* neither timed out nor failed, whose evidence covers every planned task, and
\* whose claims are about the causes this very evidence suggests, none of them
\* a critical one that the verifier rejected (ADR-005, ARCHITECTURE.md 3.8).
ReportIsHonest ==
  report.established =>
    /\ ~timed_out /\ ~error
    /\ plan # {} /\ Missing(evidence) = {}
    /\ {claim.cause : claim \in claims} = Suggested(evidence)
    /\ \A claim \in claims : ~Rejected(claim)

\* An evidence id a claim cites stays in the bundle, also when later visits
\* merge more into it and no verifier runs again before the report is written:
\* IncidentReport.evidence is "always resolvable" (ARCHITECTURE.md 8).
CitationsResolve ==
  /\ \A claim \in claims : claim.cites \subseteq Ids(evidence)
  /\ report.cites \subseteq report.refs

\* The critic never finds the writer going past the verifier, so the one
\* revision the graph allows is never needed.
WriterObeysVerifier == critique.made => critique.approved

\* A run gives up without an established report only because time ran out,
\* because no task of its last visit succeeded, or after max_iterations visits;
\* one failing tool, one empty search or one rejected claim is not enough.
GivesUpForAReason ==
  pc = "end" /\ ~report.established =>
    timed_out \/ (visit.failed /\ visit.done = 0) \/ iteration = MaxIterations

\* Whatever queued a task, the plan or a gap that carries no merchant of its
\* own, it is run for the merchant that the question is about, and one that
\* needs a merchant has one.
TasksKeepTheirMerchant ==
  pending \cup visit.todo # {} =>
    /\ MerchantAtHand = PlanMerchant(question)
    /\ (pending \cup visit.todo) \cap NeedsMerchant # {} => MerchantAtHand \in Merchants

-----------------------------------------------------------------------------
(* Evidence and loops *)

\* Evidence is append-only in what counts: a kind of evidence that was found
\* is never lost, not by merging an error item or a changed score, and so a
\* verdict of "sufficient" is never taken back.
SufficiencyIsNeverLost ==
  [][/\ Present(evidence) \subseteq Present(evidence')
     /\ sufficiency.sufficient => sufficiency'.sufficient]_vars

\* Every superstep is paid for by a visit: six for each, and two more to start
\* or to finish. The recursion limit can only be met by many visits.
StepsFollowVisits == steps <= 6 * iteration + 2

Abstract == INSTANCE Inquiry WITH
  MaxVisits <- MaxIterations,
  asked <- {SourceFor(task) : task \in plan},
  visits <- iteration,
  found <- Present(evidence),
  answer <- IF pc # "end" THEN "none"
            ELSE IF report.established THEN "established" ELSE "insufficient"

\* A bounded number of visits, nothing found is lost, one honest answer.
ImplementsInquiry == Abstract!InquirySpec

\* Every investigation ends, with a report or, where the recursion limit is
\* too small, with an error, whatever fails or runs late.
EveryInvestigationEnds == <>Ended

\* ADR-005 and ARCHITECTURE.md 4.2: running out of iterations "forces exit to
\* Writer", and so no request is answered with an error of the graph.
ExhaustionIsReported == pc # "failed"

=============================================================================
