------------------------ MODULE InvestigationGraphProofs ------------------------
(***************************************************************************)
(* Theorems about module InvestigationGraph, for every set of questions,   *)
(* every max_iterations and every recursion limit. The argument has three  *)
(* layers: LoopInv ties the supersteps to the visits, node by node;        *)
(* ClaimInv and DraftInv say what the verifier and the writer leave        *)
(* behind, and give the critic's approval; EvidenceInv says that an id     *)
(* tells the source of an item, so that merging never loses a source.      *)
(***************************************************************************)
EXTENDS InvestigationGraphProperties, TLAPS

-----------------------------------------------------------------------------
(* The writer's cause *)

\* A set of claims that is not empty has a first one, in the order of the
\* hypotheses of IncidentRiskAgent.
LEMMA FirstExists ==
  ASSUME NEW list, list \subseteq VerifiedClaim, list # {}
  PROVE  \E x \in list : Leads(x, list)
<1> DEFINE Holds(n) == \E x \in list : CauseRank(x.cause) = n
<1>1. \A x \in list : CauseRank(x.cause) \in 1..5
  BY DEF VerifiedClaim, Causes, CauseRank
<1>2. Holds(1) \/ Holds(2) \/ Holds(3) \/ Holds(4) \/ Holds(5)
  BY <1>1
<1>3. ASSUME NEW n \in 1..5, Holds(n), \A m \in 1..5 : m < n => ~Holds(m)
      PROVE  \E x \in list : Leads(x, list)
  <2>1. PICK x \in list : CauseRank(x.cause) = n
    BY <1>3
  <2>2. \A other \in list : n <= CauseRank(other.cause)
    BY <1>1, <1>3
  <2> QED
    BY <2>1, <2>2 DEF Leads
<1>4. CASE Holds(1)
  BY <1>3, <1>4
<1>5. CASE ~Holds(1) /\ Holds(2)
  BY <1>3, <1>5
<1>6. CASE ~Holds(1) /\ ~Holds(2) /\ Holds(3)
  BY <1>3, <1>6
<1>7. CASE ~Holds(1) /\ ~Holds(2) /\ ~Holds(3) /\ Holds(4)
  BY <1>3, <1>7
<1>8. CASE ~Holds(1) /\ ~Holds(2) /\ ~Holds(3) /\ ~Holds(4) /\ Holds(5)
  BY <1>3, <1>8
<1> HIDE DEF Holds
<1> QED
  BY <1>2, <1>4, <1>5, <1>6, <1>7, <1>8

\* The cause WriterAgent names is the fallback or the cause of a claim the
\* verifier supports.
LEMMA NamedCause ==
  ASSUME claims \subseteq VerifiedClaim
  PROVE  \/ Named = Fallback
         \/ \E claim \in claims :
              /\ claim.supported
              /\ Named = [cause |-> claim.cause, cites |-> claim.cites \cap Ids(evidence),
                          confidence |-> claim.confidence]
<1> DEFINE supported == {claim \in claims : claim.supported}
<1>1. CASE supported = {}
  BY <1>1 DEF Named
<1>2. CASE supported # {}
  <2>1. \E x \in supported : Leads(x, supported)
    BY <1>2, FirstExists
  <2>2. (CHOOSE claim \in supported : Leads(claim, supported)) \in supported
    BY <2>1
  <2> QED
    BY <1>2, <2>2 DEF Named
<1> QED
  BY <1>1, <1>2

LEMMA NamedTyped ==
  ASSUME claims \subseteq VerifiedClaim
  PROVE  /\ Named.cause \in Causes
         /\ Named.cites \subseteq ItemIds
         /\ Named.cites \subseteq Ids(evidence)
         /\ Named.confidence \in 0..100
<1>1. CASE Named = Fallback
  BY <1>1 DEF Fallback, Causes
<1>2. ASSUME NEW claim \in claims,
             Named = [cause |-> claim.cause, cites |-> claim.cites \cap Ids(evidence),
                      confidence |-> claim.confidence]
      PROVE  /\ Named.cause \in Causes
             /\ Named.cites \subseteq ItemIds
             /\ Named.cites \subseteq Ids(evidence)
             /\ Named.confidence \in 0..100
  <2>1. claim \in VerifiedClaim
    OBVIOUS
  <2> QED
    BY <1>2, <2>1 DEF VerifiedClaim
<1> QED
  BY <1>1, <1>2, NamedCause

\* Each cause is claimed once.
OneClaimPerCause == \A c, d \in claims : c.cause = d.cause => c = d

\* CriticAgent approves whatever WriterAgent writes from the claims it is given.
LEMMA DraftIsApproved ==
  ASSUME claims \subseteq VerifiedClaim, OneClaimPerCause
  PROVE  Approves(Draft)
<1>1. Draft.cites \subseteq Draft.refs
  BY NamedTyped DEF Draft
<1>2. ~Overclaims(Draft)
  <2> SUFFICES ASSUME Established, NEW claim \in claims, ~claim.supported,
                      claim.cause = Named.cause, Named.cause # "unknown"
               PROVE  FALSE
    BY DEF Overclaims, Draft, Established
  <2>1. Named # Fallback
    BY DEF Fallback
  <2>2. PICK other \in claims : other.supported /\ Named.cause = other.cause
    BY <2>1, NamedCause
  <2> QED
    BY <2>2 DEF OneClaimPerCause
<1>3. ~Inconsistent(Draft)
  <2> SUFFICES ASSUME NEW claim \in claims, claim.critical, claim.opposed
               PROVE  ~(Draft.confidence > 40)
    BY DEF Inconsistent
  <2>1. ~Established
    BY DEF Established
  <2>2. AtMost(Named.confidence, 30) \in 0..30
    BY NamedTyped DEF AtMost
  <2>3. ReportConfidence \in 0..30
    BY <2>1, <2>2 DEF ReportConfidence, AtMost
  <2> QED
    BY <2>3 DEF Draft
<1> QED
  BY <1>1, <1>2, <1>3 DEF Approves

LEMMA DraftTyped ==
  ASSUME TypeOK
  PROVE  Draft \in [written: BOOLEAN, established: BOOLEAN, cause: Causes,
                    cites: SUBSET ItemIds, refs: SUBSET ItemIds, confidence: 0..100]
<1>1. claims \subseteq VerifiedClaim /\ evidence \subseteq EvidenceItem
  BY DEF TypeOK
<1>2. Ids(evidence) \subseteq ItemIds
  BY <1>1 DEF Ids, EvidenceItem
<1>3. Established \in BOOLEAN
  BY DEF Established
<1>4. ReportConfidence \in 0..100
  BY <1>1, NamedTyped DEF ReportConfidence, AtMost
<1> QED
  BY <1>1, <1>2, <1>3, <1>4, NamedTyped DEF Draft

-----------------------------------------------------------------------------
(* The invariant behind the loops *)

\* How many supersteps a run may have taken when a node is about to run: six
\* for each visit that is over, and the nodes of the running one.
LoopInv ==
  /\ pc = "planner" => steps = 0 /\ iteration = 0
  /\ pc = "investigate" => steps <= 6 * iteration + 1
  /\ pc = "tasks" => steps <= 6 * iteration + 2
  /\ pc \in {"investigate", "tasks", "refine"} => iteration < MaxIterations
  /\ pc = "aggregate" => steps + 4 <= 6 * iteration
  /\ pc = "sufficiency" => steps + 3 <= 6 * iteration
  /\ pc = "incident_risk" => steps + 2 <= 6 * iteration
  /\ pc = "verifier" => steps + 1 <= 6 * iteration
  /\ pc \in {"refine", "writer"} => steps <= 6 * iteration
  /\ pc \in {"critic", "failed"} => steps <= 6 * iteration + 1
  /\ pc = "end" => steps <= 6 * iteration + 2
  /\ pc \notin {"critic", "end", "failed"} => revisions = 0 /\ ~critique.made
  /\ revisions = 0

\* The incident agent lists a cause once, and the verifier turns each of its
\* hypotheses into one claim.
ClaimInv ==
  /\ \A g, h \in hypotheses : g.cause = h.cause => g = h
  /\ OneClaimPerCause

\* A report stays the draft of the state it was written in, and what the critic
\* said of it is said of that draft.
DraftInv ==
  /\ pc \in {"critic", "end"} => report.written
  /\ report.written => pc \in {"critic", "end", "failed"} /\ report = Draft
  /\ ~report.written => report = NoReport
  /\ critique.made => critique.approved /\ report.written

Inv == TypeOK /\ LoopInv /\ ClaimInv /\ DraftInv

-----------------------------------------------------------------------------
(* Types *)

LEMMA PlanTyped == \A q : Plan(q) \subseteq TaskTypes
  BY DEF Plan, When, TaskTypes

LEMMA OutcomesTyped ==
  ASSUME NEW task \in TaskTypes, NEW items \in Outcomes(task)
  PROVE  items \subseteq EvidenceItem
  BY DEF TaskTypes, Outcomes, Item, EvidenceItem, ItemIds, Sources, Marks

LEMMA MissingTyped ==
  ASSUME plan \subseteq TaskTypes
  PROVE  Verdict \in [sufficient: BOOLEAN, missing: SUBSET TaskTypes]
  BY DEF Verdict, Missing, TaskTypes

LEMMA ProposeTyped ==
  ASSUME evidence \subseteq EvidenceItem
  PROVE  Propose(evidence) \subseteq Hypothesis
<1>1. Suggested(evidence) \subseteq Causes
  BY DEF Suggested, When, Causes
<1>2. \A cause \in Causes : Confidence(cause, evidence) \in 0..100
  BY DEF Causes, Confidence
<1>3. \A S : S \subseteq evidence => Ids(S) \subseteq ItemIds
  BY DEF Ids, EvidenceItem
<1>4. ASSUME NEW h \in Propose(evidence) PROVE h \in Hypothesis
  <2>1. PICK cause \in Suggested(evidence) :
          h = [cause |-> cause,
               cites |-> Ids({item \in evidence : Backs(item, cause)}),
               confidence |-> Confidence(cause, evidence)]
    BY DEF Propose
  <2>2. Ids({item \in evidence : Backs(item, cause)}) \subseteq ItemIds
    BY <1>3
  <2> QED
    BY <1>1, <1>2, <2>1, <2>2 DEF Hypothesis
<1> QED
  BY <1>4

LEMMA CheckTyped ==
  ASSUME NEW h \in Hypothesis, NEW reading \in Readings
  PROVE  Check(h, reading, evidence) \in VerifiedClaim
<1>1. h.cause \in Causes /\ h.cites \subseteq ItemIds /\ h.confidence \in 0..100
  BY DEF Hypothesis
<1> QED
  BY <1>1 DEF Check, VerifiedClaim, Leads

LEMMA VerifierTyped ==
  ASSUME TypeOK, Verifier
  PROVE  claims' \subseteq VerifiedClaim /\ gaps' \subseteq TaskTypes
<1>1. PICK reading \in [hypotheses -> Readings] :
        claims' = {Check(h, reading[h], evidence) : h \in hypotheses}
  BY DEF Verifier
<1>2. hypotheses \subseteq Hypothesis
  BY DEF TypeOK
<1>3. claims' \subseteq VerifiedClaim
  BY <1>1, <1>2, CheckTyped
<1>4. gaps' \subseteq TaskTypes
  BY DEF Verifier, GapFor, TaskTypes
<1> QED
  BY <1>3, <1>4

USE QuestionsAssumption, LimitsAssumption

LEMMA MerchantTyped ==
  ASSUME NEW q \in Questions
  PROVE  /\ q.given \in Merchants \cup {NoMerchant}
         /\ PlanMerchant(q) \in Merchants \cup {NoMerchant}
<1>1. q \in Question
  OBVIOUS
<1> QED
  BY <1>1 DEF Question, PlanMerchant

LEMMA TypeStep ==
  ASSUME TypeOK, LoopInv, [Next]_vars
  PROVE  TypeOK'
<1> USE DEF TypeOK, Nodes, whom, gathered, judged, written
<1>1. CASE Planner
  <2>1. PlanMerchant(question) \in Merchants \cup {NoMerchant}
    BY MerchantTyped
  <2>2. Plan(question) \subseteq TaskTypes
    BY PlanTyped
  <2> QED
    BY <1>1, <2>1, <2>2 DEF Planner, At
<1>2. CASE InvestigateLate
  BY <1>2 DEF InvestigateLate, At, LoopInv
<1>3. CASE Investigate
  <2>1. visit' \in [todo: SUBSET TaskTypes, found: SUBSET EvidenceItem, done: Nat,
                    failed: BOOLEAN]
    BY <1>3 DEF Investigate
  <2> QED
    BY <1>3, <2>1 DEF Investigate, At
<1>4. CASE RunTask
  <2>1. PICK task \in visit.todo : \E items \in Outcomes(task) :
          visit' = [todo |-> visit.todo \ {task}, found |-> Merge(visit.found, items),
                    done |-> visit.done + 1, failed |-> visit.failed]
    BY <1>4 DEF RunTask
  <2>a. PICK items \in Outcomes(task) :
          visit' = [todo |-> visit.todo \ {task}, found |-> Merge(visit.found, items),
                    done |-> visit.done + 1, failed |-> visit.failed]
    BY <2>1
  <2>2. Merge(visit.found, items) \subseteq EvidenceItem
    BY OutcomesTyped DEF Merge
  <2>3. visit' \in [todo: SUBSET TaskTypes, found: SUBSET EvidenceItem, done: Nat,
                    failed: BOOLEAN]
    BY <2>a, <2>2
  <2> QED
    BY <1>4, <2>3 DEF RunTask
<1>5. CASE FailTask
  <2>1. visit' \in [todo: SUBSET TaskTypes, found: SUBSET EvidenceItem, done: Nat,
                    failed: BOOLEAN]
    BY <1>5 DEF FailTask
  <2> QED
    BY <1>5, <2>1 DEF FailTask
<1>6. CASE CutShort
  BY <1>6 DEF CutShort, LoopInv
<1>7. CASE Leave
  BY <1>7 DEF Leave, LoopInv
<1>8. CASE Aggregate
  BY <1>8 DEF Aggregate, At
<1>9. CASE Sufficiency
  <2>1. pc' \in Nodes
    BY <1>9 DEF Sufficiency, RouteAfterSufficiency
  <2> QED
    BY <1>9, <2>1, MissingTyped DEF Sufficiency, At
<1>10. CASE Refine
  BY <1>10 DEF Refine, At
<1>11. CASE IncidentRisk
  BY <1>11, ProposeTyped DEF IncidentRisk, At
<1>12. CASE Verifier
  <2>1. pc' \in Nodes
    BY <1>12 DEF Verifier, RouteAfterVerifier
  <2> QED
    BY <1>12, <2>1, VerifierTyped DEF Verifier, At
<1>13. CASE Writer
  <2>1. revisions' \in 0..1
    BY <1>13 DEF Writer, At, LoopInv
  <2> QED
    BY <1>13, <2>1, DraftTyped DEF Writer, At
<1>14. CASE Critic
  <2>1. Approves(report) \in BOOLEAN
    BY DEF Approves, Overclaims, Inconsistent
  <2>2. pc' \in Nodes
    BY <1>14 DEF Critic, RouteAfterCritic
  <2> QED
    BY <1>14, <2>1, <2>2 DEF Critic, At
<1>15. CASE RecursionError
  BY <1>15 DEF RecursionError
<1>16. CASE Expire
  BY <1>16 DEF Expire
<1>17. CASE UNCHANGED vars
  BY <1>17 DEF vars
<1> QED
  BY <1>1, <1>2, <1>3, <1>4, <1>5, <1>6, <1>7, <1>8, <1>9, <1>10, <1>11, <1>12, <1>13,
     <1>14, <1>15, <1>16, <1>17 DEF Next, Work, Terminating

-----------------------------------------------------------------------------
(* Loops, claims and drafts *)

LEMMA ClaimStep ==
  ASSUME TypeOK, ClaimInv, [Next]_vars
  PROVE  ClaimInv'
<1> USE DEF ClaimInv, OneClaimPerCause
<1>1. CASE IncidentRisk
  <2>1. ASSUME NEW g \in Propose(evidence), NEW h \in Propose(evidence), g.cause = h.cause
        PROVE  g = h
    <3> DEFINE R(cause) == [cause |-> cause,
                            cites |-> Ids({item \in evidence : Backs(item, cause)}),
                            confidence |-> Confidence(cause, evidence)]
    <3>1. Propose(evidence) = {R(cause) : cause \in Suggested(evidence)}
      BY DEF Propose
    <3>2. \A cause : R(cause).cause = cause
      OBVIOUS
    <3> HIDE DEF R
    <3>3. \A x \in Propose(evidence) : x = R(x.cause)
      BY <3>1, <3>2
    <3> QED
      BY <2>1, <3>3
  <2> QED
    BY <1>1, <2>1 DEF IncidentRisk
<1>2. CASE Verifier
  <2>1. PICK reading \in [hypotheses -> Readings] :
          claims' = {Check(h, reading[h], evidence) : h \in hypotheses}
    BY <1>2 DEF Verifier
  <2>2. \A h : Check(h, reading[h], evidence).cause = h.cause
    BY DEF Check
  <2>3. hypotheses' = hypotheses
    BY <1>2 DEF Verifier
  <2> QED
    BY <2>1, <2>2, <2>3
<1>3. CASE ~IncidentRisk /\ ~Verifier
  <2>1. UNCHANGED <<hypotheses, claims>>
    BY <1>3 DEF Next, Work, Planner, InvestigateLate, Investigate, RunTask, FailTask,
                CutShort, Leave, Aggregate, Sufficiency, Refine, Writer, Critic,
                RecursionError, Expire, Terminating, vars, judged
  <2> QED
    BY <2>1
<1> QED
  BY <1>1, <1>2, <1>3

\* The critic approves the report it is given.
LEMMA CriticApproves ==
  ASSUME Inv, Critic
  PROVE  Approves(report) /\ pc' = "end" /\ critique' = [made |-> TRUE, approved |-> TRUE]
<1>1. report = Draft
  BY DEF Inv, DraftInv, Critic, At
<1>2. Approves(report)
  BY <1>1, DraftIsApproved DEF Inv, TypeOK, ClaimInv
<1> QED
  BY <1>2 DEF Critic, RouteAfterCritic

LEMMA LoopStep ==
  ASSUME Inv, [Next]_vars
  PROVE  LoopInv'
<1> steps \in Nat /\ iteration \in 0..MaxIterations
  BY DEF Inv, TypeOK
<1> USE DEF Inv, LoopInv
<1>1. CASE Planner
  BY <1>1 DEF Planner, At, written
<1>2. CASE InvestigateLate
  BY <1>2 DEF InvestigateLate, At, written
<1>3. CASE Investigate
  BY <1>3 DEF Investigate, At, written
<1>4. CASE RunTask
  BY <1>4 DEF RunTask, written
<1>5. CASE FailTask
  BY <1>5 DEF FailTask, written
<1>6. CASE CutShort
  BY <1>6 DEF CutShort, written
<1>7. CASE Leave
  BY <1>7 DEF Leave, written
<1>8. CASE Aggregate
  BY <1>8 DEF Aggregate, At, written
<1>9. CASE Sufficiency
  <2>1. /\ pc' \in {"writer", "incident_risk", "refine"}
        /\ pc' = "refine" => iteration < MaxIterations
    BY <1>9 DEF Sufficiency, RouteAfterSufficiency
  <2> QED
    BY <1>9, <2>1 DEF Sufficiency, At, written
<1>10. CASE Refine
  BY <1>10 DEF Refine, At, written
<1>11. CASE IncidentRisk
  BY <1>11 DEF IncidentRisk, At, written
<1>12. CASE Verifier
  <2>1. /\ pc' \in {"writer", "refine"}
        /\ pc' = "refine" => iteration < MaxIterations
    BY <1>12 DEF Verifier, RouteAfterVerifier
  <2> QED
    BY <1>12, <2>1 DEF Verifier, At, written
<1>13. CASE Writer
  BY <1>13 DEF Writer, At
<1>14. CASE Critic
  <2>1. pc' = "end"
    BY <1>14, CriticApproves
  <2>2. pc = "critic" /\ steps' = steps + 1 /\ UNCHANGED <<iteration, revisions>>
    BY <1>14 DEF Critic, At
  <2> QED
    BY <2>1, <2>2
<1>15. CASE RecursionError
  <2>1. steps <= 6 * iteration + 1
    BY <1>15, TypeStep DEF RecursionError, TypeOK, Nodes
  <2> QED
    BY <1>15, <2>1 DEF RecursionError, written
<1>16. CASE Expire
  BY <1>16 DEF Expire, written
<1>17. CASE UNCHANGED vars
  BY <1>17 DEF vars, written
<1> QED
  BY <1>1, <1>2, <1>3, <1>4, <1>5, <1>6, <1>7, <1>8, <1>9, <1>10, <1>11, <1>12, <1>13,
     <1>14, <1>15, <1>16, <1>17 DEF Next, Work, Terminating

LEMMA DraftUnchanged ==
  ASSUME UNCHANGED <<timed_out, error, sufficiency, claims, evidence>>
  PROVE  Draft' = Draft
BY DEF Draft, Established, Named, Fallback, ReportConfidence, AtMost, Ids, Rejected, Leads,
       CauseRank

LEMMA DraftStep ==
  ASSUME Inv, [Next]_vars
  PROVE  DraftInv'
<1> USE DEF Inv, DraftInv
<1>1. CASE Writer
  <2>1. report' = Draft /\ pc' = "critic" /\ ~critique'.made
    BY <1>1 DEF Writer, At, LoopInv
  <2>2. Draft' = Draft
    BY <1>1, DraftUnchanged DEF Writer, gathered, judged
  <2>3. Draft.written
    BY DEF Draft
  <2> QED
    BY <2>1, <2>2, <2>3
<1>2. CASE Critic
  <2>1. Draft' = Draft /\ report' = report
    BY <1>2, DraftUnchanged DEF Critic, gathered, judged
  <2>2. pc = "critic"
    BY <1>2 DEF Critic, At
  <2> QED
    BY <1>2, <2>1, <2>2, CriticApproves
<1>3. CASE RecursionError \/ Expire \/ UNCHANGED vars
  <2>1. Draft' = Draft /\ UNCHANGED <<report, critique>> /\ pc' \in {pc, "failed"}
    BY <1>3, DraftUnchanged
       DEF RecursionError, Expire, vars, gathered, judged, written
  <2> QED
    BY <2>1
<1>4. CASE /\ pc \notin {"critic", "end", "failed"} /\ pc' \notin {"critic", "end", "failed"}
           /\ UNCHANGED <<report, critique>>
  BY <1>4
<1>5. CASE Planner \/ InvestigateLate \/ Investigate \/ RunTask \/ FailTask \/ CutShort
             \/ Leave \/ Aggregate \/ Refine \/ IncidentRisk
  BY <1>4, <1>5 DEF Planner, InvestigateLate, Investigate, RunTask, FailTask, CutShort,
                    Leave, Aggregate, Refine, IncidentRisk, At, written
<1>6. CASE Sufficiency \/ Verifier
  <2>1. pc' \in {"writer", "incident_risk", "refine"}
    BY <1>6 DEF Sufficiency, RouteAfterSufficiency, Verifier, RouteAfterVerifier
  <2> QED
    BY <1>4, <1>6, <2>1 DEF Sufficiency, Verifier, At, written
<1> QED
  BY <1>1, <1>2, <1>3, <1>5, <1>6 DEF Next, Work, Terminating

LEMMA Initially == Init => Inv
<1> SUFFICES ASSUME Init PROVE Inv
  OBVIOUS
<1> USE DEF Init
<1>1. TypeOK
  <2>1. NoReport \in [written: BOOLEAN, established: BOOLEAN, cause: Causes,
                      cites: SUBSET ItemIds, refs: SUBSET ItemIds, confidence: 0..100]
    BY DEF NoReport, Causes
  <2>2. NoVisit \in [todo: SUBSET TaskTypes, found: SUBSET EvidenceItem, done: Nat,
                     failed: BOOLEAN]
    BY DEF NoVisit
  <2>3. merchant \in Merchants \cup {NoMerchant}
    BY MerchantTyped
  <2>4. steps \in 0..RecursionLimit /\ iteration \in 0..MaxIterations /\ revisions \in 0..1
    OBVIOUS
  <2> QED
    BY <2>1, <2>2, <2>3, <2>4 DEF TypeOK, Nodes
<1>2. LoopInv /\ ClaimInv /\ DraftInv
  BY DEF LoopInv, ClaimInv, OneClaimPerCause, DraftInv, NoReport
<1> QED
  BY <1>1, <1>2 DEF Inv

LEMMA InvStep == Inv /\ [Next]_vars => Inv'
  BY TypeStep, LoopStep, ClaimStep, DraftStep DEF Inv

LEMMA Invariance == Spec => []Inv
  BY Initially, InvStep, PTL DEF Spec

-----------------------------------------------------------------------------
(* Theorems *)

\* Every variable keeps its shape; the visits stay within max_iterations and
\* the revisions within one (InvestigationState, route_after_*).
THEOREM TypeCorrect == Spec => []TypeOK
<1>1. Inv => TypeOK
  BY DEF Inv
<1> QED
  BY <1>1, Invariance, PTL

\* However long a run loops, its supersteps are paid for by visits
\* (build_investigation_graph).
THEOREM StepsAreBounded == Spec => []StepsFollowVisits
<1>1. Inv => StepsFollowVisits
  BY DEF Inv, TypeOK, LoopInv, Nodes, StepsFollowVisits
<1> QED
  BY <1>1, Invariance, PTL

\* A limit of six supersteps for each visit and two more is enough: then every
\* exhausted investigation is reported. LangGraph's 25 are enough for the
\* default of three visits and not for the eight that a request may ask for.
THEOREM NoRecursionError ==
  RecursionLimit >= 6 * MaxIterations + 2 => (Spec => []ExhaustionIsReported)
<1> SUFFICES ASSUME RecursionLimit >= 6 * MaxIterations + 2
             PROVE  Spec => []ExhaustionIsReported
  OBVIOUS
<1>1. Init => ExhaustionIsReported
  BY DEF Init, ExhaustionIsReported
<1>2. Inv /\ ExhaustionIsReported /\ [Next]_vars => ExhaustionIsReported'
  <2> SUFFICES ASSUME Inv, pc # "failed", [Next]_vars, pc' = "failed" PROVE FALSE
    BY DEF ExhaustionIsReported
  <2>1. RecursionError
    BY DEF Next, Work, Planner, InvestigateLate, Investigate, RunTask, FailTask,
           CutShort, Leave, Aggregate, Sufficiency, RouteAfterSufficiency, Refine,
           IncidentRisk, Verifier, RouteAfterVerifier, Writer, Critic, RouteAfterCritic,
           Expire, Terminating, vars
  <2>2. steps <= 6 * iteration + 1
    BY <2>1 DEF RecursionError, Inv, LoopInv, TypeOK, Nodes
  <2> QED
    BY <2>1, <2>2 DEF RecursionError, Inv, TypeOK
<1> QED
  BY <1>1, <1>2, Invariance, PTL DEF Spec

\* The critic never has to send a report back (CriticAgent, WriterAgent).
THEOREM CriticIsSatisfied == Spec => []WriterObeysVerifier
<1>1. Inv => WriterObeysVerifier
  BY DEF Inv, DraftInv, WriterObeysVerifier
<1> QED
  BY <1>1, Invariance, PTL

-----------------------------------------------------------------------------
(* Evidence *)

\* An id tells where an item comes from and whether it is an error.
Described(item) ==
  /\ item.id \in {"doc-faq", "doc-codes"} => item.source = "doc"
  /\ item.id = "metric" => item.source = "metric"
  /\ item.id \in {"webhook-missing", "webhook-delayed"} => item.source = "webhook"
  /\ item.id = "health" => item.source = "health"
  /\ item.id \in {"ml", "ml-reg", "ml-error-classification", "ml-error-regression"}
       => item.source = "ml"
  /\ item.id = "integrity" => item.source = "integrity"
  /\ item.mark = "error" <=> item.id \in {"ml-error-classification", "ml-error-regression"}

LEMMA OutcomesDescribed ==
  ASSUME NEW task \in TaskTypes, NEW items \in Outcomes(task), NEW item \in items
  PROVE  Described(item)
  BY DEF TaskTypes, Outcomes, Item, Described

\* Merging never loses an id, nor a source of evidence.
LEMMA MergeKeeps ==
  ASSUME NEW bundle, NEW items, bundle \subseteq EvidenceItem, items \subseteq EvidenceItem,
         \A item \in bundle \cup items : Described(item)
  PROVE  /\ Ids(bundle) \subseteq Ids(Merge(bundle, items))
         /\ Present(bundle) \subseteq Present(Merge(bundle, items))
         /\ \A item \in Merge(bundle, items) : Described(item)
<1>1. \A old \in bundle : old \in Merge(bundle, items) \/ \E new \in items : new.id = old.id
  BY DEF Merge, Ids
<1>2. items \subseteq Merge(bundle, items)
  BY DEF Merge
<1>3. \A old \in bundle, new \in items :
        new.id = old.id => new.source = old.source /\ (new.mark = "error" <=> old.mark = "error")
  BY DEF Described, EvidenceItem, ItemIds
<1>4. Ids(bundle) \subseteq Ids(Merge(bundle, items))
  BY <1>1, <1>2 DEF Ids
<1>5. Present(bundle) \subseteq Present(Merge(bundle, items))
  BY <1>1, <1>2, <1>3 DEF Present
<1>6. \A item \in Merge(bundle, items) : Described(item)
  BY DEF Merge
<1> QED
  BY <1>4, <1>5, <1>6

\* What the bundle holds, and what a running visit adds to it.
EvidenceInv ==
  /\ \A item \in evidence \cup visit.found : Described(item)
  /\ pc = "tasks" => /\ Ids(evidence) \subseteq Ids(visit.found)
                     /\ Present(evidence) \subseteq Present(visit.found)
  /\ pc # "planner" => plan # {}
  /\ pc = "planner" => plan = {} /\ evidence = {}
  /\ sufficiency.sufficient => pc # "planner" /\ Missing(evidence) = {}
  /\ \A h \in hypotheses : h.cites \subseteq Ids(evidence)
  /\ \A claim \in claims : claim.cites \subseteq Ids(evidence)

LEMMA PlanNotEmpty == \A q : Plan(q) # {}
  BY DEF Plan, When

\* No step loses an id or a source.
LEMMA EvidenceGrows ==
  ASSUME TypeOK, EvidenceInv, [Next]_vars
  PROVE  /\ Ids(evidence) \subseteq Ids(evidence')
         /\ Present(evidence) \subseteq Present(evidence')
<1>1. CASE CutShort \/ Leave
  BY <1>1 DEF CutShort, Leave, EvidenceInv
<1>2. CASE ~CutShort /\ ~Leave
  <2>1. evidence' = evidence
    BY <1>2 DEF Next, Work, Planner, InvestigateLate, Investigate, RunTask, FailTask,
           Aggregate, Sufficiency, Refine, IncidentRisk, Verifier, Writer, Critic,
           RecursionError, Expire, Terminating, vars, gathered
  <2> QED
    BY <2>1
<1> QED
  BY <1>1, <1>2

LEMMA ProposeCites ==
  \A h \in Propose(evidence) : h.cites \subseteq Ids(evidence)
  BY DEF Propose, Ids

LEMMA EvidenceStep ==
  ASSUME TypeOK, LoopInv, EvidenceInv, [Next]_vars
  PROVE  EvidenceInv'
<1> DEFINE Kept == /\ Ids(evidence) \subseteq Ids(evidence')
                   /\ Present(evidence) \subseteq Present(evidence')
<1>0. Kept
  BY EvidenceGrows
<1> USE DEF EvidenceInv
<1>1. CASE Planner
  <2>1. plan' # {} /\ pc = "planner" /\ pc' = "investigate"
    BY <1>1, PlanNotEmpty DEF Planner, At
  <2> QED
    BY <1>1, <2>1 DEF Planner, gathered, judged
<1>2. CASE Investigate
  <2>1. visit'.found = evidence /\ pc = "investigate" /\ pc' = "tasks"
    BY <1>2 DEF Investigate, At
  <2>2. UNCHANGED <<plan, evidence, sufficiency, hypotheses, claims>>
    BY <1>2 DEF Investigate, gathered, judged
  <2>3. Missing(evidence)' = Missing(evidence)
    BY <2>2 DEF Missing
  <2> QED
    BY <2>1, <2>2, <2>3
<1>3. CASE RunTask
  <2>1. PICK task \in visit.todo : \E items \in Outcomes(task) :
          visit' = [todo |-> visit.todo \ {task}, found |-> Merge(visit.found, items),
                    done |-> visit.done + 1, failed |-> visit.failed]
    BY <1>3 DEF RunTask
  <2>2. PICK items \in Outcomes(task) : visit'.found = Merge(visit.found, items)
    BY <2>1
  <2>3. task \in TaskTypes /\ visit.found \subseteq EvidenceItem
    BY DEF TypeOK
  <2>4. items \subseteq EvidenceItem /\ \A item \in items : Described(item)
    BY <2>3, OutcomesTyped, OutcomesDescribed
  <2>5. /\ Ids(visit.found) \subseteq Ids(visit'.found)
        /\ Present(visit.found) \subseteq Present(visit'.found)
        /\ \A item \in visit'.found : Described(item)
    BY <2>2, <2>3, <2>4, MergeKeeps
  <2>6. pc = "tasks" /\ UNCHANGED <<pc, plan, evidence, sufficiency, hypotheses, claims>>
    BY <1>3 DEF RunTask, gathered, judged
  <2>7. Missing(evidence)' = Missing(evidence)
    BY <2>6 DEF Missing
  <2> QED
    BY <2>5, <2>6, <2>7
<1>4. CASE FailTask
  <2>1. visit'.found = visit.found
    BY <1>4 DEF FailTask
  <2>2. UNCHANGED <<pc, plan, evidence, sufficiency, hypotheses, claims>>
    BY <1>4 DEF FailTask, gathered, judged
  <2>3. Missing(evidence)' = Missing(evidence)
    BY <2>2 DEF Missing
  <2> QED
    BY <2>1, <2>2, <2>3
<1>5. CASE CutShort \/ Leave
  <2>1. evidence' = visit.found /\ pc = "tasks" /\ pc' = "aggregate" /\ visit' = visit
    BY <1>5 DEF CutShort, Leave
  <2>2. UNCHANGED <<plan, sufficiency, hypotheses, claims>>
    BY <1>5 DEF CutShort, Leave, judged
  <2>3. Missing(evidence)' \subseteq Missing(evidence)
    BY <1>0, <2>2 DEF Missing
  <2> QED
    BY <1>0, <2>1, <2>2, <2>3
<1>6. CASE Sufficiency
  <2>1. UNCHANGED <<plan, visit, evidence, hypotheses, claims>>
    BY <1>6 DEF Sufficiency, gathered
  <2>2. pc = "sufficiency" /\ pc' \in {"writer", "incident_risk", "refine"}
    BY <1>6 DEF Sufficiency, At, RouteAfterSufficiency
  <2>3. sufficiency'.sufficient => Missing(evidence) = {}
    BY <1>6, <2>2 DEF Sufficiency, Verdict
  <2>4. Missing(evidence)' = Missing(evidence)
    BY <2>1 DEF Missing
  <2> QED
    BY <2>1, <2>2, <2>3, <2>4
<1>7. CASE IncidentRisk
  <2>1. UNCHANGED <<plan, visit, evidence, sufficiency, claims>>
    BY <1>7 DEF IncidentRisk, gathered
  <2>2. pc = "incident_risk" /\ pc' = "verifier" /\ hypotheses' = Propose(evidence)
    BY <1>7 DEF IncidentRisk, At
  <2>3. Missing(evidence)' = Missing(evidence)
    BY <2>1 DEF Missing
  <2> QED
    BY <2>1, <2>2, <2>3, ProposeCites
<1>8. CASE Verifier
  <2>1. UNCHANGED <<plan, visit, evidence, sufficiency, hypotheses>>
    BY <1>8 DEF Verifier, gathered
  <2>2. pc = "verifier" /\ pc' \in {"writer", "refine"}
    BY <1>8 DEF Verifier, At, RouteAfterVerifier
  <2>3. PICK reading \in [hypotheses -> Readings] :
          claims' = {Check(h, reading[h], evidence) : h \in hypotheses}
    BY <1>8 DEF Verifier
  <2>4. \A claim \in claims' : claim.cites \subseteq Ids(evidence)
    BY <2>3 DEF Check
  <2>5. Missing(evidence)' = Missing(evidence)
    BY <2>1 DEF Missing
  <2> QED
    BY <2>1, <2>2, <2>4, <2>5
<1>9. CASE InvestigateLate \/ Aggregate \/ Refine \/ Writer \/ Critic \/ RecursionError
           \/ Expire \/ UNCHANGED vars
  <2>1. UNCHANGED <<plan, visit, evidence, sufficiency, hypotheses, claims>>
    BY <1>9 DEF InvestigateLate, Aggregate, Refine, Writer, Critic, RecursionError, Expire,
                vars, gathered, judged
  <2>2. pc' # "tasks" \/ pc' = pc
    BY <1>9 DEF InvestigateLate, Aggregate, Refine, Writer, Critic, RouteAfterCritic,
                RecursionError, Expire, vars
  <2>3. pc' = "planner" <=> pc = "planner"
    BY <1>9 DEF InvestigateLate, Aggregate, Refine, Writer, Critic, RouteAfterCritic,
                RecursionError, Expire, vars, At, LoopInv
  <2>4. Missing(evidence)' = Missing(evidence)
    BY <2>1 DEF Missing
  <2> QED
    BY <2>1, <2>2, <2>3, <2>4
<1> QED
  BY <1>1, <1>2, <1>3, <1>4, <1>5, <1>6, <1>7, <1>8, <1>9 DEF Next, Work, Terminating

-----------------------------------------------------------------------------
(* Merchants *)

\* The state keeps the plan's merchant, and whatever is planned, missing, asked
\* for again or queued and needs a merchant, there is one.
MerchantInv ==
  /\ pc # "planner" => merchant = PlanMerchant(question)
  /\ carried \in {NoMerchant, PlanMerchant(question)}
  /\ pc = "planner" => plan = {} /\ pending = {} /\ visit.todo = {}
  /\ (plan \cup pending \cup visit.todo \cup sufficiency.missing \cup gaps) \cap NeedsMerchant # {}
       => PlanMerchant(question) # NoMerchant

LEMMA PlanKnowsMerchant ==
  ASSUME NEW q \in Question, Plan(q) \cap NeedsMerchant # {}
  PROVE  PlanMerchant(q) # NoMerchant
  BY DEF Plan, When, NeedsMerchant, Question

LEMMA MerchantStep ==
  ASSUME TypeOK, LoopInv, MerchantInv, [Next]_vars
  PROVE  MerchantInv'
<1> question \in Question
  BY DEF TypeOK
<1> USE DEF MerchantInv, NeedsMerchant, whom, gathered, judged, written, At
<1>1. CASE Planner
  BY <1>1, PlanKnowsMerchant DEF Planner
<1>2. CASE Investigate
  BY <1>2 DEF Investigate
<1>3. CASE RunTask \/ FailTask
  <2>1. visit'.todo \subseteq visit.todo
    BY <1>3 DEF RunTask, FailTask
  <2>2. /\ pc = "tasks"
        /\ UNCHANGED <<pc, question, whom, plan, pending, sufficiency, gaps>>
    BY <1>3 DEF RunTask, FailTask
  <2> QED
    BY <2>1, <2>2
<1>4. CASE InvestigateLate \/ CutShort \/ Leave
  BY <1>4 DEF InvestigateLate, CutShort, Leave
<1>5. CASE Sufficiency
  <2>1. sufficiency'.missing \subseteq plan \cup {"retrieve_docs"}
    BY <1>5 DEF Sufficiency, Verdict, Missing
  <2>2. /\ pc = "sufficiency" /\ pc' # "planner"
        /\ UNCHANGED <<question, whom, plan, pending, visit, gaps>>
    BY <1>5 DEF Sufficiency, RouteAfterSufficiency
  <2> QED
    BY <2>1, <2>2
<1>6. CASE Refine
  <2>1. pending' \subseteq pending \cup sufficiency.missing \cup gaps
    BY <1>6 DEF Refine
  <2>2. /\ pc = "refine" /\ pc' # "planner"
        /\ UNCHANGED <<question, merchant, plan, visit, sufficiency, gaps>>
        /\ carried' \in {carried, NoMerchant}
    BY <1>6 DEF Refine
  <2> QED
    BY <2>1, <2>2
<1>7. CASE Verifier
  <2>1. gaps' \subseteq {"inspect_webhooks", "retrieve_docs"}
    BY <1>7 DEF Verifier, GapFor
  <2>2. /\ pc = "verifier" /\ pc' # "planner"
        /\ UNCHANGED <<question, whom, plan, pending, visit, sufficiency>>
    BY <1>7 DEF Verifier, RouteAfterVerifier
  <2> QED
    BY <2>1, <2>2
<1>8. CASE Aggregate \/ IncidentRisk \/ Writer \/ Critic
  BY <1>8 DEF Aggregate, IncidentRisk, Writer, Critic, RouteAfterCritic
<1>9. CASE RecursionError
  <2>1. pc # "planner"
    BY <1>9 DEF RecursionError, LoopInv
  <2> QED
    BY <1>9, <2>1 DEF RecursionError
<1>10. CASE Expire \/ UNCHANGED vars
  BY <1>10 DEF Expire, vars
<1> QED
  BY <1>1, <1>2, <1>3, <1>4, <1>5, <1>6, <1>7, <1>8, <1>9, <1>10 DEF Next, Work, Terminating

-----------------------------------------------------------------------------
(* Answers *)

Supports(list) == {claim.cause : claim \in list}

\* Nothing the verifier said speaks against the report.
Unopposed == \A claim \in claims : ~Rejected(claim) /\ ~(claim.critical /\ claim.opposed)

\* Why a report that is written may not be established.
Excused == timed_out \/ error \/ iteration = MaxIterations

\* The way to the writer: with evidence that covers the plan and claims that
\* are about that evidence, or with an excuse.
AnswerInv ==
  /\ pc \in {"incident_risk", "verifier"} => sufficiency.sufficient /\ ~timed_out /\ ~error
  /\ pc \in {"planner", "investigate", "tasks", "refine"} => ~timed_out /\ ~error
  /\ pc = "verifier" => hypotheses = Propose(evidence)
  /\ pc = "writer" \/ report.written =>
       /\ sufficiency.sufficient /\ ~timed_out /\ ~error =>
            Supports(claims) = Suggested(evidence)
       /\ Excused \/ (sufficiency.sufficient /\ Unopposed)
  /\ error => visit.failed /\ visit.done = 0
  /\ pc \notin {"planner", "investigate", "tasks", "failed"} => iteration > 0

\* The causes proposed are the ones the evidence suggests.
LEMMA ProposedCauses == Supports(Propose(evidence)) = Suggested(evidence)
<1> DEFINE R(cause) == [cause |-> cause,
                        cites |-> Ids({item \in evidence : Backs(item, cause)}),
                        confidence |-> Confidence(cause, evidence)]
<1>1. Propose(evidence) = {R(cause) : cause \in Suggested(evidence)}
  BY DEF Propose
<1>2. \A cause : R(cause).cause = cause
  OBVIOUS
<1> HIDE DEF R
<1> QED
  BY <1>1, <1>2 DEF Supports

LEMMA VerifierAnswers ==
  ASSUME TypeOK, AnswerInv, Verifier
  PROVE  /\ Supports(claims') = Suggested(evidence)
         /\ gaps' = {} => Unopposed'
<1>1. PICK reading \in [hypotheses -> Readings] :
        claims' = {Check(h, reading[h], evidence) : h \in hypotheses}
  BY DEF Verifier
<1> DEFINE C(h) == Check(h, reading[h], evidence)
<1>2. hypotheses = Propose(evidence)
  BY DEF Verifier, At, AnswerInv
<1>3. \A h : C(h).cause = h.cause /\ (C(h).opposed => ~C(h).supported)
  BY DEF Check
<1>4. claims' = {C(h) : h \in hypotheses}
  BY <1>1
<1> HIDE DEF C
<1>5. Supports(claims') = Supports(hypotheses)
  BY <1>3, <1>4 DEF Supports
<1>6. ASSUME gaps' = {} PROVE Unopposed'
  <2>1. \A claim \in claims' : ~Rejected(claim)
    BY ZenonT(40), <1>6 DEF Verifier
  <2>2. \A claim \in claims' : claim.opposed => ~claim.supported
    BY <1>3, <1>4
  <2> QED
    BY <2>1, <2>2 DEF Unopposed, Rejected
<1> QED
  BY <1>2, <1>5, <1>6, ProposedCauses

LEMMA AnswerStep ==
  ASSUME Inv, AnswerInv, [Next]_vars
  PROVE  AnswerInv'
<1> /\ iteration \in 0..MaxIterations
    /\ timed_out \in BOOLEAN /\ error \in BOOLEAN
    /\ report.written => pc \in {"critic", "end", "failed"}
  BY DEF Inv, TypeOK, DraftInv
<1> USE DEF AnswerInv, Excused
<1>1. CASE Planner
  BY <1>1 DEF Planner, At, Inv, LoopInv, gathered, judged, written
<1>2. CASE InvestigateLate
  BY <1>2 DEF InvestigateLate, At, judged, written
<1>3. CASE Investigate
  BY <1>3 DEF Investigate, At, gathered, judged, written
<1>4. CASE RunTask \/ FailTask
  BY <1>4 DEF RunTask, FailTask, gathered, judged, written
<1>5. CASE CutShort
  BY <1>5 DEF CutShort, judged, written
<1>6. CASE Leave
  BY <1>6 DEF Leave, judged, written
<1>7. CASE Aggregate \/ Refine
  BY <1>7 DEF Aggregate, Refine, At, gathered, judged, written, Inv, LoopInv
<1>8. CASE Sufficiency
  <2>1. /\ pc = "sufficiency"
        /\ UNCHANGED <<visit, iteration, evidence, timed_out, error, hypotheses, claims, report>>
    BY <1>8 DEF Sufficiency, At, gathered, written
  <2>2. \/ pc' = "incident_risk" /\ sufficiency'.sufficient /\ ~timed_out /\ ~error
        \/ pc' = "refine" /\ ~timed_out /\ ~error
        \/ pc' = "writer" /\ (timed_out \/ error)
        \/ pc' = "writer" /\ ~sufficiency'.sufficient /\ iteration = MaxIterations
    BY <1>8 DEF Sufficiency, RouteAfterSufficiency, Verdict
  <2> QED
    BY <2>1, <2>2
<1>9. CASE IncidentRisk
  BY <1>9 DEF IncidentRisk, At, gathered, written
<1>10. CASE Verifier
  <2>1. /\ pc = "verifier"
        /\ UNCHANGED <<visit, iteration, evidence, timed_out, error, sufficiency, report>>
    BY <1>10 DEF Verifier, At, gathered, written
  <2>2. \/ pc' = "refine" /\ ~timed_out /\ ~error
        \/ pc' = "writer" /\ (iteration = MaxIterations \/ gaps' = {})
    BY <1>10, <2>1 DEF Verifier, RouteAfterVerifier
  <2>3. Suggested(evidence)' = Suggested(evidence)
    BY <2>1
  <2>4. Supports(claims)' = Supports(claims')
    OBVIOUS
  <2> QED
    BY <1>10, <2>1, <2>2, <2>3, <2>4, VerifierAnswers DEF Inv
<1>11. CASE Writer \/ Critic \/ RecursionError \/ Expire \/ UNCHANGED vars
  <2>1. /\ UNCHANGED <<visit, iteration, evidence, timed_out, error, sufficiency, hypotheses, claims>>
        /\ Unopposed' = Unopposed
    BY <1>11 DEF Writer, Critic, RecursionError, Expire, vars, gathered, judged, Unopposed, Rejected
  <2>2. \/ pc = "writer" /\ pc' = "critic"
        \/ pc = "critic" /\ pc' = "end" /\ report' = report
        \/ pc' \in {pc, "failed"} /\ report' = report
    BY <1>11, CriticApproves DEF Writer, Critic, At, RecursionError, Expire, vars, written
  <2> QED
    BY <2>1, <2>2 DEF Inv, DraftInv
<1> QED
  BY <1>1, <1>2, <1>3, <1>4, <1>5, <1>6, <1>7, <1>8, <1>9, <1>10, <1>11
     DEF Next, Work, Terminating

-----------------------------------------------------------------------------
(* Theorems about reports *)

FullInv == Inv /\ EvidenceInv /\ MerchantInv /\ AnswerInv

LEMMA FullInvariance == Spec => []FullInv
<1>1. Init => FullInv
  <2> SUFFICES ASSUME Init PROVE EvidenceInv /\ MerchantInv /\ AnswerInv
    BY Initially DEF FullInv
  <2> QED
    BY DEF Init, NoVisit, NoReport, EvidenceInv, MerchantInv, AnswerInv
<1>2. FullInv /\ [Next]_vars => FullInv'
  BY InvStep, EvidenceStep, MerchantStep, AnswerStep DEF FullInv, Inv
<1> QED
  BY <1>1, <1>2, PTL DEF Spec

LEMMA Honest == FullInv => ReportIsHonest
<1> SUFFICES ASSUME FullInv, report.established PROVE ReportIsHonest
  BY DEF ReportIsHonest
<1>1. report.written /\ report = Draft
  BY DEF FullInv, Inv, DraftInv, NoReport
<1>2. Established
  BY <1>1 DEF Draft
<1>3. sufficiency.sufficient /\ ~timed_out /\ ~error
  BY <1>2 DEF Established
<1>4. plan # {} /\ Missing(evidence) = {}
  BY <1>3 DEF FullInv, EvidenceInv
<1>5. Supports(claims) = Suggested(evidence)
  BY <1>1, <1>3 DEF FullInv, AnswerInv
<1> QED
  BY <1>2, <1>3, <1>4, <1>5 DEF ReportIsHonest, Established, Supports

\* A report that calls its evidence sufficient has covered the plan, and no
\* critical claim about that evidence was rejected (WriterAgent.write).
THEOREM ReportsAreHonest == Spec => []ReportIsHonest
  BY Honest, FullInvariance, PTL

\* Every id a claim or a report cites resolves (VerifierAgent, _merge_evidence).
THEOREM CitationsAlwaysResolve == Spec => []CitationsResolve
<1>1. FullInv => CitationsResolve
  <2> SUFFICES ASSUME FullInv PROVE report.cites \subseteq report.refs
    BY DEF FullInv, EvidenceInv, CitationsResolve
  <2>1. CASE report.written
    BY <2>1, NamedTyped DEF FullInv, Inv, TypeOK, DraftInv, Draft
  <2>2. CASE ~report.written
    BY <2>2 DEF FullInv, Inv, DraftInv, NoReport
  <2> QED
    BY <2>1, <2>2
<1> QED
  BY <1>1, FullInvariance, PTL

\* No run gives up before its time, its tools or its visits are spent
\* (route_after_sufficiency, route_after_verifier).
THEOREM GivingUpIsExcused == Spec => []GivesUpForAReason
<1>1. FullInv => GivesUpForAReason
  <2> SUFFICES ASSUME FullInv, pc = "end", ~report.established, ~Excused PROVE FALSE
    BY DEF GivesUpForAReason, Excused, FullInv, AnswerInv
  <2>1. report.written /\ report = Draft
    BY DEF FullInv, Inv, DraftInv
  <2>2. sufficiency.sufficient /\ Unopposed
    BY <2>1 DEF FullInv, AnswerInv
  <2>3. Established
    BY <2>2 DEF Excused, Established, Unopposed
  <2> QED
    BY <2>1, <2>3 DEF Draft
<1> QED
  BY <1>1, FullInvariance, PTL

\* A task queued by the plan or by a gap is run for the merchant the question
\* is about (PlannerAgent.plan, task_from_gap, _run_task).
THEOREM TasksKnowTheirMerchant == Spec => []TasksKeepTheirMerchant
<1>1. FullInv => TasksKeepTheirMerchant
  <2> SUFFICES ASSUME TypeOK, MerchantInv, pending \cup visit.todo # {}
               PROVE  /\ MerchantAtHand = PlanMerchant(question)
                      /\ (pending \cup visit.todo) \cap NeedsMerchant # {}
                           => MerchantAtHand \in Merchants
    BY DEF FullInv, Inv, TasksKeepTheirMerchant
  <2>1. MerchantAtHand = PlanMerchant(question)
    BY DEF MerchantInv, MerchantAtHand
  <2>2. PlanMerchant(question) \in Merchants \cup {NoMerchant}
    BY MerchantTyped DEF TypeOK
  <2>3. (pending \cup visit.todo) \cap NeedsMerchant # {}
          => PlanMerchant(question) # NoMerchant
    BY DEF MerchantInv
  <2> QED
    BY <2>1, <2>2, <2>3
<1> QED
  BY <1>1, FullInvariance, PTL

\* A kind of evidence once found stays found, and a verdict of "sufficient"
\* stands (SufficiencyAgent.evaluate, _merge_evidence).
THEOREM EvidenceIsKept == Spec => SufficiencyIsNeverLost
<1>1. FullInv /\ [Next]_vars =>
        [/\ Present(evidence) \subseteq Present(evidence')
         /\ sufficiency.sufficient => sufficiency'.sufficient]_vars
  <2> SUFFICES ASSUME FullInv, [Next]_vars, sufficiency.sufficient
               PROVE  sufficiency'.sufficient
    BY EvidenceGrows DEF FullInv, Inv
  <2>1. CASE Sufficiency
    <3>1. plan # {} /\ Missing(evidence) = {}
      BY DEF FullInv, EvidenceInv
    <3> QED
      BY <2>1, <3>1 DEF Sufficiency, Verdict
  <2>2. CASE ~Sufficiency
    BY <2>2 DEF Next, Work, Planner, InvestigateLate, Investigate, RunTask, FailTask, CutShort,
                Leave, Aggregate, Refine, IncidentRisk, Verifier, Writer, Critic, RecursionError,
                Expire, Terminating, vars, judged
  <2> QED
    BY <2>1, <2>2
<1> QED
  BY <1>1, FullInvariance, PTL DEF Spec, SufficiencyIsNeverLost

-----------------------------------------------------------------------------
(* Refinement *)

Asked == {SourceFor(task) : task \in plan}

Answer == IF pc # "end" THEN "none"
          ELSE IF report.established THEN "established" ELSE "insufficient"

LEMMA SourcesTyped == \A task \in TaskTypes : SourceFor(task) \in Sources
  BY DEF TaskTypes, SourceFor, Sources

LEMMA InquiryStep ==
  ASSUME FullInv, [Next]_vars
  PROVE  [Abstract!InquiryNext]_Abstract!inquiryVars
<1> /\ iteration \in 0..MaxIterations
    /\ evidence \subseteq EvidenceItem
    /\ pc # "planner" => plan # {}
  BY DEF FullInv, Inv, TypeOK, EvidenceInv
<1>0. TypeOK'
  BY TypeStep DEF FullInv, Inv
<1>a. Present(evidence') \subseteq Sources
  BY <1>0 DEF TypeOK, Present, EvidenceItem
<1>b. Present(evidence) \subseteq Present(evidence')
  BY EvidenceGrows DEF FullInv, Inv
<1>1. CASE Planner
  <2>1. /\ Asked = {} /\ Asked' # {} /\ Asked' \subseteq Sources
        /\ UNCHANGED <<iteration, evidence>> /\ pc = "planner" /\ pc' = "investigate"
    BY <1>1, PlanNotEmpty, PlanTyped, SourcesTyped
       DEF Planner, At, gathered, Asked, FullInv, EvidenceInv
  <2>2. Abstract!Ask
    BY <2>1 DEF Abstract!Ask, Asked
  <2> QED
    BY <2>2 DEF Abstract!InquiryNext
<1>2. CASE InvestigateLate \/ CutShort \/ Leave
  <2>1. /\ Asked # {} /\ Asked' = Asked
        /\ iteration' = iteration + 1 /\ iteration < MaxIterations
        /\ pc # "end" /\ pc' # "end"
    BY <1>2 DEF InvestigateLate, CutShort, Leave, At, Asked, FullInv, Inv, LoopInv
  <2>2. Abstract!Visit
    BY <1>a, <1>b, <2>1 DEF Abstract!Visit, Asked
  <2> QED
    BY <2>2 DEF Abstract!InquiryNext
<1>3. CASE Critic
  <2>1. /\ pc = "critic" /\ pc' = "end" /\ report' = report
        /\ UNCHANGED <<plan, iteration, evidence>>
    BY <1>3, CriticApproves DEF Critic, At, gathered, FullInv
  <2>2. iteration > 0
    BY <2>1 DEF FullInv, AnswerInv
  <2>3. report.established => Asked \subseteq Present(evidence)
    BY Honest DEF ReportIsHonest, Missing, Asked
  <2>4. Abstract!Conclude
    BY <2>1, <2>2, <2>3 DEF Abstract!Conclude, Asked
  <2> QED
    BY <2>4 DEF Abstract!InquiryNext
<1>4. CASE ~Planner /\ ~InvestigateLate /\ ~CutShort /\ ~Leave /\ ~Critic
  <2>1. UNCHANGED <<plan, iteration, evidence, Answer>>
    BY <1>4 DEF Next, Work, Investigate, RunTask, FailTask, Aggregate, Sufficiency,
           RouteAfterSufficiency, Refine, IncidentRisk, Verifier, RouteAfterVerifier, Writer, At,
           RecursionError, Expire, Terminating, vars, gathered, written, Answer
  <2> QED
    BY <2>1 DEF Abstract!inquiryVars, Answer
<1> QED
  BY <1>1, <1>2, <1>3, <1>4

\* A run of the graph is an inquiry: bounded visits, nothing found is lost, one
\* answer, established only when everything asked for was found.
THEOREM GraphImplementsInquiry == Spec => ImplementsInquiry
<1>1. Init => Abstract!InquiryInit
  BY DEF Init, Abstract!InquiryInit, Present
<1> QED
  BY <1>1, InquiryStep, FullInvariance, PTL DEF Spec, ImplementsInquiry, Abstract!InquirySpec

=============================================================================
