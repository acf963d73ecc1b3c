------------------------- MODULE InvestigationGraph -------------------------
(***************************************************************************)
(* One run of the LangGraph investigation of packages/payops_core/graph:   *)
(*                                                                         *)
(*   planner -> investigate -> aggregate -> sufficiency                    *)
(*   sufficiency -> refine | incident_risk | writer     refine ->          *)
(*   investigate     incident_risk -> verifier -> refine | writer          *)
(*   writer -> critic -> writer | END                                      *)
(*                                                                         *)
(* one action per node, except that investigate takes a step per task: its *)
(* deadline is read before each of them and every task may fail on its     *)
(* own. What the tools find is chosen freely among the outcomes each tool  *)
(* can have, and what the texts of a cause and of its evidence have in     *)
(* common is chosen freely by the verifier; all decisions are the code's.  *)
(*                                                                         *)
(* A list of tasks or of hypotheses is a set with a rank: the planner and  *)
(* the incident agent always build their lists in the same order, and      *)
(* neither ever holds two members of one kind.                             *)
(***************************************************************************)
EXTENDS Naturals, FiniteSets

CONSTANTS
  Merchants, NoMerchant,
  Questions,       \* what the planner recognises in the questions asked
  MaxIterations,   \* max_iterations: at least 1, at most 8 in a request
  RecursionLimit   \* supersteps LangGraph runs before it raises

Hints == {"health", "integrity", "webhook", "metric", "investigate", "doc"}

\* The hint sets of planner.py a question touches, select_ml_task's decision,
\* the merchant the caller gives and the first one the text names.
Question ==
  [hints: SUBSET Hints,
   ml: {"classification", "regression", "both", "descriptive", "none"},
   given: Merchants \cup {NoMerchant}, named: Merchants \cup {NoMerchant}]

ASSUME MerchantsAssumption == NoMerchant \notin Merchants
ASSUME QuestionsAssumption == Questions \subseteq Question
ASSUME LimitsAssumption ==
  /\ MaxIterations \in Nat \ {0}
  /\ RecursionLimit \in Nat \ {0}

VARIABLES
  pc,           \* the node that runs next
  steps,        \* supersteps taken
  expired,      \* the deadline of GraphRuntime has passed
  question,     \* the question, as the planner sees it
  merchant,     \* the state's merchant_id
  plan,         \* tasks of the plan
  pending,      \* pending_tasks
  carried,      \* the merchant_id each of them carries
  visit,        \* what a running investigate node has collected so far
  evidence,     \* the evidence bundle
  completed,    \* length of completed_task_ids
  iteration,    \* visits to investigate
  timed_out, error,
  sufficiency,  \* the last SufficiencyVerdict
  hypotheses,   \* the last ranking of IncidentRiskAgent
  claims,       \* verified_claims, one for each hypothesis of that ranking
  gaps,         \* the gaps of the last VerificationResult
  report,       \* the last report of the writer
  critique,     \* what the critic thought of it
  revisions     \* critic_revisions

whom == <<merchant, carried>>
gathered == <<evidence, completed, timed_out, error>>
judged == <<sufficiency, hypotheses, claims, gaps>>
written == <<report, critique, revisions>>
vars == <<pc, steps, expired, question, whom, plan, pending, visit, iteration,
          gathered, judged, written>>

-----------------------------------------------------------------------------
(* Tasks and what the tools find *)

TaskTypes == {"retrieve_docs", "query_metrics", "inspect_webhooks",
              "merchant_health", "score_risk", "score_regression",
              "validate_integrity"}

NeedsMerchant == {"merchant_health", "score_risk", "score_regression"}

\* _SOURCE_FOR_TASK
SourceFor(task) ==
  CASE task = "retrieve_docs" -> "doc"
    [] task = "query_metrics" -> "metric"
    [] task = "inspect_webhooks" -> "webhook"
    [] task = "merchant_health" -> "health"
    [] task = "validate_integrity" -> "integrity"
    [] OTHER -> "ml"

Sources == {"doc", "metric", "webhook", "health", "ml", "integrity"}

\* What later nodes look for in an item: a timeout's error code in its text, or
\* the metadata kind, risk_class, passed or error.
Marks == {"plain", "timeout", "delayed", "high", "violated", "error"}

\* One id for each kind of item a tool returns. A score or a check that is
\* run again has the id it had before.
ItemIds == {"doc-faq", "doc-codes", "metric", "webhook-missing", "webhook-delayed",
            "health", "ml", "ml-error-classification", "ml-reg",
            "ml-error-regression", "integrity"}

EvidenceItem == [id: ItemIds, source: Sources, mark: Marks]

Item(id, source, mark) == [id |-> id, source |-> source, mark |-> mark]

\* The items a task that does not raise may return. A search or a webhook
\* query may find nothing; a model that cannot be trained is an error item.
Outcomes(task) ==
  CASE task = "retrieve_docs" ->
         {{}, {Item("doc-faq", "doc", "plain")}, {Item("doc-codes", "doc", "timeout")}}
    [] task = "query_metrics" ->
         {{Item("metric", "metric", "plain")}, {Item("metric", "metric", "timeout")}}
    [] task = "inspect_webhooks" ->
         {{}, {Item("webhook-missing", "webhook", "plain")},
          {Item("webhook-delayed", "webhook", "delayed")}}
    [] task = "merchant_health" -> {{Item("health", "health", "plain")}}
    [] task = "score_risk" ->
         {{Item("ml", "ml", "plain")}, {Item("ml", "ml", "high")},
          {Item("ml-error-classification", "ml", "error")}}
    [] task = "score_regression" ->
         {{Item("ml-reg", "ml", "plain")}, {Item("ml-error-regression", "ml", "error")}}
    [] task = "validate_integrity" ->
         {{Item("integrity", "integrity", "plain")},
          {Item("integrity", "integrity", "violated")}}

Ids(items) == {item.id : item \in items}

\* Variant: the bundle is rebuilt from the new items.
MergeNewOnly(bundle, items) == IF items = {} THEN bundle ELSE items

\* _merge_evidence: a new item replaces an older one with its id.
Merge(bundle, items) == {old \in bundle : old.id \notin Ids(items)} \cup items

\* The sources SufficiencyAgent counts: error items do not.
Present(bundle) == {item.source : item \in {i \in bundle : i.mark # "error"}}

-----------------------------------------------------------------------------
(* PlannerAgent.plan *)

When(condition, tasks) == IF condition THEN tasks ELSE {}

\* A merchant that the text names goes before the one the caller gives.
PlanMerchant(q) == IF q.named # NoMerchant THEN q.named ELSE q.given

Plan(q) ==
  LET concerned == PlanMerchant(q) # NoMerchant
      risk == q.ml \in {"classification", "both"} /\ concerned
      latency == q.ml \in {"regression", "both"} /\ concerned
      metrics == "metric" \in q.hints \/ (concerned /\ "investigate" \in q.hints)
      tools == When(risk, {"score_risk", "query_metrics"})
                 \cup When(latency, {"score_regression"})
                 \cup When("health" \in q.hints /\ concerned, {"merchant_health"})
                 \cup When("integrity" \in q.hints, {"validate_integrity"})
                 \cup When("webhook" \in q.hints, {"inspect_webhooks"})
                 \cup When(metrics, {"query_metrics"})
  IN  tools \cup When("doc" \in q.hints \/ tools = {}, {"retrieve_docs"})

\* The place of a task in the plan: metrics come right after a risk score,
\* otherwise near the end.
TaskRank(task) ==
  CASE task = "score_risk" -> 1
    [] task = "query_metrics" -> IF "score_risk" \in plan THEN 2 ELSE 7
    [] task = "score_regression" -> 3
    [] task = "merchant_health" -> 4
    [] task = "validate_integrity" -> 5
    [] task = "inspect_webhooks" -> 6
    [] task = "retrieve_docs" -> 8

\* The task that is first in the list.
IsNext(task, tasks) ==
  task \in tasks /\ \A other \in tasks : TaskRank(task) <= TaskRank(other)

-----------------------------------------------------------------------------
(* SufficiencyAgent, IncidentRiskAgent, VerifierAgent *)

Missing(bundle) == {task \in plan : SourceFor(task) \notin Present(bundle)}

Causes == {"processor", "model", "integrity", "webhooks", "unknown"}

\* The order in which IncidentRiskAgent.propose lists its hypotheses.
CauseRank(cause) ==
  CASE cause = "processor" -> 1
    [] cause = "model" -> 2
    [] cause = "integrity" -> 3
    [] cause = "webhooks" -> 4
    [] cause = "unknown" -> 5

HasMark(bundle, mark) == \E item \in bundle : item.mark = mark

\* The confidence of a hypothesis, in percent.
Confidence(cause, bundle) ==
  CASE cause = "processor" -> 82
    [] cause = "model" -> 55
    [] cause = "integrity" -> IF HasMark(bundle, "violated") THEN 70 ELSE 75
    [] cause = "webhooks" -> 80
    [] cause = "unknown" -> 20

\* The items a hypothesis cites (the code keeps the first few of them).
Backs(item, cause) ==
  CASE cause = "processor" -> item.mark = "timeout"
    [] cause = "model" -> item.source = "ml"
    [] cause = "integrity" -> item.source = "integrity"
    [] cause = "webhooks" -> item.source = "webhook"
    [] cause = "unknown" -> TRUE

\* The causes the evidence suggests, "unknown" when it suggests none.
Suggested(bundle) ==
  LET named == When(HasMark(bundle, "timeout"), {"processor"})
                 \cup When(HasMark(bundle, "high"), {"model"})
                 \cup When("integrity" \in Present(bundle), {"integrity"})
                 \cup When(HasMark(bundle, "delayed"), {"webhooks"})
  IN  IF named = {} THEN {"unknown"} ELSE named

Propose(bundle) ==
  {[cause |-> cause,
    cites |-> Ids({item \in bundle : Backs(item, cause)}),
    confidence |-> Confidence(cause, bundle)] : cause \in Suggested(bundle)}

\* The first of a list of hypotheses or of claims.
Leads(x, list) ==
  x \in list /\ \A other \in list : CauseRank(x.cause) <= CauseRank(other.cause)

\* How the text of a cause compares with the texts it cites: they share
\* distinctive words or an error code, barely one word, none, or they name an
\* opposite error code.
Readings == {"clear", "thin", "unrelated", "opposite"}

\* Which comparisons the fixed wording of the causes and of the tools' items
\* leaves open. Only "processor" names a code; the first webhook items need
\* not be the delayed ones; a score and an integrity check repeat the words of
\* the cause that cites them.
ReadingsOf(cause) ==
  CASE cause = "processor" -> {"clear", "thin", "opposite"}
    [] cause = "webhooks" -> {"clear", "thin", "unrelated"}
    [] cause = "unknown" -> {"thin", "unrelated"}
    [] OTHER -> {"clear"}

\* VerifierAgent._check, given the reading of the hypothesis.
Check(hypothesis, reading, bundle) ==
  LET known == hypothesis.cites \cap Ids(bundle)
      missing == bundle = {} \/ (hypothesis.cites # {} /\ known = {})
      supported == reading \in {"clear", "thin"} /\ ~missing
  IN  [cause |-> hypothesis.cause,
       cites |-> known,
       confidence |-> hypothesis.confidence,
       supported |-> supported,
       opposed |-> reading = "opposite",
       weak |-> supported /\ (hypothesis.confidence < 40 \/ reading = "thin"),
       critical |-> /\ Leads(hypothesis, hypotheses)
                    /\ hypothesis.confidence >= 60
                    /\ hypothesis.cause # "unknown"]

Rejected(claim) == claim.critical /\ ~claim.supported

\* _gap_for: the task that is to back a claim the verifier rejected.
GapFor(claim) == IF claim.cause = "webhooks" THEN "inspect_webhooks" ELSE "retrieve_docs"

-----------------------------------------------------------------------------
(* WriterAgent and CriticAgent *)

NoReport == [written |-> FALSE, established |-> FALSE, cause |-> "unknown",
             cites |-> {}, refs |-> {}, confidence |-> 0]

AtMost(confidence, bound) == IF confidence < bound THEN confidence ELSE bound

\* Variant: the writer does not look at what the verifier rejected.
EstablishedByCoverage == sufficiency.sufficient /\ ~timed_out /\ ~error

\* Variant: a run that was cut short may still call its report established.
EstablishedThoughLate ==
  sufficiency.sufficient /\ \A claim \in claims : ~Rejected(claim)

\* evidence_sufficient, as WriterAgent.write decides it.
Established ==
  /\ sufficiency.sufficient
  /\ ~timed_out
  /\ ~error
  /\ \A claim \in claims : ~Rejected(claim) /\ ~(claim.critical /\ claim.opposed)

Fallback == [cause |-> "unknown", cites |-> {}, confidence |-> 20]

\* _cause: the first claim the verifier supports, or the fallback. (The code
\* also foresees hypotheses nobody verified; the graph never leaves any.)
Named ==
  LET supported == {claim \in claims : claim.supported}
      first == CHOOSE claim \in supported : Leads(claim, supported)
  IN  IF supported = {} THEN Fallback
      ELSE [cause |-> first.cause, cites |-> first.cites \cap Ids(evidence),
            confidence |-> first.confidence]

ReportConfidence ==
  LET honest == IF Established THEN Named.confidence ELSE AtMost(Named.confidence, 30)
  IN  IF \E claim \in claims : claim.weak THEN AtMost(honest, 40) ELSE honest

Draft ==
  [written |-> TRUE, established |-> Established, cause |-> Named.cause,
   cites |-> Named.cites, refs |-> Ids(evidence), confidence |-> ReportConfidence]

\* What makes CriticAgent.review refuse a report.
Overclaims(r) ==
  /\ r.established
  /\ \E claim \in claims :
       \/ ~claim.supported /\ claim.cause = r.cause /\ r.cause # "unknown"
       \/ Rejected(claim)

Inconsistent(r) ==
  r.confidence > 40 /\ \E claim \in claims : claim.critical /\ claim.opposed

Approves(r) == r.cites \subseteq r.refs /\ ~Overclaims(r) /\ ~Inconsistent(r)

-----------------------------------------------------------------------------
(* The nodes. A node is one superstep of LangGraph. *)

At(node) == pc = node /\ steps < RecursionLimit /\ steps' = steps + 1

\* Variant: the plan's merchant does not become the state's.
PlannerKeepsGiven ==
  /\ At("planner")
  /\ pc' = "investigate"
  /\ plan' = Plan(question)
  /\ pending' = Plan(question)
  /\ carried' = PlanMerchant(question)
  /\ UNCHANGED <<expired, question, merchant, visit, iteration, gathered, judged, written>>

Planner ==
  /\ At("planner")
  /\ pc' = "investigate"
  /\ plan' = Plan(question)
  /\ merchant' = PlanMerchant(question)
  /\ pending' = Plan(question)
  /\ carried' = PlanMerchant(question)
  /\ UNCHANGED <<expired, question, visit, iteration, gathered, judged, written>>

\* Variant: a visit that comes too late is not counted.
InvestigateLateUncounted ==
  /\ At("investigate")
  /\ expired
  /\ pc' = "aggregate"
  /\ pending' = {}
  /\ timed_out' = TRUE
  /\ UNCHANGED <<expired, question, whom, plan, visit, iteration, evidence, completed,
                 error, judged, written>>

\* The deadline has passed before the visit starts: nothing is run.
InvestigateLate ==
  /\ At("investigate")
  /\ expired
  /\ pc' = "aggregate"
  /\ iteration' = iteration + 1
  /\ pending' = {}
  /\ timed_out' = TRUE
  /\ UNCHANGED <<expired, question, whom, plan, visit, evidence, completed, error,
                 judged, written>>

Investigate ==
  /\ At("investigate")
  /\ ~expired
  /\ pc' = "tasks"
  /\ visit' = [todo |-> pending, found |-> evidence, done |-> 0, failed |-> FALSE]
  /\ UNCHANGED <<expired, question, whom, plan, pending, iteration, gathered, judged, written>>

\* The merchant a task is run for: its own, or the state's.
MerchantAtHand == IF carried # NoMerchant THEN carried ELSE merchant

\* A tool answers; one that needs a merchant raises without one.
RunTask ==
  /\ pc = "tasks"
  /\ ~expired
  /\ \E task \in visit.todo :
       /\ IsNext(task, visit.todo)
       /\ task \in NeedsMerchant => MerchantAtHand # NoMerchant
       /\ \E items \in Outcomes(task) :
            visit' = [todo |-> visit.todo \ {task},
                      found |-> Merge(visit.found, items),
                      done |-> visit.done + 1,
                      failed |-> visit.failed]
  /\ UNCHANGED <<pc, steps, expired, question, whom, plan, pending, iteration,
                 gathered, judged, written>>

\* Variant: a tool that raises starts its visit over.
FailAndStartOver ==
  /\ pc = "tasks"
  /\ ~expired
  /\ visit.todo # {}
  /\ visit' = [todo |-> pending, found |-> evidence, done |-> 0, failed |-> TRUE]
  /\ UNCHANGED <<pc, steps, expired, question, whom, plan, pending, iteration,
                 gathered, judged, written>>

\* A tool raises: the failure is noted and the visit goes on.
FailTask ==
  /\ pc = "tasks"
  /\ ~expired
  /\ \E task \in visit.todo :
       /\ IsNext(task, visit.todo)
       /\ visit' = [todo |-> visit.todo \ {task}, found |-> visit.found,
                    done |-> visit.done, failed |-> TRUE]
  /\ UNCHANGED <<pc, steps, expired, question, whom, plan, pending, iteration,
                 gathered, judged, written>>

\* The deadline passed between two tasks: what was found so far is kept, the
\* failures are not reported.
CutShort ==
  /\ pc = "tasks"
  /\ expired
  /\ visit.todo # {}
  /\ pc' = "aggregate"
  /\ iteration' = iteration + 1
  /\ pending' = visit.todo
  /\ evidence' = visit.found
  /\ completed' = completed + visit.done
  /\ timed_out' = TRUE
  /\ UNCHANGED <<steps, expired, question, whom, plan, visit, error, judged, written>>

\* Variant: one failed task is enough to give the investigation up.
LeaveWithAnyFailure ==
  /\ pc = "tasks"
  /\ visit.todo = {}
  /\ pc' = "aggregate"
  /\ iteration' = iteration + 1
  /\ pending' = {}
  /\ evidence' = visit.found
  /\ completed' = completed + visit.done
  /\ error' = (error \/ visit.failed)
  /\ UNCHANGED <<steps, expired, question, whom, plan, visit, timed_out, judged, written>>

\* All tasks were tried; it is an error only when none of them succeeded.
Leave ==
  /\ pc = "tasks"
  /\ visit.todo = {}
  /\ pc' = "aggregate"
  /\ iteration' = iteration + 1
  /\ pending' = {}
  /\ evidence' = visit.found
  /\ completed' = completed + visit.done
  /\ error' = (error \/ (visit.failed /\ visit.done = 0))
  /\ UNCHANGED <<steps, expired, question, whom, plan, visit, timed_out, judged, written>>

\* The evidence was merged task by task already.
Aggregate ==
  /\ At("aggregate")
  /\ pc' = "sufficiency"
  /\ UNCHANGED <<expired, question, whom, plan, pending, visit, iteration, gathered,
                 judged, written>>

Verdict ==
  IF plan = {} THEN [sufficient |-> FALSE, missing |-> {"retrieve_docs"}]
  ELSE [sufficient |-> Missing(evidence) = {}, missing |-> Missing(evidence)]

\* Variant: insufficient evidence always goes back for more.
RouteWithoutCap(verdict) ==
  IF timed_out \/ error THEN "writer"
  ELSE IF verdict.sufficient THEN "incident_risk" ELSE "refine"

RouteAfterSufficiency(verdict) ==
  CASE timed_out \/ error -> "writer"
    [] ~timed_out /\ ~error /\ verdict.sufficient -> "incident_risk"
    [] OTHER -> IF iteration >= MaxIterations THEN "writer" ELSE "refine"

Sufficiency ==
  /\ At("sufficiency")
  /\ sufficiency' = Verdict
  /\ pc' = RouteAfterSufficiency(Verdict)
  /\ UNCHANGED <<expired, question, whom, plan, pending, visit, iteration, gathered,
                 hypotheses, claims, gaps, written>>

\* Pending tasks are kept, otherwise the gaps found since are queued, and a
\* task made of a gap carries no merchant.
Refine ==
  /\ At("refine")
  /\ pc' = "investigate"
  /\ pending' = IF pending # {} THEN pending ELSE sufficiency.missing \cup gaps
  /\ carried' = IF pending # {} THEN carried ELSE NoMerchant
  /\ UNCHANGED <<expired, question, merchant, plan, visit, iteration, gathered, judged, written>>

IncidentRisk ==
  /\ At("incident_risk")
  /\ pc' = "verifier"
  /\ hypotheses' = Propose(evidence)
  /\ UNCHANGED <<expired, question, whom, plan, pending, visit, iteration, gathered,
                 sufficiency, claims, gaps, written>>

RouteAfterVerifier(needsMore) ==
  IF needsMore /\ ~timed_out /\ ~error /\ iteration < MaxIterations
  THEN "refine" ELSE "writer"

Verifier ==
  /\ At("verifier")
  /\ \E reading \in [hypotheses -> Readings] :
       /\ \A h \in hypotheses : reading[h] \in ReadingsOf(h.cause)
       /\ claims' = {Check(h, reading[h], evidence) : h \in hypotheses}
  /\ gaps' = {GapFor(claim) : claim \in {c \in claims' : Rejected(c)}}
  /\ pc' = RouteAfterVerifier(gaps' # {})
  /\ UNCHANGED <<expired, question, whom, plan, pending, visit, iteration, gathered,
                 sufficiency, hypotheses, written>>

\* A second draft counts as a revision.
Writer ==
  /\ At("writer")
  /\ pc' = "critic"
  /\ report' = Draft
  /\ revisions' = IF critique.made THEN revisions + 1 ELSE revisions
  /\ UNCHANGED <<expired, question, whom, plan, pending, visit, iteration, gathered,
                 judged, critique>>

RouteAfterCritic(approved) ==
  IF ~approved /\ revisions < 1 THEN "writer" ELSE "end"

Critic ==
  /\ At("critic")
  /\ critique' = [made |-> TRUE, approved |-> Approves(report)]
  /\ pc' = RouteAfterCritic(Approves(report))
  /\ UNCHANGED <<expired, question, whom, plan, pending, visit, iteration, gathered,
                 judged, report, revisions>>

\* LangGraph gives up: GraphRecursionError, and the caller gets no report.
RecursionError ==
  /\ pc \notin {"tasks", "end", "failed"}
  /\ steps = RecursionLimit
  /\ pc' = "failed"
  /\ UNCHANGED <<steps, expired, question, whom, plan, pending, visit, iteration,
                 gathered, judged, written>>

\* time.monotonic() reaches started_at + timeout_seconds.
Expire ==
  /\ ~expired
  /\ pc \notin {"end", "failed"}
  /\ expired' = TRUE
  /\ UNCHANGED <<pc, steps, question, whom, plan, pending, visit, iteration, gathered,
                 judged, written>>

-----------------------------------------------------------------------------
(* Specification *)

NoVisit == [todo |-> {}, found |-> {}, done |-> 0, failed |-> FALSE]

Init ==
  /\ pc = "planner"
  /\ steps = 0
  /\ expired = FALSE
  /\ question \in Questions
  /\ merchant = question.given
  /\ plan = {}
  /\ pending = {}
  /\ carried = NoMerchant
  /\ visit = NoVisit
  /\ evidence = {}
  /\ completed = 0
  /\ iteration = 0
  /\ timed_out = FALSE
  /\ error = FALSE
  /\ sufficiency = [sufficient |-> FALSE, missing |-> {}]
  /\ hypotheses = {}
  /\ claims = {}
  /\ gaps = {}
  /\ report = NoReport
  /\ critique = [made |-> FALSE, approved |-> FALSE]
  /\ revisions = 0

Work ==
  \/ Planner \/ Investigate \/ InvestigateLate
  \/ RunTask \/ FailTask \/ CutShort \/ Leave
  \/ Aggregate \/ Sufficiency \/ Refine \/ IncidentRisk \/ Verifier
  \/ Writer \/ Critic \/ RecursionError

Ended == pc \in {"end", "failed"}

Terminating == Ended /\ UNCHANGED vars

Next == Work \/ Expire \/ Terminating

Spec == Init /\ [][Next]_vars

\* The graph runs in the thread of its request; the deadline may never pass.
FairSpec == Spec /\ WF_vars(Work)

=============================================================================
