----------------------------- MODULE AgenticRag -----------------------------
(***************************************************************************)
(* The bounded retrieval loop of packages/payops_core/rag: search, judge,  *)
(* rewrite, until the facets of the question are covered, no query is left *)
(* or the rounds are used up; and ResearcherAgent, which words the first   *)
(* queries.  One action per round, rewrite and conclusion.                 *)
(*                                                                         *)
(* A query's wording is a form and what the form is filled with: two       *)
(* queries are equal for the loop when form, filling and document type     *)
(* are.  A question is what analyze_query makes of it.  Which chunks a     *)
(* search returns, and how the judge scores them, is free.                 *)
(***************************************************************************)
EXTENDS Naturals, Sequences, FiniteSets, FiniteSetsExt, SequencesExt

CONSTANTS
  Chunks,      \* chunks of the corpus
  About,       \* doc_type, wording and place of each chunk
  Calls,       \* the calls of ResearcherAgent.research
  TopK,        \* hits of one search
  MaxScore     \* scores of kept hits are 1..MaxScore

ErrorCodes == <<"GATEWAY_TIMEOUT", "INSUFFICIENT_FUNDS", "DO_NOT_HONOR",
                "AUTHENTICATION_FAILED", "WEBHOOK_TIMEOUT">>

AnyType == "any"     \* no doc_type

TopicHints ==
  <<[topic |-> "webhook", doc_type |-> "webhook_docs"],
    [topic |-> "refund", doc_type |-> "refund_policy"],
    [topic |-> "dispute", doc_type |-> "api_docs"],
    [topic |-> "settlement", doc_type |-> AnyType],
    [topic |-> "runbook", doc_type |-> "runbook"],
    [topic |-> "lifecycle", doc_type |-> AnyType],
    [topic |-> "timeout", doc_type |-> "runbook"]>>

\* Every other code against a gateway timeout, but a webhook timeout is only
\* opposed to it in one direction.
OppositeCodes ==
  [code \in ToSet(ErrorCodes) |->
     IF code = "GATEWAY_TIMEOUT"
     THEN {"INSUFFICIENT_FUNDS", "DO_NOT_HONOR", "AUTHENTICATION_FAILED"}
     ELSE {"GATEWAY_TIMEOUT"}]

Topics == {hint.topic : hint \in ToSet(TopicHints)}

\* What reaches the loop: the question's facets, whether the glossary changed
\* its wording, and the two limits. (The graph passes the planner's query as
\* the question, so that query is never one more.)
Call ==
  [codes: SUBSET ToSet(ErrorCodes), topics: SUBSET Topics, glossary: BOOLEAN,
   max_iterations: Nat, min_kept: Nat]

\* The words of a chunk that a facet may be found in, the one code it stands
\* for ("none" if none), the document and section it is from.
Chunk ==
  [doc_type: STRING, mentions: SUBSET (ToSet(ErrorCodes) \cup Topics),
   primary: ToSet(ErrorCodes) \cup {"none"}, place: STRING]

ASSUME ChunksAssumption == IsFiniteSet(Chunks) /\ About \in [Chunks -> Chunk]
ASSUME CallsAssumption == Calls \subseteq Call
ASSUME LimitsAssumption == TopK \in Nat /\ MaxScore \in Nat

VARIABLES
  pc,        \* next step of the loop
  call,      \* what it was called with
  current,   \* the query of this round
  used,      \* queries made
  index,     \* rounds made
  kept,      \* best score of each chunk that was kept, 0 if none
  decision,  \* decision of the last round
  missing,   \* facets nothing kept covers
  empty,     \* the last round kept nothing
  result     \* verdict of the AgenticRagResult

vars == <<pc, call, current, used, index, kept, decision, missing, empty, result>>

-----------------------------------------------------------------------------
(* Queries *)

Query(form, about, doc_type) == [form |-> form, about |-> about, doc_type |-> doc_type]

\* Queries are kept in a list of choices, the preferred one first: each is a
\* set of the one query that may be asked there, or of none.
Queries(choices) == UNION ToSet(choices)

Expanded(c) == IF c.glossary THEN "expanded" ELSE "question"

DocType(topic) ==
  (CHOOSE hint \in ToSet(TopicHints) : hint.topic = topic).doc_type

\* The doc_type of the only topic, for the queries that name none.
Inferred(c) ==
  IF Cardinality(c.topics) = 1 THEN DocType(CHOOSE topic \in c.topics : TRUE) ELSE AnyType

HintQueries(topics) ==
  [i \in DOMAIN TopicHints |->
     {Query("hint", topic, TopicHints[i].doc_type) : topic \in topics \cap {TopicHints[i].topic}}]

CodeSeeds(code) == <<Query("code", code, "error_codes"), Query("incident", code, "runbook")>>

CodeRewrites(code) == <<Query("incident", code, "error_codes"), Query("runbook", code, "runbook")>>

\* Two choices for each error code, in the order of the codes.
CodeChoices == 1..(2 * Len(ErrorCodes))

CodeOf(choice) == ErrorCodes[(choice + 1) \div 2]

TurnOf(choice) == IF choice % 2 = 1 THEN 1 ELSE 2

SeedsOf(codes) ==
  [choice \in CodeChoices |->
     {CodeSeeds(code)[TurnOf(choice)] : code \in codes \cap {CodeOf(choice)}}]

RewritesOf(codes) ==
  [choice \in CodeChoices |->
     {CodeRewrites(code)[TurnOf(choice)] : code \in codes \cap {CodeOf(choice)}}]

OwnWords(c) ==
  <<{Query("question", "it", Inferred(c))},
    {Query(form, "it", Inferred(c)) : form \in {Expanded(c)} \ {"question"}}>>

FormulateQueries(c) == SeedsOf(c.codes) \o HintQueries(c.topics) \o OwnWords(c)

\* Templates for the missing facets, then broader queries after a round that
\* kept nothing, and the question itself where there is nothing else.
FacetRewrites == RewritesOf(missing) \o HintQueries(missing)

Broader ==
  IF ~empty THEN <<>>
  ELSE <<{Query(Expanded(call), "it", AnyType)}, {[current EXCEPT !.doc_type = AnyType]} \ {current}>>

Fallback ==
  IF Queries(FacetRewrites \o Broader) = {} /\ current.form # "question"
  THEN <<{Query("question", "it", AnyType)}>>
  ELSE <<>>

\* Everything rewrite_query may return, in its order of preference.
Candidates == FormulateQueries(call) \o FacetRewrites \o Broader \o Fallback

\* Variant: a query that was just made is unused.
UnusedButLast(query) == query = current \/ query \notin used

Unused(query) == query \notin used

FirstUnused(choices, query) ==
  \E i \in DOMAIN choices :
    /\ query \in choices[i]
    /\ Unused(query)
    /\ \A j \in 1..(i - 1) : \A other \in choices[j] : ~Unused(other)

-----------------------------------------------------------------------------
(* The judge *)

\* What a search may return: at most TopK chunks, of the type asked for.
Results(query) ==
  {S \in SUBSET {chunk \in Chunks : query.doc_type \in {AnyType, About[chunk].doc_type}} :
     Cardinality(S) <= TopK}

\* What relevance_score may make of them: those below the vector floor or
\* without a common word are rejected, the others get a score.
Judged(hits) == UNION {[good -> 1..MaxScore] : good \in SUBSET hits}

Kept(scores) == {chunk \in Chunks : scores[chunk] > 0}

\* A chunk found again keeps the better of its scores.
Merge(scores) ==
  [chunk \in Chunks |->
     IF chunk \in DOMAIN scores /\ scores[chunk] > kept[chunk]
     THEN scores[chunk] ELSE kept[chunk]]

\* Variant: a topic with a type of its own is not looked for.
CoversAnyTopic(chunk, facet) ==
  (facet \in Topics /\ DocType(facet) # AnyType) \/ facet \in About[chunk].mentions

\* Any chunk of the topic's type covers a topic that has one; otherwise, and
\* for a code, the text must name it.
Covers(chunk, facet) ==
  IF facet \in Topics /\ DocType(facet) # AnyType
  THEN About[chunk].doc_type = DocType(facet)
  ELSE facet \in About[chunk].mentions

MissingFacets(chunks) ==
  {facet \in call.codes \cup call.topics : \A chunk \in chunks : ~Covers(chunk, facet)}

DocsSufficient(chunks) ==
  Cardinality(chunks) >= call.min_kept /\ MissingFacets(chunks) = {}

LastRound == index' >= call.max_iterations

\* Two chunks of different places whose codes exclude each other, the first
\* ranked before the second.
Opposed(first, second) ==
  /\ About[first].primary # "none"
  /\ About[second].primary \in OppositeCodes[About[first].primary]
  /\ About[first].place # About[second].place

\* Ranked by score: a pair with equal scores may stand in either order.
MayConflict ==
  \E first, second \in Kept(kept) :
    kept[first] >= kept[second] /\ Opposed(first, second)

MustConflict ==
  \E first, second \in Kept(kept) :
    /\ Opposed(first, second)
    /\ kept[first] > kept[second] \/ Opposed(second, first)

-----------------------------------------------------------------------------
(* Actions *)

\* One round: retrieve, score, keep, look for missing facets, decide.
Search ==
  /\ pc = "search"
  /\ used' = used \cup {current}
  /\ index' = index + 1
  /\ \E hits \in Results(current) :
       \E scores \in Judged(hits) :
         /\ kept' = Merge(scores)
         /\ missing' = MissingFacets(Kept(kept'))
         /\ empty' = (DOMAIN scores = {})
         /\ \/ /\ DocsSufficient(Kept(kept'))
               /\ decision' = "sufficient"
               /\ pc' = "conclude"
            \/ /\ ~DocsSufficient(Kept(kept')) /\ LastRound
               /\ decision' = (IF hits = {} THEN "no_results" ELSE "exhausted")
               /\ pc' = "conclude"
            \/ /\ ~DocsSufficient(Kept(kept')) /\ ~LastRound
               /\ decision' = "rewrite"
               /\ pc' = "rewrite"
  /\ UNCHANGED <<call, current, result>>

\* The embedder or the vector store raises; nothing of the loop is returned.
SearchFails ==
  /\ pc = "search"
  /\ pc' = "done"
  /\ result' = "failed"
  /\ UNCHANGED <<call, current, used, index, kept, decision, missing, empty>>

Rewrite ==
  /\ pc = "rewrite"
  /\ FirstUnused(Candidates, current')
  /\ pc' = "search"
  /\ UNCHANGED <<call, used, index, kept, decision, missing, empty, result>>

\* Variant: the loop stops as soon as the queries of the researcher are used.
NothingLeftOfSeeds ==
  /\ pc = "rewrite"
  /\ \A query \in Queries(FormulateQueries(call)) : ~Unused(query)
  /\ pc' = "conclude"
  /\ decision' = "exhausted"
  /\ UNCHANGED <<call, current, used, index, kept, missing, empty, result>>

NothingLeft ==
  /\ pc = "rewrite"
  /\ \A query \in Queries(Candidates) : ~Unused(query)
  /\ pc' = "conclude"
  /\ decision' = "exhausted"
  /\ UNCHANGED <<call, current, used, index, kept, missing, empty, result>>

\* Citations are the kept chunks; sources that oppose each other are flagged.
Conclude ==
  /\ pc = "conclude"
  /\ pc' = "done"
  /\ \/ MayConflict /\ result' = "conflicting"
     \/ ~MustConflict /\ decision = "sufficient" /\ Kept(kept) # {}
          /\ result' = "sufficient"
     \/ ~MustConflict /\ (decision # "sufficient" \/ Kept(kept) = {})
          /\ result' = "insufficient"
  /\ UNCHANGED <<call, current, used, index, kept, decision, missing, empty>>

-----------------------------------------------------------------------------
(* Specification *)

Init ==
  /\ pc = "search"
  /\ call \in Calls
  /\ used = {}
  /\ FirstUnused(FormulateQueries(call), current)
  /\ index = 0
  /\ kept = [chunk \in Chunks |-> 0]
  /\ decision = "none"
  /\ missing = {}
  /\ empty = FALSE
  /\ result = "none"

Ended == pc = "done"

Terminating == Ended /\ UNCHANGED vars

Loop == Search \/ SearchFails \/ Rewrite \/ NothingLeft \/ Conclude

Next == Loop \/ Terminating

Spec == Init /\ [][Next]_vars

=============================================================================
