------------------------ MODULE AgenticRagProperties ------------------------
(***************************************************************************)
(* What module AgenticRag is checked against.                              *)
(***************************************************************************)
EXTENDS AgenticRag

Rounds(c) == IF c.max_iterations > 1 THEN c.max_iterations ELSE 1

\* Each round of the loop asks a new query, there are at most max_iterations
\* of them (and at least one), evidence once kept stays, and the verdict is
\* given once.
Abstract == INSTANCE Search WITH
  limit <- Rounds(call),
  asked <- used,
  count <- index,
  found <- Kept(kept),
  verdict <- result

ImplementsSearch == Abstract!SearchSpec

\* A result that calls itself sufficient keeps a chunk for every error code
\* and topic of the question, as many as were asked for, and no two of them
\* stand for codes that exclude each other both ways (ADR-009, step 4).
SufficientMeansCovered ==
  result = "sufficient" =>
    /\ \A code \in call.codes : \E chunk \in Kept(kept) : code \in About[chunk].mentions
    /\ \A hint \in ToSet(TopicHints) : hint.topic \in call.topics =>
         \E chunk \in Kept(kept) :
           IF hint.doc_type = AnyType THEN hint.topic \in About[chunk].mentions
           ELSE About[chunk].doc_type = hint.doc_type
    /\ Cardinality(Kept(kept)) >= call.min_kept
    /\ \A first, second \in Kept(kept) :
         ~(Opposed(first, second) /\ Opposed(second, first))

\* The queries that are about a facet, whoever words them.
Template(facet) ==
  IF facet \in ToSet(ErrorCodes) THEN ToSet(CodeSeeds(facet)) \cup ToSet(CodeRewrites(facet))
  ELSE {Query("hint", facet, DocType(facet))}

\* A question without a facet of which no chunk is wanted: the loop has all it
\* needs before it starts.
NothingWanted == call.min_kept = 0 /\ call.codes \cup call.topics = {}

\* The loop gives up before its cap only when nothing is left to ask: every
\* query of the researcher has been made, every template of every facet still
\* missing, and after an empty round the question, and the last query, without
\* a document type.
GivesUpOnlyWhenOut ==
  pc = "done" /\ result = "insufficient" /\ index < call.max_iterations /\ ~NothingWanted =>
    /\ Queries(FormulateQueries(call)) \subseteq used
    /\ \A facet \in missing : Template(facet) \subseteq used
    /\ empty => [current EXCEPT !.doc_type = AnyType] \in used
    /\ empty => \E query \in used : query.form \in {"question", "expanded"} /\ query.doc_type = AnyType

=============================================================================
