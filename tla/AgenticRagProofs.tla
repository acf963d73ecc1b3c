-------------------------- MODULE AgenticRagProofs --------------------------
(***************************************************************************)
(* Theorems about module AgenticRag: for every corpus, question and limit  *)
(* the loop is a bounded search that never repeats itself, and what it     *)
(* calls sufficient covers the question.                                   *)
(***************************************************************************)
EXTENDS AgenticRagProperties, FiniteSetTheorems, TLAPS

\* The loop asks next what it has not asked, and has a round left for it.
AskInv ==
  /\ index \in Nat
  /\ IsFiniteSet(used)
  /\ Cardinality(used) = index
  /\ pc = "search" => current \notin used /\ index < Rounds(call)
  /\ pc = "rewrite" => index < Rounds(call)

\* What was kept, and what was said of it.
KeptInv ==
  /\ call \in Call
  /\ kept \in [Chunks -> Nat]
  /\ pc # "done" => result = "none"
  /\ pc = "conclude" /\ decision = "sufficient" => DocsSufficient(Kept(kept))
  /\ result = "sufficient" => DocsSufficient(Kept(kept)) /\ ~MustConflict

Inv == AskInv /\ KeptInv

LEMMA InitInv == Init => Inv
<1> SUFFICES ASSUME Init PROVE Inv
  OBVIOUS
<1>1. call \in Call /\ Rounds(call) \in Nat /\ 0 < Rounds(call)
  BY CallsAssumption DEF Init, Call, Rounds
<1> QED
  BY <1>1, FS_EmptySet DEF Init, Inv, AskInv, KeptInv

LEMMA RoundsAreCounted == call \in Call =>
  /\ Rounds(call) \in Nat /\ 0 < Rounds(call)
  /\ \A n \in Nat : n < call.max_iterations => n < Rounds(call)
BY DEF Call, Rounds

\* A chunk that was kept stays kept: its score can only grow.
LEMMA MergeKeeps ==
  ASSUME kept \in [Chunks -> Nat], NEW good \in SUBSET Chunks,
         NEW scores \in [good -> 1..MaxScore]
  PROVE  /\ Merge(scores) \in [Chunks -> Nat]
         /\ \A chunk \in Chunks : kept[chunk] <= Merge(scores)[chunk]
<1>1. ASSUME NEW chunk \in Chunks
      PROVE  Merge(scores)[chunk] \in Nat /\ kept[chunk] <= Merge(scores)[chunk]
  <2>1. CASE chunk \in good /\ scores[chunk] > kept[chunk]
    BY <2>1, LimitsAssumption DEF Merge
  <2>2. CASE ~(chunk \in good /\ scores[chunk] > kept[chunk])
    BY <2>2 DEF Merge
  <2> QED
    BY <2>1, <2>2
<1>2. Merge(scores) = [chunk \in Chunks |-> Merge(scores)[chunk]]
  BY DEF Merge
<1> QED
  BY <1>1, <1>2

\* What a round does, whatever it decides.
LEMMA SearchStep ==
  ASSUME Inv, Search
  PROVE  /\ used' = used \cup {current} /\ current \notin used
         /\ index' = index + 1 /\ index' <= Rounds(call)
         /\ IsFiniteSet(used') /\ Cardinality(used') = index'
         /\ kept' \in [Chunks -> Nat]
         /\ \A chunk \in Chunks : kept[chunk] <= kept'[chunk]
         /\ UNCHANGED <<call, result>>
         /\ pc' \in {"conclude", "rewrite"}
         /\ pc' = "conclude" /\ decision' = "sufficient" => DocsSufficient(Kept(kept'))
         /\ pc' = "rewrite" => index' < call.max_iterations
<1> USE DEF Inv, AskInv, KeptInv
<1>1. /\ used' = used \cup {current} /\ current \notin used
      /\ index' = index + 1
      /\ UNCHANGED <<call, result>>
  BY DEF Search
<1>2. index' <= Rounds(call)
  BY <1>1, RoundsAreCounted DEF Search
<1>3. IsFiniteSet(used') /\ Cardinality(used') = index'
  BY <1>1, FS_AddElement
<1>4. PICK hits \in Results(current) : \E scores \in Judged(hits) : kept' = Merge(scores)
  BY DEF Search
<1>5. PICK scores \in Judged(hits) : kept' = Merge(scores)
  BY <1>4
<1>6. PICK good \in SUBSET hits : scores \in [good -> 1..MaxScore]
  BY <1>5 DEF Judged
<1>7. good \in SUBSET Chunks
  BY <1>4, <1>6 DEF Results
<1>8. kept' \in [Chunks -> Nat] /\ \A chunk \in Chunks : kept[chunk] <= kept'[chunk]
  BY <1>5, <1>6, <1>7, MergeKeeps
<1>9. pc' \in {"conclude", "rewrite"}
  BY DEF Search
<1>10. pc' = "conclude" /\ decision' = "sufficient" => DocsSufficient(Kept(kept'))
  BY DEF Search
<1>11. pc' = "rewrite" => ~LastRound
  BY DEF Search
<1>12. pc' = "rewrite" => index' < call.max_iterations
  BY <1>1, <1>11 DEF LastRound, Call
<1> QED
  BY <1>1, <1>2, <1>3, <1>8, <1>9, <1>10, <1>12

LEMMA SameVerdict ==
  ASSUME UNCHANGED <<call, kept>>
  PROVE  /\ UNCHANGED <<Rounds(call), Kept(kept), DocsSufficient(Kept(kept)), MustConflict>>
BY DEF Rounds, Kept, DocsSufficient, MissingFacets, MustConflict, Opposed, Covers

LEMMA StepInv == Inv /\ [Next]_vars => Inv'
<1> SUFFICES ASSUME Inv, [Next]_vars PROVE Inv'
  OBVIOUS
<1>1. CASE Search
  <2>1. AskInv'
    BY <1>1, SearchStep, RoundsAreCounted DEF Inv, AskInv, KeptInv, Rounds
  <2>2. KeptInv'
    <3>1. call' = call /\ result' = "none" /\ result' = result
      BY <1>1, SearchStep DEF Inv, KeptInv, Search
    <3>2. DocsSufficient(Kept(kept))' <=> DocsSufficient(Kept(kept'))
      BY <3>1 DEF DocsSufficient, MissingFacets, Covers, Kept
    <3> QED
      BY <1>1, <3>1, <3>2, SearchStep DEF Inv, KeptInv
  <2> QED
    BY <2>1, <2>2 DEF Inv
<1>2. CASE Rewrite
  <2>1. current' \notin used
    BY <1>2 DEF Rewrite, FirstUnused, Unused
  <2>2. AskInv'
    BY <1>2, <2>1 DEF Rewrite, Inv, AskInv, Rounds
  <2>3. KeptInv'
    BY <1>2, SameVerdict DEF Rewrite, Inv, KeptInv
  <2> QED
    BY <2>2, <2>3 DEF Inv
<1>3. CASE NothingLeft
  <2>1. AskInv'
    BY <1>3 DEF NothingLeft, Inv, AskInv, Rounds
  <2>2. KeptInv'
    BY <1>3, SameVerdict DEF NothingLeft, Inv, KeptInv
  <2> QED
    BY <2>1, <2>2 DEF Inv
<1>4. CASE SearchFails
  <2>1. AskInv'
    BY <1>4 DEF SearchFails, Inv, AskInv, Rounds
  <2>2. KeptInv'
    BY <1>4, SameVerdict DEF SearchFails, Inv, KeptInv
  <2> QED
    BY <2>1, <2>2 DEF Inv
<1>5. CASE Conclude
  <2>1. AskInv'
    BY <1>5 DEF Conclude, Inv, AskInv, Rounds
  <2>2. result' = "sufficient" => decision = "sufficient" /\ ~MustConflict
    BY <1>5 DEF Conclude
  <2>3. KeptInv'
    BY <1>5, <2>2, SameVerdict DEF Conclude, Inv, KeptInv
  <2> QED
    BY <2>1, <2>3 DEF Inv
<1>6. CASE UNCHANGED vars
  <2>1. AskInv'
    BY <1>6 DEF vars, Inv, AskInv, Rounds
  <2>2. KeptInv'
    BY <1>6, SameVerdict DEF vars, Inv, KeptInv
  <2> QED
    BY <2>1, <2>2 DEF Inv
<1> QED
  BY <1>1, <1>2, <1>3, <1>4, <1>5, <1>6 DEF Next, Loop, Terminating

-----------------------------------------------------------------------------
(* The loop is a bounded search *)

LEMMA FirstSearch == Init => Abstract!SearchInit
<1> SUFFICES ASSUME Init PROVE Abstract!SearchInit
  OBVIOUS
<1>1. Rounds(call) \in Nat
  BY InitInv, RoundsAreCounted DEF Inv, KeptInv
<1>2. Kept(kept) = {}
  BY DEF Init, Kept
<1> QED
  BY <1>1, <1>2 DEF Init, Abstract!SearchInit

LEMMA EveryRoundIsASearch ==
  Inv /\ [Next]_vars => [Abstract!SearchNext]_Abstract!searchVars
<1> SUFFICES ASSUME Inv, [Next]_vars
             PROVE  [Abstract!SearchNext]_Abstract!searchVars
  OBVIOUS
<1>1. CASE Search
  <2>1. UNCHANGED <<Rounds(call), result>> /\ result = "none"
    BY <1>1, SearchStep DEF Search, Inv, KeptInv, Rounds
  <2>2. Kept(kept) \subseteq Kept(kept')
    <3> SUFFICES ASSUME NEW chunk \in Chunks, kept[chunk] > 0 PROVE kept'[chunk] > 0
      BY DEF Kept
    <3>1. kept[chunk] <= kept'[chunk] /\ kept[chunk] \in Nat /\ kept'[chunk] \in Nat
      BY <1>1, SearchStep DEF Inv, KeptInv
    <3> QED
      BY <3>1
  <2>3. index < Rounds(call) /\ index' = index + 1
    BY <1>1, SearchStep DEF Search, Inv, AskInv
  <2>4. \E q \in used' : q \notin used /\ used' = used \cup {q}
    BY <1>1, SearchStep
  <2>5. Kept(kept)' = Kept(kept')
    BY DEF Kept
  <2> QED
    BY <2>1, <2>2, <2>3, <2>4, <2>5
    DEF Abstract!SearchNext, Abstract!AskNew, Abstract!searchVars
<1>2. CASE Rewrite \/ NothingLeft \/ UNCHANGED vars
  <2>1. UNCHANGED <<call, used, index, kept, result>>
    BY <1>2 DEF Rewrite, NothingLeft, vars
  <2> QED
    BY <2>1, SameVerdict DEF Abstract!searchVars
<1>3. CASE SearchFails \/ Conclude
  <2>1. UNCHANGED <<call, used, index, kept>> /\ result = "none"
    BY <1>3 DEF SearchFails, Conclude, Inv, KeptInv
  <2>2. \/ result' = "sufficient" /\ Kept(kept) # {}
        \/ result' \in {"insufficient", "conflicting", "failed"}
    BY <1>3 DEF SearchFails, Conclude
  <2> QED
    BY <2>1, <2>2, SameVerdict DEF Abstract!SearchNext, Abstract!Conclude, Abstract!searchVars
<1> QED
  BY <1>1, <1>2, <1>3 DEF Next, Loop, Terminating

\* For every corpus, question and limits: the loop of rag/loop.py asks at most
\* max_iterations queries, never one twice, loses nothing it kept, and gives
\* one verdict.
THEOREM RagIsABoundedSearch == Spec => ImplementsSearch
<1>1. Init => Inv /\ Abstract!SearchInit
  BY InitInv, FirstSearch
<1>2. Inv /\ [Next]_vars => Inv' /\ [Abstract!SearchNext]_Abstract!searchVars
  BY StepInv, EveryRoundIsASearch
<1> QED
  BY <1>1, <1>2, PTL DEF Spec, ImplementsSearch, Abstract!SearchSpec

-----------------------------------------------------------------------------
(* What it calls sufficient covers the question *)

LEMMA HintTypes ==
  ASSUME NEW hint \in ToSet(TopicHints)
  PROVE  hint.topic \in Topics /\ DocType(hint.topic) = hint.doc_type
<1>1. \A h, g \in ToSet(TopicHints) : h.topic = g.topic => h = g
  BY DEF ToSet, TopicHints, AnyType
<1> QED
  BY <1>1 DEF Topics, DocType

LEMMA CodesAreNoTopics == ToSet(ErrorCodes) \cap Topics = {}
BY DEF ToSet, ErrorCodes, Topics, TopicHints

\* For every corpus, question and limits: a result is called sufficient only
\* if what was kept covers each code and topic of the question, and no two
\* kept chunks exclude each other both ways.
THEOREM SufficientIsCovered == Spec => []SufficientMeansCovered
<1>1. Inv => SufficientMeansCovered
  <2> SUFFICES ASSUME Inv, result = "sufficient" PROVE SufficientMeansCovered
    BY DEF SufficientMeansCovered
  <2>0. call.codes \subseteq ToSet(ErrorCodes) /\ call.min_kept \in Nat
    BY DEF Inv, KeptInv, Call
  <2>1. Cardinality(Kept(kept)) >= call.min_kept
    BY DEF Inv, KeptInv, DocsSufficient
  <2>2. \A facet \in call.codes \cup call.topics : \E chunk \in Kept(kept) : Covers(chunk, facet)
    BY DEF Inv, KeptInv, DocsSufficient, MissingFacets
  <2>3. \A code \in call.codes : \E chunk \in Kept(kept) : code \in About[chunk].mentions
    BY <2>0, <2>2, CodesAreNoTopics DEF Covers
  <2>4. ASSUME NEW hint \in ToSet(TopicHints), hint.topic \in call.topics
        PROVE  \E chunk \in Kept(kept) :
                 IF hint.doc_type = AnyType THEN hint.topic \in About[chunk].mentions
                 ELSE About[chunk].doc_type = hint.doc_type
    BY <2>2, <2>4, HintTypes DEF Covers
  <2>5. \A first, second \in Kept(kept) : ~(Opposed(first, second) /\ Opposed(second, first))
    BY DEF Inv, KeptInv, MustConflict
  <2> QED
    BY <2>1, <2>3, <2>4, <2>5 DEF SufficientMeansCovered
<1> QED
  BY InitInv, StepInv, <1>1, PTL DEF Spec

-----------------------------------------------------------------------------
(* It gives up early only when nothing is left to ask *)

Forms == {"code", "incident", "runbook", "hint", "question", "expanded"}

Types == {"error_codes", "runbook", AnyType} \cup {hint.doc_type : hint \in ToSet(TopicHints)}

AnyQuery == [form : Forms, about : ToSet(ErrorCodes) \cup Topics \cup {"it"}, doc_type : Types]

ChoiceLists == Seq(SUBSET AnyQuery)

LEMMA ListOfChoices ==
  ASSUME NEW n \in Nat, NEW list \in [1..n -> SUBSET AnyQuery]
  PROVE  list \in ChoiceLists
<1> DEFINE S == SUBSET AnyQuery
<1>1. list \in [1..n -> S]
  OBVIOUS
<1> HIDE DEF S
<1>2. list \in Seq(S)
  BY <1>1
<1> QED
  BY <1>2 DEF ChoiceLists, S

\* One list of choices after another offers the queries of both.
LEMMA BothAreOffered ==
  ASSUME NEW first \in ChoiceLists, NEW second \in ChoiceLists
  PROVE  /\ first \o second \in ChoiceLists
         /\ Queries(first \o second) = Queries(first) \cup Queries(second)
<1>1. first \o second \in ChoiceLists
  BY DEF ChoiceLists
<1>2. \A i \in DOMAIN (first \o second) :
        \/ \E j \in DOMAIN first : (first \o second)[i] = first[j]
        \/ \E j \in DOMAIN second : (first \o second)[i] = second[j]
  <2> SUFFICES ASSUME NEW i \in 1..(Len(first) + Len(second))
               PROVE  \/ \E j \in 1..Len(first) : (first \o second)[i] = first[j]
                      \/ \E j \in 1..Len(second) : (first \o second)[i] = second[j]
    BY DEF ChoiceLists
  <2>1. CASE i <= Len(first)
    BY <2>1 DEF ChoiceLists
  <2>2. CASE ~(i <= Len(first))
    <3>1. i - Len(first) \in 1..Len(second)
      BY <2>2 DEF ChoiceLists
    <3>2. (first \o second)[i] = second[i - Len(first)]
      BY <2>2 DEF ChoiceLists
    <3> QED
      BY <3>1, <3>2
  <2> QED
    BY <2>1, <2>2
<1>3. \A j \in DOMAIN first : j \in DOMAIN (first \o second) /\ (first \o second)[j] = first[j]
  BY DEF ChoiceLists
<1>4. \A j \in DOMAIN second :
        /\ Len(first) + j \in DOMAIN (first \o second)
        /\ (first \o second)[Len(first) + j] = second[j]
  BY DEF ChoiceLists
<1>5. Queries(first \o second) \subseteq Queries(first) \cup Queries(second)
  BY <1>2 DEF Queries, ToSet
<1>6. Queries(first) \subseteq Queries(first \o second)
  BY <1>3 DEF Queries, ToSet
<1>7. Queries(second) \subseteq Queries(first \o second)
  BY <1>4 DEF Queries, ToSet
<1> QED
  BY <1>1, <1>5, <1>6, <1>7

LEMMA CodesAndTypes ==
  /\ Len(ErrorCodes) = 5 /\ DOMAIN ErrorCodes = 1..5
  /\ \A i \in 1..5 : ErrorCodes[i] \in ToSet(ErrorCodes)
  /\ Len(TopicHints) = 7 /\ DOMAIN TopicHints = 1..7
  /\ \A i \in 1..7 : TopicHints[i].topic \in Topics /\ TopicHints[i].doc_type \in Types
<1>1. Len(ErrorCodes) = 5 /\ DOMAIN ErrorCodes = 1..5
  BY DEF ErrorCodes
<1>2. Len(TopicHints) = 7 /\ DOMAIN TopicHints = 1..7
  BY DEF TopicHints
<1>3. \A i \in 1..7 : TopicHints[i] \in ToSet(TopicHints)
  BY <1>2 DEF ToSet
<1> QED
  BY <1>1, <1>2, <1>3 DEF ToSet, Topics, Types

\* Each code has two choices, one for each of its queries.
LEMMA TwoChoices ==
  /\ CodeChoices = 1..10
  /\ \A choice \in CodeChoices : CodeOf(choice) \in ToSet(ErrorCodes) /\ TurnOf(choice) \in {1, 2}
  /\ \A i \in 1..5, turn \in {1, 2} :
       \E choice \in CodeChoices : CodeOf(choice) = ErrorCodes[i] /\ TurnOf(choice) = turn
<1>1. CodeChoices = 1..10
  BY CodesAndTypes DEF CodeChoices
<1>2. \A choice \in CodeChoices : CodeOf(choice) \in ToSet(ErrorCodes) /\ TurnOf(choice) \in {1, 2}
  <2> SUFFICES ASSUME NEW choice \in 1..10
               PROVE  CodeOf(choice) \in ToSet(ErrorCodes) /\ TurnOf(choice) \in {1, 2}
    BY <1>1
  <2>1. (choice + 1) \div 2 \in 1..5
    OBVIOUS
  <2> QED
    BY <2>1, CodesAndTypes DEF CodeOf, TurnOf
<1>3. ASSUME NEW i \in 1..5
      PROVE  \A turn \in {1, 2} :
               \E choice \in CodeChoices : CodeOf(choice) = ErrorCodes[i] /\ TurnOf(choice) = turn
  <2>1. (2 * i - 1) \in 1..10 /\ ((2 * i - 1) + 1) \div 2 = i /\ (2 * i - 1) % 2 = 1
    OBVIOUS
  <2>2. 2 * i \in 1..10 /\ (2 * i + 1) \div 2 = i /\ (2 * i) % 2 = 0
    OBVIOUS
  <2>3. CodeOf(2 * i - 1) = ErrorCodes[i] /\ TurnOf(2 * i - 1) = 1
    BY <2>1 DEF CodeOf, TurnOf
  <2>4. CodeOf(2 * i) = ErrorCodes[i] /\ TurnOf(2 * i) = 2
    BY <2>2 DEF CodeOf, TurnOf
  <2> QED
    BY <1>1, <2>1, <2>2, <2>3, <2>4
<1> QED
  BY <1>1, <1>2, <1>3

LEMMA CodeQueriesAreOffered ==
  ASSUME NEW codes \in SUBSET ToSet(ErrorCodes)
  PROVE  /\ SeedsOf(codes) \in ChoiceLists /\ RewritesOf(codes) \in ChoiceLists
         /\ \A code \in codes : ToSet(CodeSeeds(code)) \subseteq Queries(SeedsOf(codes))
         /\ \A code \in codes : ToSet(CodeRewrites(code)) \subseteq Queries(RewritesOf(codes))
<1>1. \A code \in codes : \E i \in 1..5 : code = ErrorCodes[i]
  BY CodesAndTypes DEF ToSet
<1>2. ASSUME NEW code \in ToSet(ErrorCodes), NEW turn \in {1, 2}
      PROVE  CodeSeeds(code)[turn] \in AnyQuery /\ CodeRewrites(code)[turn] \in AnyQuery
  <2>1. ASSUME NEW form \in Forms, NEW doc_type \in Types
        PROVE  Query(form, code, doc_type) \in AnyQuery
    BY DEF Query, AnyQuery
  <2>2. /\ Query("code", code, "error_codes") \in AnyQuery
        /\ Query("incident", code, "runbook") \in AnyQuery
        /\ Query("incident", code, "error_codes") \in AnyQuery
        /\ Query("runbook", code, "runbook") \in AnyQuery
    BY <2>1 DEF Forms, Types
  <2> QED
    BY <2>2 DEF CodeSeeds, CodeRewrites
<1>3. SeedsOf(codes) \in [1..10 -> SUBSET AnyQuery]
  <2>1. ASSUME NEW choice \in 1..10
        PROVE  {CodeSeeds(code)[TurnOf(choice)] : code \in codes \cap {CodeOf(choice)}}
                 \subseteq AnyQuery
    BY <1>1, <1>2, TwoChoices
  <2> QED
    BY <2>1, TwoChoices DEF SeedsOf
<1>4. RewritesOf(codes) \in [1..10 -> SUBSET AnyQuery]
  <2>1. ASSUME NEW choice \in 1..10
        PROVE  {CodeRewrites(code)[TurnOf(choice)] : code \in codes \cap {CodeOf(choice)}}
                 \subseteq AnyQuery
    BY <1>1, <1>2, TwoChoices
  <2> QED
    BY <2>1, TwoChoices DEF RewritesOf
<1>5. ASSUME NEW code \in codes, NEW turn \in {1, 2}
      PROVE  /\ CodeSeeds(code)[turn] \in Queries(SeedsOf(codes))
             /\ CodeRewrites(code)[turn] \in Queries(RewritesOf(codes))
  <2>1. PICK choice \in CodeChoices : CodeOf(choice) = code /\ TurnOf(choice) = turn
    BY <1>1, TwoChoices
  <2>2. CodeSeeds(code)[turn] \in SeedsOf(codes)[choice]
    BY <2>1 DEF SeedsOf
  <2>3. CodeRewrites(code)[turn] \in RewritesOf(codes)[choice]
    BY <2>1 DEF RewritesOf
  <2>4. choice \in DOMAIN SeedsOf(codes) /\ choice \in DOMAIN RewritesOf(codes)
    BY DEF SeedsOf, RewritesOf
  <2> QED
    BY <2>2, <2>3, <2>4 DEF Queries, ToSet
<1>6. ASSUME NEW code
      PROVE  /\ ToSet(CodeSeeds(code)) = {CodeSeeds(code)[1], CodeSeeds(code)[2]}
             /\ ToSet(CodeRewrites(code)) = {CodeRewrites(code)[1], CodeRewrites(code)[2]}
  BY DEF ToSet, CodeSeeds, CodeRewrites
<1>7. SeedsOf(codes) \in ChoiceLists /\ RewritesOf(codes) \in ChoiceLists
  BY <1>3, <1>4, ListOfChoices
<1>8. ASSUME NEW code \in codes
      PROVE  /\ ToSet(CodeSeeds(code)) \subseteq Queries(SeedsOf(codes))
             /\ ToSet(CodeRewrites(code)) \subseteq Queries(RewritesOf(codes))
  BY <1>5, <1>6
<1> QED
  BY <1>7, <1>8

LEMMA TopicQueriesAreOffered ==
  ASSUME NEW topics
  PROVE  /\ HintQueries(topics) \in ChoiceLists
         /\ \A topic \in topics \cap Topics :
              Query("hint", topic, DocType(topic)) \in Queries(HintQueries(topics))
<1>1. HintQueries(topics) \in [1..7 -> SUBSET AnyQuery]
  <2>1. ASSUME NEW i \in 1..7
        PROVE  {Query("hint", topic, TopicHints[i].doc_type) :
                  topic \in topics \cap {TopicHints[i].topic}} \subseteq AnyQuery
    BY CodesAndTypes DEF Query, AnyQuery, Forms
  <2> QED
    BY <2>1, CodesAndTypes DEF HintQueries
<1>2. ASSUME NEW topic \in topics \cap Topics
      PROVE  Query("hint", topic, DocType(topic)) \in Queries(HintQueries(topics))
  <2>1. PICK hint \in ToSet(TopicHints) : hint.topic = topic
    BY DEF Topics
  <2>2. PICK i \in DOMAIN TopicHints : TopicHints[i] = hint
    BY DEF ToSet
  <2>3. DocType(topic) = TopicHints[i].doc_type /\ topic = TopicHints[i].topic
    BY <2>1, <2>2, HintTypes
  <2>4. Query("hint", topic, DocType(topic)) \in HintQueries(topics)[i]
    BY <2>3 DEF HintQueries
  <2>5. i \in DOMAIN HintQueries(topics)
    BY DEF HintQueries
  <2> QED
    BY <2>4, <2>5 DEF Queries, ToSet
<1> QED
  BY <1>1, <1>2, ListOfChoices


LEMMA OwnWordsAreChoices ==
  ASSUME NEW c \in Call
  PROVE  OwnWords(c) \in ChoiceLists
<1>1. Inferred(c) \in Types
  <2>1. CASE Cardinality(c.topics) = 1
    <3>1. c.topics \subseteq Topics /\ c.topics # {}
      BY <2>1, FS_EmptySet DEF Call
    <3>2. (CHOOSE topic \in c.topics : TRUE) \in Topics
      BY <3>1
    <3>3. \A topic \in Topics : DocType(topic) \in Types
      BY HintTypes DEF Topics, Types
    <3> QED
      BY <2>1, <3>2, <3>3 DEF Inferred
  <2>2. CASE Cardinality(c.topics) # 1
    BY <2>2 DEF Inferred, Types
  <2> QED
    BY <2>1, <2>2
<1>2. \A form \in Forms : Query(form, "it", Inferred(c)) \in AnyQuery
  BY <1>1 DEF Query, AnyQuery
<1>3. Expanded(c) \in Forms /\ "question" \in Forms
  BY DEF Expanded, Forms
<1> DEFINE first == {Query("question", "it", Inferred(c))}
           second == {Query(form, "it", Inferred(c)) : form \in {Expanded(c)} \ {"question"}}
<1>4. first \in SUBSET AnyQuery /\ second \in SUBSET AnyQuery
  BY <1>2, <1>3
<1>5. OwnWords(c) = <<first, second>>
  BY DEF OwnWords
<1> HIDE DEF first, second
<1>6. <<first, second>> \in [1..2 -> SUBSET AnyQuery]
  BY <1>4
<1> QED
  BY <1>5, <1>6, ListOfChoices

LEMMA FirstQueries ==
  ASSUME NEW c \in Call
  PROVE  /\ FormulateQueries(c) \in ChoiceLists
         /\ \A code \in c.codes : ToSet(CodeSeeds(code)) \subseteq Queries(FormulateQueries(c))
<1>1. c.codes \subseteq ToSet(ErrorCodes)
  BY DEF Call
<1>2. SeedsOf(c.codes) \in ChoiceLists /\ HintQueries(c.topics) \in ChoiceLists /\ OwnWords(c) \in ChoiceLists
  BY <1>1, CodeQueriesAreOffered, TopicQueriesAreOffered, OwnWordsAreChoices
<1>3. SeedsOf(c.codes) \o HintQueries(c.topics) \in ChoiceLists
  BY <1>2, BothAreOffered
<1>4. FormulateQueries(c) = (SeedsOf(c.codes) \o HintQueries(c.topics)) \o OwnWords(c)
  BY DEF FormulateQueries
<1>5. Queries(SeedsOf(c.codes)) \subseteq Queries(FormulateQueries(c))
  BY <1>2, <1>3, <1>4, BothAreOffered
<1> QED
  BY <1>1, <1>2, <1>3, <1>4, <1>5, BothAreOffered, CodeQueriesAreOffered

\* Everything a rewrite may choose from.
LEMMA AllAreOffered ==
  ASSUME call \in Call, current \in AnyQuery, missing \subseteq call.codes \cup call.topics
  PROVE  /\ Candidates \in ChoiceLists
         /\ Queries(FormulateQueries(call)) \subseteq Queries(Candidates)
         /\ Queries(FacetRewrites) \subseteq Queries(Candidates)
         /\ Queries(Broader) \subseteq Queries(Candidates)
         /\ \A facet \in missing : Template(facet) \subseteq Queries(Candidates)
<1> DEFINE codes == missing \cap ToSet(ErrorCodes)
           asked == FormulateQueries(call)
<1>1. call.codes \subseteq ToSet(ErrorCodes) /\ call.topics \subseteq Topics
  BY DEF Call
<1>2. RewritesOf(missing) = RewritesOf(codes)
  BY TwoChoices DEF RewritesOf
<1>3. RewritesOf(missing) \in ChoiceLists /\ HintQueries(missing) \in ChoiceLists
  BY <1>2, CodeQueriesAreOffered, TopicQueriesAreOffered
<1>4. /\ FacetRewrites \in ChoiceLists
      /\ Queries(FacetRewrites) = Queries(RewritesOf(missing)) \cup Queries(HintQueries(missing))
  BY <1>3, BothAreOffered DEF FacetRewrites
<1>5. \A about \in {"it"}, form \in Forms : Query(form, about, AnyType) \in AnyQuery
  BY DEF Query, AnyQuery, Types
<1>6. <<>> \in ChoiceLists
  BY DEF ChoiceLists
<1>7. Broader \in ChoiceLists
  <2> DEFINE first == {Query(Expanded(call), "it", AnyType)}
             second == {[current EXCEPT !.doc_type = AnyType]} \ {current}
  <2>1. first \in SUBSET AnyQuery
    BY <1>5 DEF Expanded, Forms
  <2>2. second \in SUBSET AnyQuery
    BY DEF AnyQuery, Types
  <2>3. Broader = IF ~empty THEN <<>> ELSE <<first, second>>
    BY DEF Broader
  <2> HIDE DEF first, second
  <2>4. <<first, second>> \in [1..2 -> SUBSET AnyQuery]
    BY <2>1, <2>2
  <2> QED
    BY <1>6, <2>3, <2>4, ListOfChoices
<1>8. Fallback \in ChoiceLists
  <2> DEFINE only == {Query("question", "it", AnyType)}
  <2>1. only \in SUBSET AnyQuery
    BY <1>5 DEF Forms
  <2>2. Fallback = <<>> \/ Fallback = <<only>>
    BY DEF Fallback
  <2> HIDE DEF only
  <2>3. <<only>> \in [1..1 -> SUBSET AnyQuery]
    BY <2>1
  <2> QED
    BY <1>6, <2>2, <2>3, ListOfChoices
<1>9. asked \in ChoiceLists
  BY FirstQueries
<1>10. Candidates = ((asked \o FacetRewrites) \o Broader) \o Fallback
  BY DEF Candidates
<1> HIDE DEF asked
<1>11. /\ asked \o FacetRewrites \in ChoiceLists
       /\ Queries(asked \o FacetRewrites) = Queries(asked) \cup Queries(FacetRewrites)
  BY <1>4, <1>9, BothAreOffered
<1>12. /\ (asked \o FacetRewrites) \o Broader \in ChoiceLists
       /\ Queries((asked \o FacetRewrites) \o Broader)
            = Queries(asked) \cup Queries(FacetRewrites) \cup Queries(Broader)
  BY <1>7, <1>11, BothAreOffered
<1>13. /\ Candidates \in ChoiceLists
       /\ Queries(asked) \cup Queries(FacetRewrites) \cup Queries(Broader) \subseteq Queries(Candidates)
  BY <1>8, <1>10, <1>12, BothAreOffered
<1>14. ASSUME NEW facet \in missing
       PROVE  Template(facet) \subseteq Queries(Candidates)
  <2>1. CASE facet \in ToSet(ErrorCodes)
    <3>1. facet \in call.codes
      BY <1>1, <2>1, CodesAreNoTopics
    <3>2. ToSet(CodeSeeds(facet)) \subseteq Queries(asked)
      BY <3>1, FirstQueries DEF asked
    <3>3. ToSet(CodeRewrites(facet)) \subseteq Queries(FacetRewrites)
      BY <1>2, <1>4, <2>1, CodeQueriesAreOffered
    <3> QED
      BY <1>13, <2>1, <3>2, <3>3 DEF Template
  <2>2. CASE facet \notin ToSet(ErrorCodes)
    <3>1. facet \in missing \cap Topics
      BY <1>1, <2>2
    <3>2. Query("hint", facet, DocType(facet)) \in Queries(FacetRewrites)
      BY <1>4, <3>1, TopicQueriesAreOffered
    <3> QED
      BY <1>13, <2>2, <3>2 DEF Template
  <2> QED
    BY <2>1, <2>2
<1> QED
  BY <1>13, <1>14 DEF asked

\* What is known of the query just made and of the facets still missing; and,
\* once the loop has stopped, why it did.
StopInv ==
  /\ current \in AnyQuery
  /\ missing \subseteq call.codes \cup call.topics
  /\ pc \in {"rewrite", "conclude"} => current \in used
  /\ pc = "done" => result = "failed" \/ current \in used
  /\ pc = "conclude" \/ (pc = "done" /\ result # "failed") =>
       \/ decision = "sufficient" /\ DocsSufficient(Kept(kept))
       \/ decision # "sufficient" /\ index >= call.max_iterations
       \/ decision # "sufficient" /\ Queries(Candidates) \subseteq used
  /\ pc = "done" /\ result = "insufficient" => decision # "sufficient" \/ Kept(kept) = {}

GiveUpInv == Inv /\ StopInv

LEMMA InitStops == Init => StopInv
<1> SUFFICES ASSUME Init PROVE StopInv
  OBVIOUS
<1>1. call \in Call
  BY CallsAssumption DEF Init
<1>2. FormulateQueries(call) \in ChoiceLists
  BY <1>1, FirstQueries
<1>3. current \in AnyQuery
  BY <1>2 DEF Init, FirstUnused, ChoiceLists
<1> QED
  BY <1>3 DEF Init, StopInv

LEMMA StepStops == GiveUpInv /\ [Next]_vars => StopInv'
<1> SUFFICES ASSUME GiveUpInv, [Next]_vars PROVE StopInv'
  OBVIOUS
<1> USE DEF GiveUpInv
<1>1. CASE Search
  <2>1. current' = current /\ current \in AnyQuery /\ current \in used' /\ call' = call
    BY <1>1 DEF Search, StopInv
  <2>2. missing' \subseteq call.codes \cup call.topics
    BY <1>1 DEF Search, MissingFacets
  <2>3. pc' \in {"rewrite", "conclude"}
    BY <1>1 DEF Search
  <2>4. pc' = "conclude" =>
          \/ decision' = "sufficient" /\ DocsSufficient(Kept(kept'))
          \/ decision' # "sufficient" /\ index' >= call.max_iterations
    BY <1>1 DEF Search, LastRound
  <2>5. DocsSufficient(Kept(kept))' <=> DocsSufficient(Kept(kept'))
    BY <2>1 DEF DocsSufficient, MissingFacets, Covers, Kept
  <2> QED
    BY <2>1, <2>2, <2>3, <2>4, <2>5 DEF StopInv
<1>2. CASE Rewrite
  <2>1. Candidates \in ChoiceLists
    BY AllAreOffered DEF Inv, KeptInv, StopInv
  <2>2. current' \in AnyQuery
    BY <1>2, <2>1 DEF Rewrite, FirstUnused, ChoiceLists
  <2> QED
    BY <1>2, <2>2 DEF Rewrite, StopInv
<1>3. CASE NothingLeft
  <2>1. Queries(Candidates) \subseteq used
    BY <1>3 DEF NothingLeft, Unused
  <2>2. Queries(Candidates)' = Queries(Candidates)
    BY <1>3 DEF NothingLeft, Candidates, FacetRewrites, Broader, Fallback
  <2> QED
    BY <1>3, <2>1, <2>2 DEF NothingLeft, StopInv
<1>4. CASE SearchFails
  BY <1>4 DEF SearchFails, StopInv
<1>5. CASE Conclude
  <2>1. Queries(Candidates)' = Queries(Candidates)
    BY <1>5 DEF Conclude, Candidates, FacetRewrites, Broader, Fallback
  <2>2. UNCHANGED <<DocsSufficient(Kept(kept)), Kept(kept)>>
    BY <1>5, SameVerdict DEF Conclude
  <2>3. result' = "insufficient" => decision # "sufficient" \/ Kept(kept) = {}
    BY <1>5 DEF Conclude
  <2> QED
    BY <1>5, <2>1, <2>2, <2>3 DEF Conclude, StopInv
<1>6. CASE UNCHANGED vars
  <2>1. Queries(Candidates)' = Queries(Candidates)
    BY <1>6 DEF vars, Candidates, FacetRewrites, Broader, Fallback
  <2>2. UNCHANGED <<DocsSufficient(Kept(kept)), Kept(kept)>>
    BY <1>6, SameVerdict DEF vars
  <2> QED
    BY <1>6, <2>1, <2>2 DEF vars, StopInv
<1> QED
  BY <1>1, <1>2, <1>3, <1>4, <1>5, <1>6 DEF Next, Loop, Terminating

LEMMA StoppedEarly == GiveUpInv => GivesUpOnlyWhenOut
<1> SUFFICES ASSUME GiveUpInv, pc = "done", result = "insufficient",
                    index < call.max_iterations, ~NothingWanted
             PROVE  /\ Queries(FormulateQueries(call)) \subseteq used
                    /\ \A facet \in missing : Template(facet) \subseteq used
                    /\ empty => [current EXCEPT !.doc_type = AnyType] \in used
                    /\ empty => \E query \in used :
                         query.form \in {"question", "expanded"} /\ query.doc_type = AnyType
  BY DEF GivesUpOnlyWhenOut
<1> USE DEF GiveUpInv
<1>1. call \in Call /\ index \in Nat /\ call.max_iterations \in Nat /\ call.min_kept \in Nat
  BY DEF Inv, AskInv, KeptInv, Call
<1>2. ~DocsSufficient({})
  <2>1. Cardinality({}) = 0 /\ MissingFacets({}) = call.codes \cup call.topics
    BY FS_EmptySet DEF MissingFacets
  <2> QED
    BY <1>1, <2>1 DEF DocsSufficient, NothingWanted
<1>3. Queries(Candidates) \subseteq used /\ current \in used /\ current \in AnyQuery
  BY <1>1, <1>2 DEF StopInv
<1>4. /\ Queries(FormulateQueries(call)) \subseteq used
      /\ \A facet \in missing : Template(facet) \subseteq used
      /\ Queries(Broader) \subseteq used
  BY <1>1, <1>3, AllAreOffered DEF StopInv
<1>5. ASSUME empty
      PROVE  /\ Query(Expanded(call), "it", AnyType) \in used
             /\ [current EXCEPT !.doc_type = AnyType] \in used
  <2> DEFINE first == {Query(Expanded(call), "it", AnyType)}
             second == {[current EXCEPT !.doc_type = AnyType]} \ {current}
  <2>1. Broader = <<first, second>>
    BY <1>5 DEF Broader
  <2>2. first \subseteq Queries(Broader) /\ second \subseteq Queries(Broader)
    <3> HIDE DEF first, second
    <3>1. Broader[1] = first /\ Broader[2] = second /\ DOMAIN Broader = {1, 2}
      BY <2>1
    <3> QED
      BY <3>1 DEF Queries, ToSet
  <2> QED
    BY <1>3, <1>4, <2>2
<1>6. ASSUME empty
      PROVE  \E query \in used :
               query.form \in {"question", "expanded"} /\ query.doc_type = AnyType
  BY <1>5, <1>6 DEF Query, Expanded
<1> QED
  BY <1>4, <1>5, <1>6

\* For every corpus, question and limits: run_agentic_rag gives up before its
\* last round only when rewrite_query has nothing left: every query of the
\* researcher and every template of a missing facet was made, and after an
\* empty round the broader ones as well.
THEOREM GivesUpLast == Spec => []GivesUpOnlyWhenOut
<1>1. Init => GiveUpInv
  BY InitInv, InitStops DEF GiveUpInv
<1>2. GiveUpInv /\ [Next]_vars => GiveUpInv'
  BY StepInv, StepStops DEF GiveUpInv
<1> QED
  BY <1>1, <1>2, StoppedEarly, PTL DEF Spec

=============================================================================
