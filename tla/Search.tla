------------------------------- MODULE Search -------------------------------
(***************************************************************************)
(* What a document search promises (ADR-009): a bounded number of          *)
(* questions, no question twice, nothing found is lost, and one verdict.   *)
(* Nothing here is a step of the code; module AgenticRag is shown to       *)
(* implement it.                                                           *)
(***************************************************************************)
EXTENDS Naturals

VARIABLES
  limit,          \* how many questions may be asked
  asked,          \* the questions asked so far
  count,          \* how many they are
  found,          \* what they brought
  verdict         \* "none" until the search ends

searchVars == <<limit, asked, count, found, verdict>>

SearchInit ==
  /\ limit \in Nat
  /\ asked = {}
  /\ count = 0
  /\ found = {}
  /\ verdict = "none"

\* One question more, a new one, within the limit; it adds to what is known.
AskNew ==
  /\ verdict = "none"
  /\ \E q \in asked' : q \notin asked /\ asked' = asked \cup {q}
  /\ count < limit
  /\ count' = count + 1
  /\ found \subseteq found'
  /\ UNCHANGED <<limit, verdict>>

\* A search may call itself sufficient only with something to show.
Conclude ==
  /\ verdict = "none"
  /\ \/ verdict' = "sufficient" /\ found # {}
     \/ verdict' \in {"insufficient", "conflicting", "failed"}
  /\ UNCHANGED <<limit, asked, count, found>>

SearchNext == AskNew \/ Conclude

SearchSpec == SearchInit /\ [][SearchNext]_searchVars

=============================================================================
