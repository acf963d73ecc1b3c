------------------------------- MODULE Inquiry -------------------------------
(***************************************************************************)
(* What an investigation promises (ADR-005, ARCHITECTURE.md 3.8 and 4.2):  *)
(* a bounded number of visits gather evidence, nothing gathered is lost,   *)
(* and one answer is given, which calls itself established only when every *)
(* kind of evidence that was asked for has been found. Nothing here is a   *)
(* step of the code; module InvestigationGraph is shown to implement it.   *)
(***************************************************************************)
EXTENDS Naturals

CONSTANTS
  Sources,     \* the kinds of evidence
  MaxVisits    \* how many visits an investigation may make

VARIABLES
  asked,       \* the kinds of evidence the question calls for
  visits,      \* visits made so far
  found,       \* the kinds of evidence gathered
  answer       \* "none" until the report is given

inquiryVars == <<asked, visits, found, answer>>

InquiryInit ==
  /\ asked = {}
  /\ visits = 0
  /\ found = {}
  /\ answer = "none"

\* Every question calls for some evidence.
Ask ==
  /\ asked = {}
  /\ asked' \in (SUBSET Sources) \ {{}}
  /\ UNCHANGED <<visits, found, answer>>

\* A visit adds to what was found, possibly nothing.
Visit ==
  /\ asked # {}
  /\ answer = "none"
  /\ visits < MaxVisits
  /\ visits' = visits + 1
  /\ found' \in SUBSET Sources
  /\ found \subseteq found'
  /\ UNCHANGED <<asked, answer>>

\* One answer, after at least one visit.
Conclude ==
  /\ answer = "none"
  /\ visits > 0
  /\ \/ answer' = "established" /\ asked \subseteq found
     \/ answer' = "insufficient"
  /\ UNCHANGED <<asked, visits, found>>

InquiryNext == Ask \/ Visit \/ Conclude

InquirySpec == InquiryInit /\ [][InquiryNext]_inquiryVars

=============================================================================
