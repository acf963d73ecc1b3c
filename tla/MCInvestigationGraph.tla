------------------------ MODULE MCInvestigationGraph ------------------------
(* Small instances of InvestigationGraph for TLC. *)
EXTENDS InvestigationGraphProperties

CONSTANTS m1, m2

About(hints, ml, given, named) ==
  [hints |-> hints, ml |-> ml, given |-> given, named |-> named]

\* Questions of the integration tests and of the evaluation set: a code, a
\* failing merchant, a risk score with and without a merchant, webhooks, a
\* scorecard with and without a merchant, and the integrity catalog. The
\* merchant is given, named, or named beside another that is given.
MCQuestions ==
  {About({"doc"}, "none", NoMerchant, NoMerchant),
   About({"doc", "metric"}, "none", NoMerchant, m1),
   About({}, "both", m1, m2),
   About({"metric"}, "classification", NoMerchant, NoMerchant),
   About({"webhook", "investigate"}, "none", m1, NoMerchant),
   About({"health"}, "descriptive", NoMerchant, m1),
   About({"health"}, "none", NoMerchant, NoMerchant),
   About({"integrity", "webhook"}, "none", NoMerchant, NoMerchant)}

=============================================================================
