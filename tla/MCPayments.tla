----------------------------- MODULE MCPayments -----------------------------
(* A few draws, planted payments and deliveries, for TLC. *)
EXTENDS PaymentsProperties

CONSTANT none

\* A draw of each incident's merchant, then one of the low-volume merchant with
\* planted payments: minute 0 succeeds, minute 3 fails, as in the source.
MCPlans ==
  {[traffic |-> <<"M102", "M201">>, spike |-> <<>>, delay |-> <<>>],
   [traffic |-> <<"M305">>, spike |-> <<3>>, delay |-> <<>>],
   [traffic |-> <<"M102">>, spike |-> <<0, 3>>, delay |-> <<>>],
   [traffic |-> <<"M201">>, spike |-> <<>>, delay |-> <<0, 60>>]}

MCSpike == [start |-> 2, end |-> 4]
MCDelay == [start |-> 1, end |-> 3]

Paid(at, merchant) ==
  [order |-> 1, merchant |-> merchant, method |-> "card", amount |-> 5,
   status |-> "succeeded", error_code |-> none, at |-> at, captured_at |-> at]

\* A paid payment, and one that is pending or failed.
MCFixtures ==
  {<<Paid(1, "M201"),
     [Paid(2, "M201") EXCEPT !.order = 2, !.status = "pending", !.captured_at = none]>>,
   <<Paid(1, "M201"),
     [Paid(2, "M102") EXCEPT !.order = 2, !.status = "failed", !.error_code = "DO_NOT_HONOR",
                             !.captured_at = none]>>}

Event(payment, type, status, delay, at, attempt, key) ==
  [payment |-> payment, type |-> type, delivery_status |-> status, delay |-> delay,
   at |-> at, attempt |-> attempt, idempotency_key |-> key]

\* First and second attempts with the key of the first, their own or none; late,
\* failed, pending and mistyped deliveries; some after the payment's window.
MCDeliveries ==
  {Event(1, "succeeded", "delivered", 1, 1, 1, "k"),
   Event(1, "succeeded", "delivered", 1, 2, 2, "k"),
   Event(1, "succeeded", "failed", 60, 1, 1, none),
   Event(1, "succeeded", "delayed", 1, 3, 2, none),
   Event(1, "succeeded", "delivered", 60, 1, 3, "l"),
   Event(1, "failed", "delivered", 1, 2, 1, "k"),
   Event(1, "other", "pending", 0, 2, 1, none),
   Event(2, "succeeded", "delivered", 1, 2, 1, none),
   Event(2, "failed", "delivered", 1, 3, 1, "l")}

Hours(start, end) == [start |-> start, end |-> end]
MCWindows == {Hours(0, 60), Hours(1, 2), Hours(2, 4), Hours(2, 9)}
MCOrders == {Hours(0, 60), Hours(1, 3)}
MCAllWindows == MCWindows \cup MCOrders

\* Whatever the words of a question hint at, run accepts every operation
\* plan_operations comes to, when there is a window; but for a task that names
\* get_events_for_payment without a payment.
ASSUME InspectorPlansAreAccepted ==
  \A query \in Operations \cup {none}, hinted \in SUBSET ToSet(Hints), payment \in {none, 1} :
    LET planned == PlanOperations(query, hinted, payment)
    IN /\ planned # <<>>
       /\ \A i, j \in DOMAIN planned : planned[i] = planned[j] => i = j
       /\ \A operation \in ToSet(planned) :
            \/ Accepted(operation, Hours(0, 60), payment)
            \/ query = "get_events_for_payment" /\ payment = none
=============================================================================
