------------------------------ MODULE Webhooks ------------------------------
(***************************************************************************)
(* WebhookToolGateway and webhook_analysis: what kind each delivery is of, *)
(* and which operations the inspector asks for.  The queries have no ORDER *)
(* BY, so the rows a handler gets are the events of a window in any order; *)
(* the analysis is defined on such a sequence of rows and returns its      *)
(* findings in the order the code builds them, because the gateway keeps   *)
(* the first FINDING_LIMIT only.                                           *)
(***************************************************************************)
EXTENDS Payments, SequencesExt

CONSTANT FINDING_LIMIT

ASSUME FindingLimitAssumption == FINDING_LIMIT \in Nat

\* NULL is no reason that the analysis gives.
ASSUME ReasonsAssumption == None \notin {"payment_not_found", "event_type_mismatch"}

AnyMerchant == None
AnyPayment == None

\* A row is an event with its id.
Row(e) == [id |-> e, event |-> events[e]]

\* Events by their own time, joined with their payment.
EventRows(window, merchant, payment) ==
  {Row(e) : e \in {d \in DOMAIN events :
     /\ In(events[d].at, window)
     /\ merchant = AnyMerchant \/ payments[events[d].payment].merchant = merchant
     /\ payment = AnyPayment \/ events[d].payment = payment}}

\* Payments by theirs.
PaymentRows(window, merchant, payment) ==
  {id \in DOMAIN payments :
     /\ In(payments[id].at, window)
     /\ merchant = AnyMerchant \/ payments[id].merchant = merchant
     /\ payment = AnyPayment \/ id = payment}

Finding(kind, payment, ids, reason) ==
  [kind |-> kind, payment |-> payment, ids |-> ids, reason |-> reason]
EventFinding(row, kind, reason) == Finding(kind, row.event.payment, {row.id}, reason)

\* The n-th of some positions, and the rows among the wanted ones, in their order.
Nth(positions, n) ==
  CHOOSE i \in positions : Cardinality({j \in positions : j < i}) = n - 1

Where(rows, wanted) ==
  LET kept == {i \in DOMAIN rows : rows[i] \in wanted}
  IN [n \in 1..Cardinality(kept) |-> rows[Nth(kept, n)]]

\* By time, then id; rows that are equal in both keep their order.
Before(a, b) ==
  \/ a.event.at < b.event.at
  \/ a.event.at = b.event.at /\ a.id < b.id

Rank(rows, i) ==
  Cardinality({j \in DOMAIN rows :
    \/ Before(rows[j], rows[i])
    \/ ~Before(rows[i], rows[j]) /\ j <= i})

Sorted(rows) ==
  [n \in DOMAIN rows |-> rows[CHOOSE i \in DOMAIN rows : Rank(rows, i) = n]]

\* The groups of rows with the same key, a function of the row, in the order of
\* their first rows.
GroupsBy(rows, key) ==
  LET firsts == {i \in DOMAIN rows : \A j \in 1..(i - 1) : key[rows[j]] # key[rows[i]]}
      Group(i) == Where(rows, {row \in ToSet(rows) : key[row] = key[rows[i]]})
  IN [n \in 1..Cardinality(firsts) |-> Group(Nth(firsts, n))]

Ids(rows) == {row.id : row \in ToSet(rows)}

ClassifyDelivery(event, threshold) ==
  IF event.delivery_status = "failed" THEN "failed"
  ELSE IF event.delay >= threshold \/ event.delivery_status = "delayed" THEN "delayed"
  ELSE IF event.delivery_status = "delivered" THEN "normal"
  ELSE event.delivery_status

FindOfClass(rows, threshold, class) ==
  LET found == Where(Sorted(rows),
                     {row \in ToSet(rows) : ClassifyDelivery(row.event, threshold) = class})
  IN [n \in DOMAIN found |-> EventFinding(found[n], class, None)]

FindDelayedEvents(rows, threshold) == FindOfClass(rows, threshold, "delayed")
FindFailedDeliveries(rows) == FindOfClass(rows, DELAY_THRESHOLD, "failed")

\* ids: a sequence of payments.
FindMissingEvents(ids, rows) ==
  LET found == Where(ids, {id \in ToSet(ids) :
                 /\ payments[id].status \in {"succeeded", "failed", "cancelled"}
                 /\ \A row \in ToSet(rows) : row.event.payment # id})
  IN [n \in DOMAIN found |-> Finding("missing", found[n], {}, None)]

\* Variant: attempts that rise in the order of the rows.
IsRetriedInRowOrder(group) ==
  Len(group) >= 2 /\ \A i \in 2..Len(group) : group[i - 1].event.attempt < group[i].event.attempt

\* Of one payment and type, two attempts at least and no attempt twice.
IsRetried(group) ==
  LET attempts == {row.event.attempt : row \in ToSet(group)}
  IN Len(group) >= 2 /\ Cardinality(attempts) = Len(group)

FindRetries(rows) ==
  LET groups == GroupsBy(rows, [row \in ToSet(rows) |-> <<row.event.payment, row.event.type>>])
      retried == Where(groups, {group \in ToSet(groups) : IsRetried(group)})
  IN [n \in DOMAIN retried |->
        Finding("retry", retried[n][1].event.payment, Ids(retried[n]), None)]

\* Groups of one payment, type and key, then of one payment, type and attempt;
\* the same ids are reported once.
FindDuplicateEvents(rows) ==
  LET withKey == Where(rows, {row \in ToSet(rows) : row.event.idempotency_key # None})
      keyed == GroupsBy(withKey, [row \in ToSet(withKey) |->
                 <<row.event.payment, row.event.type, row.event.idempotency_key>>])
      sameAttempt == GroupsBy(rows, [row \in ToSet(rows) |->
                       <<row.event.payment, row.event.type, row.event.attempt>>])
      all == keyed \o sameAttempt
      groups == Where(all, {group \in ToSet(all) : Len(group) >= 2})
      firsts == {i \in DOMAIN groups :
                   \A j \in 1..(i - 1) : Ids(groups[j]) # Ids(groups[i])}
  IN [n \in 1..Cardinality(firsts) |->
        LET group == groups[Nth(firsts, n)]
        IN Finding("duplicate", group[1].event.payment, Ids(group), None)]

\* An event of a payment that was not loaded, or of another payment status.
CorrelateEvents(ids, rows) ==
  LET Reason(row) ==
        IF row.event.payment \notin ToSet(ids) THEN "payment_not_found"
        ELSE IF /\ row.event.type \in PaymentStatuses
                /\ row.event.type # payments[row.event.payment].status
             THEN "event_type_mismatch" ELSE None
      found == Where(Sorted(rows), {row \in ToSet(rows) : Reason(row) # None})
  IN [n \in DOMAIN found |-> EventFinding(found[n], "mismatch", Reason(found[n]))]

EventsForPayment(rows, payment) ==
  LET found == Where(Sorted(rows), {row \in ToSet(rows) : row.event.payment = payment})
  IN [n \in DOMAIN found |-> EventFinding(found[n], "event", None)]

Operations ==
  {"get_events_for_payment", "find_missing_events", "find_delayed_events",
   "get_delivery_failures", "find_retries", "find_duplicate_events",
   "correlate_events_and_payments"}
WINDOW_REQUIRED == Operations \ {"get_events_for_payment"}

\* What a handler finds in its rows.
Analyse(operation, ids, rows, threshold, payment) ==
  CASE operation = "get_events_for_payment" -> EventsForPayment(rows, payment)
    [] operation = "find_missing_events" -> FindMissingEvents(ids, rows)
    [] operation = "find_delayed_events" -> FindDelayedEvents(rows, threshold)
    [] operation = "get_delivery_failures" -> FindFailedDeliveries(rows)
    [] operation = "find_retries" -> FindRetries(rows)
    [] operation = "find_duplicate_events" -> FindDuplicateEvents(rows)
    [] operation = "correlate_events_and_payments" -> CorrelateEvents(ids, rows)

\* _wrap: the first FINDING_LIMIT findings, and their number.
Wrap(findings) ==
  LET kept == IF Len(findings) > FINDING_LIMIT THEN FINDING_LIMIT ELSE Len(findings)
  IN SubSeq(findings, 1, kept)

\* What run refuses with a ValueError.
Accepted(operation, window, payment) ==
  /\ operation \in Operations
  /\ operation \in WINDOW_REQUIRED => window # None /\ window.start < window.end
  /\ operation = "get_events_for_payment" => payment # None

\* plan_operations: what the task names, what the words of the question hint
\* at, in the order of the table; else the named payment, else a default.
Hints == <<"find_missing_events", "find_delayed_events", "get_delivery_failures",
           "find_retries", "find_duplicate_events", "correlate_events_and_payments">>

PlanOperations(query, hinted, payment) ==
  LET asked == (IF query \in Operations THEN <<query>> ELSE <<>>)
                 \o SelectSeq(Hints, LAMBDA operation :
                                operation \in hinted /\ operation # query)
  IN IF asked # <<>> THEN asked
     ELSE IF payment # None THEN <<"get_events_for_payment">>
     ELSE <<"find_delayed_events", "get_delivery_failures", "find_missing_events">>
=============================================================================
