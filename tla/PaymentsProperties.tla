-------------------------- MODULE PaymentsProperties --------------------------
(* What the payment tables and the tools that read them must satisfy. *)
EXTENDS Analytics, Webhooks

CONSTANTS
  Windows,   \* the windows asked for
  Orders     \* of them, those whose rows are read in every order

ASSUME WindowsAssumption == Windows \subseteq Window /\ Orders \subseteq Windows

Generated == phase # "service"
MerchantFilters == MERCHANTS \cup {AllMerchants}

\* Every table holds rows of its type, and a run is at one of its phases.
TypeOK ==
  /\ phase \in {"traffic", "planted", "settled", "service"}
  /\ plan \in Plan
  /\ orders \in Seq(Order)
  /\ payments \in Seq(Payment)
  /\ events \in Seq(WebhookEvent)
  /\ refunds \subseteq Refund
  /\ disputes \subseteq Dispute
  /\ settlements \subseteq MERCHANTS

------------------------------------------------------------------------------
(* Generated data. *)

\* The CHECKs and foreign keys of the tables, and that a payment succeeded or
\* failed, was captured exactly when it succeeded, and has an order of its own
\* merchant and amount.
PaymentsAreWhole ==
  \A id \in DOMAIN payments :
    LET payment == payments[id] IN
      /\ payment.amount > 0
      /\ payment.status \in {"succeeded", "failed"}
      /\ payment.status = "failed" <=> payment.error_code # None
      /\ payment.status = "succeeded" <=> payment.captured_at # None
      /\ payment.order \in DOMAIN orders
      /\ orders[payment.order].merchant = payment.merchant
      /\ orders[payment.order].amount = payment.amount

\* One event per payment, of its status and time.
EventsFollowPayments ==
  /\ DOMAIN events = DOMAIN payments
  /\ \A e \in DOMAIN events :
       /\ events[e].payment = e
       /\ events[e].type = payments[e].status
       /\ events[e].at = payments[e].at

\* At most one refund and one dispute, of a payment that succeeded; a refund
\* gives back no more than was paid.
RefundsAreCovered ==
  /\ \A refund \in refunds :
       /\ refund.payment \in DOMAIN payments
       /\ payments[refund.payment].status = "succeeded"
       /\ 0 < refund.amount /\ refund.amount <= payments[refund.payment].amount
  /\ \A r1, r2 \in refunds : r1.payment = r2.payment => r1 = r2
  /\ \A dispute \in disputes :
       /\ dispute.payment \in DOMAIN payments
       /\ payments[dispute.payment].status = "succeeded"
  /\ \A d1, d2 \in disputes : d1.payment = d2.payment => d1 = d2

RowsAreConsistent ==
  Generated => PaymentsAreWhole /\ EventsFollowPayments /\ RefundsAreCovered

\* Whatever generate() draws, the six checks of validate_integrity pass for
\* every merchant and window, and neither a missing nor a mismatched webhook
\* is found: the incidents it plants are failures and delays, not broken data.
GeneratedDataIsClean ==
  /\ RowsAreConsistent
  /\ Generated =>
       \A window \in Windows, merchant \in MerchantFilters :
         /\ ValidateIntegrity(window, merchant).passed
         /\ LET ids == SetToSeq(PaymentRows(window, merchant, AnyPayment))
                rows == SetToSeq(EventRows(window, merchant, AnyPayment))
            IN FindMissingEvents(ids, rows) = <<>> /\ CorrelateEvents(ids, rows) = <<>>

------------------------------------------------------------------------------
(* The SQL catalog. *)

CountFields == {"total", "succeeded", "failed"}

Cuts == {window.start : window \in Windows} \cup {window.end : window \in Windows}

\* Two adjoining windows count every payment of their union once.
WindowsTile(window, merchant) ==
  \A cut \in Cuts : window.start < cut /\ cut < window.end =>
    LET whole == PaymentCounts(window, merchant, AllMethods)
        first == PaymentCounts([window EXCEPT !.end = cut], merchant, AllMethods)
        second == PaymentCounts([window EXCEPT !.start = cut], merchant, AllMethods)
    IN \A field \in CountFields : whole[field] = first[field] + second[field]

\* The buckets of a breakdown add up to the count it breaks down.
BucketsAddUp(window, merchant) ==
  LET whole == PaymentCounts(window, merchant, AllMethods)
      methods == MethodBreakdown(window, merchant)
      errors == ErrorBreakdown(window, merchant)
  IN /\ \A field \in CountFields :
          whole[field] = SumFunction([method \in DOMAIN methods |-> methods[method][field]])
     /\ \A method \in DOMAIN methods :
          methods[method] = PaymentCounts(window, merchant, method)
     /\ errors.sample_size = whole.failed
     /\ Generated => whole.failed = SumFunction(errors.value)

\* Rates are between none and all; what did not succeed failed, when no
\* payment is pending or cancelled. (A rounding may add one millionth.)
RatesAreShares(window, merchant) ==
  LET success == SuccessRate(window, merchant, AllMethods)
      failure == FailureRate(window, merchant, AllMethods)
  IN /\ success + failure <= Million + 1
     /\ Generated /\ Selected(window, merchant, AllMethods) # {} => success + failure >= Million - 1
     /\ \A rate \in {success, failure, WebhookFailureRate(window, merchant, AllMethods),
                     RefundRate(window, merchant, AllMethods),
                     DisputeRate(window, merchant, AllMethods)} : rate \in 0..Million

\* A window and the one it is compared with count every payment of their union
\* once, so that the rate over both lies between the two rates.
ComparedWindowsAdjoin(window, merchant) ==
  LET before == EqualPrevious(window)
      both == [start |-> before.start, end |-> window.end]
      rates == CompareTimeWindows(window, merchant, AllMethods)
      overall == SuccessRate(both, merchant, AllMethods)
  IN window.start <= window.end =>
       /\ \A field \in CountFields :
            PaymentCounts(both, merchant, AllMethods)[field] =
              PaymentCounts(before, merchant, AllMethods)[field]
                + PaymentCounts(window, merchant, AllMethods)[field]
       /\ Least(rates.previous, rates.current) <= overall
       /\ overall <= Most(rates.previous, rates.current)

\* Rounding ranks no merchant above another whose share is as large.
MerchantsRankAsCounted(window, merchant, other) ==
  LET left == PaymentCounts(window, merchant, AllMethods)
      right == PaymentCounts(window, other, AllMethods)
  IN left.total > 0 /\ right.total > 0 /\ CompareMerchants(window, merchant, other).delta > 0 =>
       left.succeeded * right.total > right.succeeded * left.total

\* Every way to break a number of payments down adds up to that number, for
\* windows that adjoin, methods, error codes and merchants.
BreakdownsAddUp ==
  \A window \in Windows :
    /\ \A merchant \in MerchantFilters :
         /\ WindowsTile(window, merchant)
         /\ BucketsAddUp(window, merchant)
         /\ RatesAreShares(window, merchant)
         /\ ComparedWindowsAdjoin(window, merchant)
         /\ \A other \in MERCHANTS : MerchantsRankAsCounted(window, merchant, other)
    /\ PaymentCounts(window, AllMerchants, AllMethods).total =
         SumFunction([m \in MERCHANTS |-> PaymentCounts(window, m, AllMethods).total])

------------------------------------------------------------------------------
(* The health score. *)

PointsLost(health) == SumFunction(health.penalties)

\* 100, in hundredths.
FullScore == 10000

\* One score, and what its penalties leave unexplained of what is missing to 100.
Unexplained(health) == health.score + PointsLost(health) - FullScore

IsExplainedScore(health) ==
  /\ health.score \in 0..FullScore
  /\ Unexplained(health) \in -6..6
  /\ health.score = FullScore => PointsLost(health) <= 6

\* A score is between 0 and 100 and explained by its penalties: what is
\* missing to 100 is what they take, up to the roundings of six factors
\* ("so a reviewer can recompute the score from factor_values"); and a score
\* is full only when nothing is penalised.
ScoreIsExplained ==
  \A merchant \in MERCHANTS, window \in Windows :
    IsExplainedScore(ScoreMerchant(merchant, window))

------------------------------------------------------------------------------
(* The webhook catalog. *)

\* No delivery is both late and failed, and one that is neither is on time or
\* still pending.
KindsOfDelivery(rows) ==
  LET delayed == UNION {f.ids : f \in ToSet(FindDelayedEvents(rows, DELAY_THRESHOLD))}
      failed == UNION {f.ids : f \in ToSet(FindFailedDeliveries(rows))}
  IN /\ delayed \cap failed = {}
     /\ \A row \in ToSet(rows) \ {r \in ToSet(rows) : r.id \in delayed \cup failed} :
          /\ row.event.delay < DELAY_THRESHOLD
          /\ row.event.delivery_status \in {"delivered", "pending"}

SameDelivery(r1, r2) ==
  r1.event.payment = r2.event.payment /\ r1.event.type = r2.event.type
SameKeyOrAttempt(r1, r2) ==
  \/ r1.event.attempt = r2.event.attempt
  \/ r1.event.idempotency_key = r2.event.idempotency_key /\ r1.event.idempotency_key # None

\* Of two deliveries of one payment and type, both are in a retry, or some
\* delivery of theirs is in a duplicate; a retry never holds one attempt
\* twice, and the deliveries of a duplicate share their key or their attempt.
RepeatsAreReported(rows) ==
  LET retries == ToSet(FindRetries(rows))
      duplicates == ToSet(FindDuplicateEvents(rows))
      In2(finding, r1, r2) == {r1.id, r2.id} \subseteq finding.ids
      all == ToSet(rows)
  IN \A r1, r2 \in all : r1 # r2 =>
       /\ SameDelivery(r1, r2) =>
            \/ \E f \in retries : In2(f, r1, r2)
            \/ \E f \in duplicates : f.payment = r1.event.payment
       /\ SameDelivery(r1, r2) /\ SameKeyOrAttempt(r1, r2) => \E f \in duplicates : In2(f, r1, r2)
       /\ \A f \in retries : In2(f, r1, r2) =>
            SameDelivery(r1, r2) /\ r1.event.attempt # r2.event.attempt
       /\ \A f \in duplicates : In2(f, r1, r2) => SameDelivery(r1, r2) /\ SameKeyOrAttempt(r1, r2)

\* A payment of the window is missing its webhook, or its events are compared
\* with it; an event's payment is "not found" only when it is of another hour
\* than the window's.
CorrelationsAreFair(window, ids, rows) ==
  LET missing == {f.payment : f \in ToSet(FindMissingEvents(ids, rows))}
      mismatches == ToSet(CorrelateEvents(ids, rows))
  IN /\ \A id \in ToSet(ids) : id \in missing =>
          \A e \in DOMAIN events : events[e].payment = id => ~In(events[e].at, window)
     /\ \A f \in mismatches :
          (f.reason = "payment_not_found") <=> ~In(payments[f.payment].at, window)
     /\ missing \cap {f.payment : f \in mismatches} = {}

\* The operations whose findings are sorted before the limit cuts them.
SortedOperations ==
  {"get_events_for_payment", "find_delayed_events", "get_delivery_failures",
   "correlate_events_and_payments"}

\* One set of findings, in one order where the operation sorts.
FoundAlike(operation, found) ==
  /\ Cardinality({ToSet(f) : f \in found}) = 1
  /\ operation \in SortedOperations => Cardinality({Wrap(f) : f \in found}) = 1

\* The database may return rows in any order: what an operation finds is the
\* same for each, and so is what the limit leaves of it when it sorts first.
RowOrderDoesNotMatter(window) ==
  LET ids == SetToSeqs(PaymentRows(window, AnyMerchant, AnyPayment))
      rows == SetToSeqs(EventRows(window, AnyMerchant, AnyPayment))
  IN \A operation \in Operations :
       FoundAlike(operation, {Analyse(operation, i, r, DELAY_THRESHOLD, 1) : i \in ids, r \in rows})

\* Deliveries that come again, late, out of order or of another status are
\* each found under the kinds that describe them, in whatever order the rows
\* are read.
FindingsAreRight ==
  \A window \in Orders :
    /\ RowOrderDoesNotMatter(window)
    /\ LET ids == SetToSeq(PaymentRows(window, AnyMerchant, AnyPayment))
           rows == SetToSeq(EventRows(window, AnyMerchant, AnyPayment))
       IN /\ KindsOfDelivery(rows)
          /\ RepeatsAreReported(rows)
          /\ CorrelationsAreFair(window, ids, rows)
=============================================================================
