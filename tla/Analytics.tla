------------------------------ MODULE Analytics ------------------------------
(***************************************************************************)
(* The read-only catalogs over the payment tables: SqlToolGateway's        *)
(* operations, the integrity checks and the merchant health score.         *)
(* A rate is counted in millionths, as _ratio rounds to six digits; a      *)
(* score and a penalty in hundredths of a point, as they are rounded to    *)
(* two. Rounding is exact here, half up, where Python rounds floats.       *)
(***************************************************************************)
EXTENDS Payments, Functions

AllMerchants == None
AllMethods == None

\* Variant: a window closed at both ends.
SelectedUpToTheEnd(window, merchant, method) ==
  {id \in DOMAIN payments :
     /\ window.start <= payments[id].at /\ payments[id].at <= window.end
     /\ merchant = AllMerchants \/ payments[id].merchant = merchant
     /\ method = AllMethods \/ payments[id].method = method}

\* The rows of _payment_predicates: a window closed at its start and open at
\* its end, optionally one merchant, one method.
Selected(window, merchant, method) ==
  {id \in DOMAIN payments :
     /\ In(payments[id].at, window)
     /\ merchant = AllMerchants \/ payments[id].merchant = merchant
     /\ method = AllMethods \/ payments[id].method = method}

Of(ids, status) == {id \in ids : payments[id].status = status}

Counts(ids) ==
  [total |-> Cardinality(ids),
   succeeded |-> Cardinality(Of(ids, "succeeded")),
   failed |-> Cardinality(Of(ids, "failed"))]

PaymentCounts(window, merchant, method) == Counts(Selected(window, merchant, method))

Million == 1000000
Rounded(numerator, denominator) == (2 * numerator + denominator) \div (2 * denominator)
Ratio(numerator, denominator) ==
  IF denominator <= 0 THEN 0 ELSE Rounded(numerator * Million, denominator)

SuccessRate(window, merchant, method) ==
  LET counts == PaymentCounts(window, merchant, method)
  IN Ratio(counts.succeeded, counts.total)

FailureRate(window, merchant, method) ==
  LET counts == PaymentCounts(window, merchant, method)
  IN Ratio(counts.failed, counts.total)

\* A bucket per method that occurs.
MethodBreakdown(window, merchant) ==
  LET ids == Selected(window, merchant, AllMethods)
  IN [method \in {payments[id].method : id \in ids} |->
        Counts({id \in ids : payments[id].method = method})]

\* Failed payments per code; sample_size also counts those without one.
ErrorBreakdown(window, merchant) ==
  LET failed == Of(Selected(window, merchant, AllMethods), "failed")
  IN [sample_size |-> Cardinality(failed),
      value |-> [code \in {payments[id].error_code : id \in failed} \ {None} |->
                   Cardinality({id \in failed : payments[id].error_code = code})]]

EqualPrevious(window) ==
  [start |-> window.start - (window.end - window.start), end |-> window.start]

CompareTimeWindows(window, merchant, method) ==
  LET current == SuccessRate(window, merchant, method)
      previous == SuccessRate(EqualPrevious(window), merchant, method)
  IN [current |-> current, previous |-> previous, delta |-> current - previous]

CompareMerchants(window, merchant, other) ==
  LET left == SuccessRate(window, merchant, AllMethods)
      right == SuccessRate(window, other, AllMethods)
  IN [left |-> left, right |-> right, delta |-> left - right]

\* Both the row and its payment must lie in the window.
Related(rows, window, merchant, method) ==
  {row \in rows : In(row.at, window) /\ row.payment \in Selected(window, merchant, method)}

RefundRate(window, merchant, method) ==
  LET processed == {row \in refunds : row.status = "processed"}
  IN Ratio(Cardinality(Related(processed, window, merchant, method)),
           PaymentCounts(window, merchant, method).succeeded)

DisputeRate(window, merchant, method) ==
  Ratio(Cardinality(Related(disputes, window, merchant, method)),
        PaymentCounts(window, merchant, method).succeeded)

\* Events by the time of their payment.
WebhookFailureRate(window, merchant, method) ==
  LET joined == {e \in DOMAIN events : events[e].payment \in Selected(window, merchant, method)}
  IN Ratio(Cardinality({e \in joined : events[e].delivery_status = "failed"}),
           Cardinality(joined))

------------------------------------------------------------------------------
(* Integrity checks: what each counts. *)

RefundedOf(id) ==
  SumFunction([row \in {r \in refunds : r.payment = id} |-> row.amount])

Violations(window, merchant) ==
  LET ids == Selected(window, merchant, AllMethods) IN
  [failed_has_error |-> {id \in Of(ids, "failed") : payments[id].error_code = None},
   succeeded_has_capture |-> {id \in Of(ids, "succeeded") : payments[id].captured_at = None},
   amount_positive |-> {id \in ids : payments[id].amount <= 0},
   merchant_matches_order |->
     {id \in ids : payments[id].merchant # orders[payments[id].order].merchant},
   refunds_within_payment |-> {id \in ids : RefundedOf(id) > payments[id].amount},
   webhooks_reference_payments |->
     {e \in DOMAIN events : In(events[e].at, window) /\ events[e].payment \notin DOMAIN payments}]

ValidateIntegrity(window, merchant) ==
  LET found == Violations(window, merchant)
  IN [passed |-> \A check \in DOMAIN found : found[check] = {},
      sample_size |-> Cardinality(Selected(window, merchant, AllMethods))]

------------------------------------------------------------------------------
(* Merchant health. *)

Factors == {"success_rate", "failure_rate", "refund_rate", "dispute_rate",
            "webhook_reliability", "anomaly_severity"}

\* In hundredths.
FACTOR_WEIGHTS ==
  [success_rate |-> 20, failure_rate |-> 20, refund_rate |-> 10, dispute_rate |-> 20,
   webhook_reliability |-> 15, anomaly_severity |-> 15]

\* In hundredths; the penalty grows from healthy to critical.
FACTOR_BOUNDS ==
  [success_rate |-> [healthy |-> 95, critical |-> 70],
   failure_rate |-> [healthy |-> 5, critical |-> 30],
   refund_rate |-> [healthy |-> 8, critical |-> 30],
   dispute_rate |-> [healthy |-> 1, critical |-> 5],
   webhook_reliability |-> [healthy |-> 97, critical |-> 80],
   anomaly_severity |-> [healthy |-> 15, critical |-> 75]]

Least(a, b) == IF a < b THEN a ELSE b
Most(a, b) == IF a > b THEN a ELSE b

\* collect_factor_values. The spike is a jump over the window before, or a
\* quarter failing when that one is empty.
FactorValues(window, merchant) ==
  LET failure == FailureRate(window, merchant, AllMethods)
      before == EqualPrevious(window)
      rise == Most(0, failure - FailureRate(before, merchant, AllMethods))
      spike60 == IF PaymentCounts(before, merchant, AllMethods).total = 0
                 THEN Least(6 * Million, 24 * failure) ELSE Least(6 * Million, 30 * rise)
      errors == ErrorBreakdown(window, merchant)
      share == IF "GATEWAY_TIMEOUT" \in DOMAIN errors.value
               THEN Ratio(errors.value["GATEWAY_TIMEOUT"], errors.sample_size) ELSE 0
  IN [success_rate |-> SuccessRate(window, merchant, AllMethods),
      failure_rate |-> failure,
      refund_rate |-> RefundRate(window, merchant, AllMethods),
      dispute_rate |-> DisputeRate(window, merchant, AllMethods),
      webhook_reliability |-> Million - WebhookFailureRate(window, merchant, AllMethods),
      anomaly_severity |-> Least(Million, Rounded(spike60 + 4 * share, 10))]

\* The numerator of _penalty_ratio over Span(factor), both in millionths.
Span(factor) ==
  LET bounds == FACTOR_BOUNDS[factor]
  IN 10000 * Most(bounds.healthy - bounds.critical, bounds.critical - bounds.healthy)

\* Variant: not cut off at the critical bound.
PenaltyBeyondCritical(factor, value) ==
  LET bounds == FACTOR_BOUNDS[factor]
      over == IF bounds.healthy > bounds.critical THEN 10000 * bounds.healthy - value
              ELSE value - 10000 * bounds.healthy
  IN Most(0, over)

Penalty(factor, value) ==
  LET bounds == FACTOR_BOUNDS[factor]
      over == IF bounds.healthy > bounds.critical THEN 10000 * bounds.healthy - value
              ELSE value - 10000 * bounds.healthy
  IN Least(Span(factor), Most(0, over))

FactorScore(factor, value) ==
  LET span == Span(factor) \div 10000
  IN Rounded(10000 * span - Penalty(factor, value), span)

PenaltyPoints(factor, value) ==
  Rounded(FACTOR_WEIGHTS[factor] * Penalty(factor, value), Span(factor) \div 100)

ScoreBand(score) ==
  IF score >= 8000 THEN "healthy" ELSE IF score >= 5000 THEN "degraded" ELSE "critical"

ScoreMerchant(merchant, window) ==
  IF PaymentCounts(window, merchant, AllMethods).total = 0
  THEN [score |-> 0, band |-> "critical", penalties |-> [volume |-> 10000]]
  ELSE LET values == FactorValues(window, merchant)
           total == SumFunction([f \in Factors |-> FACTOR_WEIGHTS[f] * FactorScore(f, values[f])])
           score == Rounded(total, 100)
       IN [score |-> score, band |-> ScoreBand(score),
           penalties |-> [f \in {g \in Factors : Penalty(g, values[g]) > 0} |->
                            PenaltyPoints(f, values[f])]]
=============================================================================
