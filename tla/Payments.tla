------------------------------ MODULE Payments ------------------------------
(***************************************************************************)
(* The payment tables and what fills them.  In a demo, synthetic_generator *)
(* draws traffic merchant by merchant, plants its incidents and settles;   *)
(* all of it is one transaction, one row group per step here.  In          *)
(* service, payments are there and a platform outside the repository       *)
(* delivers webhook events: again, twice, late, out of order or of another *)
(* payment status.  The tools only read; they are operators over these     *)
(* tables, in Analytics and Webhooks.                                      *)
(*                                                                         *)
(* Tables are sequences in insertion order; a row's id is its position.    *)
(* Time is counted in hours, a delivery's delay in seconds.  Of the volume *)
(* (30 days, 22 draws per merchant and day) a plan keeps a few draws.      *)
(***************************************************************************)
EXTENDS Integers, Sequences, FiniteSets

CONSTANTS
  Plans,          \* what a generator run draws and plants, in order
  DrawHours,      \* hours a payment may be drawn at
  DrawMethods,    \* methods it may be drawn with
  Amounts,        \* amounts it may be drawn with
  UpiSpike,       \* the hours [start, end) of INCIDENT_UPI_SPIKE
  WebhookDelay,   \* the hours [start, end) of INCIDENT_WEBHOOK_DELAY
  Fixtures,       \* payment tables a service may have
  Keys,           \* idempotency keys
  Deliveries,     \* webhook events a platform may record
  MaxDeliveries,  \* bound on their number
  None            \* NULL

VARIABLES
  phase,        \* "traffic", "planted" or "settled" in a generator run, "service"
  plan,         \* the generator run's plan
  orders, payments, events,    \* tables, in insertion order
  refunds, disputes,           \* tables, as sets: one row per payment
  settlements                  \* merchants with their settlement

tables == <<orders, payments, events, refunds, disputes, settlements>>
vars == <<phase, plan, tables>>

METHODS == {"card", "upi", "netbanking", "wallet"}
ERROR_CODES == {"GATEWAY_TIMEOUT", "INSUFFICIENT_FUNDS", "DO_NOT_HONOR",
                "AUTHENTICATION_FAILED", "WEBHOOK_TIMEOUT"}
MERCHANTS == {"M101", "M102", "M201", "M305", "M410"}

DELAY_THRESHOLD == 30
Prompt == 1          \* a delay drawn from 80..2000 ms
Late == 60           \* a delay drawn from 45..180 s
RefundAfter == 6
DisputeAfter == 48
SpikeAmount == 15000   \* of the payments the two incidents plant
DelayAmount == 8900

Window == [start: Int, end: Int]
In(at, window) == window.start <= at /\ at < window.end

Order ==
  [merchant: MERCHANTS, amount: Nat,
   status: {"created", "paid", "cancelled", "partially_refunded", "refunded"}]
PaymentStatuses == {"pending", "succeeded", "failed", "cancelled"}
Payment ==
  [order: Nat, merchant: MERCHANTS, method: METHODS, amount: Nat,
   status: PaymentStatuses, error_code: ERROR_CODES \cup {None},
   at: Nat, captured_at: Nat \cup {None}]
Refund == [payment: Nat, amount: Nat, status: {"requested", "processed", "failed"}, at: Nat]
Dispute == [payment: Nat, status: {"open", "won", "lost", "closed"}, at: Nat]
DeliveryStatuses == {"pending", "delivered", "delayed", "failed"}

\* "payment.<status>" is written as the status alone; another event is of no
\* payment status.
EventTypes == PaymentStatuses \cup {"other"}
WebhookEvent ==
  [payment: Nat, type: EventTypes, delivery_status: DeliveryStatuses, delay: Nat,
   at: Nat, attempt: Nat, idempotency_key: Keys \cup {None}]

\* A plan: the merchants of the draws, and the minutes of the planted payments
\* of each incident, all in the order of the loops.
Plan == [traffic: Seq(MERCHANTS), spike: Seq(Nat), delay: Seq(Nat)]
NoPlan == [traffic |-> <<>>, spike |-> <<>>, delay |-> <<>>]

ASSUME PlansAssumption == Plans \subseteq Plan
ASSUME DrawsAssumption ==
  DrawHours \subseteq Nat /\ DrawMethods \subseteq METHODS /\ Amounts \subseteq Nat \ {0}
ASSUME IncidentsAssumption ==
  /\ UpiSpike \in [start: Nat, end: Nat]
  /\ WebhookDelay \in [start: Nat, end: Nat]
ASSUME ServiceAssumption ==
  /\ Fixtures \subseteq Seq(Payment)
  /\ Deliveries \subseteq WebhookEvent
  /\ MaxDeliveries \in Nat
ASSUME NoneAssumption ==
  /\ None \notin Nat
  /\ None \notin ERROR_CODES /\ None \notin METHODS /\ None \notin MERCHANTS

Succeeds(delay) == [status |-> "succeeded", error_code |-> None, delay |-> delay]
Fails(code, delay) == [status |-> "failed", error_code |-> code, delay |-> delay]

\* What a draw may come to: the incidents first, then each merchant's usual.
Outcomes(merchant, method, at) ==
  IF merchant = "M201" /\ In(at, WebhookDelay)
  THEN {Succeeds(Late), Fails("DO_NOT_HONOR", Late)}
  ELSE LET spike == merchant = "M102" /\ method = "upi" /\ In(at, UpiSpike)
           usual == IF merchant = "M305" THEN {"INSUFFICIENT_FUNDS"}
                    ELSE {"INSUFFICIENT_FUNDS", "DO_NOT_HONOR", "AUTHENTICATION_FAILED"}
           codes == usual \cup (IF spike THEN {"GATEWAY_TIMEOUT"} ELSE {})
       IN {Succeeds(Prompt)} \cup {Fails(code, Prompt) : code \in codes}

\* A delivery on time fails now and then; a late one stays late.
DeliveredAs(delay) == IF delay >= DELAY_THRESHOLD THEN {"delayed"} ELSE {"delivered", "failed"}

\* Variant: a refund of everything and the fee.
RefundAmountWithFee(amount) == amount + 1

RefundAmount(amount) == IF amount \div 2 > 1 THEN amount \div 2 ELSE 1

\* Order, payment, event, and for some payments that succeeded a refund or a
\* dispute.
InsertPayment(merchant, method, at, amount, outcome) ==
  LET id == Len(payments) + 1
      paid == outcome.status = "succeeded"
  IN \E delivery \in DeliveredAs(outcome.delay), refunded, disputed \in {paid, FALSE} :
       /\ orders' = Append(orders,
            [merchant |-> merchant, amount |-> amount,
             status |-> IF paid THEN "paid" ELSE "created"])
       /\ payments' = Append(payments,
            [order |-> id, merchant |-> merchant, method |-> method, amount |-> amount,
             status |-> outcome.status, error_code |-> outcome.error_code, at |-> at,
             captured_at |-> IF paid THEN at ELSE None])
       /\ events' = Append(events,
            [payment |-> id, type |-> outcome.status, delivery_status |-> delivery,
             delay |-> outcome.delay, at |-> at, attempt |-> 1, idempotency_key |-> None])
       /\ refunds' = IF ~refunded THEN refunds
            ELSE refunds \cup {[payment |-> id, amount |-> RefundAmount(amount),
                                status |-> "processed", at |-> at + RefundAfter]}
       /\ disputes' = IF ~disputed THEN disputes
            ELSE disputes \cup {[payment |-> id, status |-> "open",
                                 at |-> at + DisputeAfter]}

\* One iteration of _traffic.
Draw ==
  /\ phase = "traffic"
  /\ Len(payments) < Len(plan.traffic)
  /\ \E at \in DrawHours, method \in DrawMethods, amount \in Amounts :
       LET merchant == plan.traffic[Len(payments) + 1] IN
       \E outcome \in Outcomes(merchant, method, at) :
         InsertPayment(merchant, method, at, amount, outcome)
  /\ UNCHANGED <<phase, plan, settlements>>

StartPlanting ==
  /\ phase = "traffic"
  /\ Len(payments) = Len(plan.traffic)
  /\ phase' = "planted"
  /\ UNCHANGED <<plan, tables>>

Planted == Len(payments) - Len(plan.traffic)

SpikeOutcome(minute) ==
  IF minute % 5 # 0 THEN Fails("GATEWAY_TIMEOUT", Prompt) ELSE Succeeds(Prompt)

\* One iteration of the first loop of _plant_incidents. Its event is
\* "delivered" whatever the delay drawn.
PlantSpike ==
  /\ phase = "planted"
  /\ Planted < Len(plan.spike)
  /\ \E minute \in {plan.spike[Planted + 1]} :
       InsertPayment("M102", "upi", UpiSpike.start + minute \div 60, SpikeAmount,
                     SpikeOutcome(minute))
  /\ UNCHANGED <<phase, plan, settlements>>

\* One iteration of the second.
PlantDelay ==
  /\ phase = "planted"
  /\ Planted \in Len(plan.spike)..(Len(plan.spike) + Len(plan.delay) - 1)
  /\ \E minute \in {plan.delay[Planted - Len(plan.spike) + 1]} :
       InsertPayment("M201", "card", WebhookDelay.start + minute \div 60, DelayAmount,
                     Succeeds(Late))
  /\ UNCHANGED <<phase, plan, settlements>>

\* _settlements; the caller commits.
Settle ==
  /\ phase = "planted"
  /\ Planted = Len(plan.spike) + Len(plan.delay)
  /\ settlements' = MERCHANTS
  /\ phase' = "settled"
  /\ UNCHANGED <<plan, orders, payments, events, refunds, disputes>>

\* The platform records an event of a payment: the first or another attempt,
\* on time or not, of the payment's status or of another.
Deliver ==
  /\ phase = "service"
  /\ Len(events) < MaxDeliveries
  /\ \E event \in Deliveries :
       /\ event.payment \in DOMAIN payments
       /\ events' = Append(events, event)
  /\ UNCHANGED <<phase, plan, orders, payments, refunds, disputes, settlements>>

OrderOf(payment) ==
  [merchant |-> payment.merchant, amount |-> payment.amount,
   status |-> IF payment.status = "succeeded" THEN "paid" ELSE "created"]

\* After _reset and _catalog, or a service's database.
Init ==
  /\ \/ /\ phase = "traffic"
        /\ plan \in Plans
        /\ payments = <<>>
     \/ /\ phase = "service"
        /\ plan = NoPlan
        /\ payments \in Fixtures
  /\ orders = [i \in DOMAIN payments |-> OrderOf(payments[i])]
  /\ events = <<>>
  /\ refunds = {}
  /\ disputes = {}
  /\ settlements = {}

Next == Draw \/ StartPlanting \/ PlantSpike \/ PlantDelay \/ Settle \/ Deliver

Spec == Init /\ [][Next]_vars
=============================================================================
