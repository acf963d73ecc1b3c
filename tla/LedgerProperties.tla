-------------------------- MODULE LedgerProperties --------------------------
(***************************************************************************)
(* What module Ledger is checked against. The names in comments are those  *)
(* of packages/payops_core/ledger and of ADR-010.                          *)
(***************************************************************************)
EXTENDS Ledger, FiniteSetsExt

\* Every table, lock and local has the shape the code gives it: balances and
\* versions stay natural numbers, a row's status is one of the two the CHECK
\* constraint allows, a lock is held by a request or free.
TypeOK ==
  /\ seeded \subseteq Accounts
  /\ acct \in [Accounts -> Row]
  /\ record \in [Workers -> [status: {"none", "committed", "rolled_back"},
                             before: Pair, after: Pair]]
  /\ entries \in [Workers -> SUBSET {"debit", "credit"}]
  /\ audits \in [Workers -> SUBSET (CommitAudit \cup RollbackAudit)]
  /\ analyzed \subseteq Workers
  /\ lock \in [Accounts -> Workers \cup {NoWorker}]
  /\ pc \in [Workers -> Steps]
  /\ req \in [Workers -> TransferRequest \cup {NoRequest}]
  /\ missing \in [Workers -> SUBSET Accounts]
  /\ snap \in [Workers -> SUBSET Workers]
  /\ seen \in [Workers -> [from: Row, to: Row]]
  /\ staged \in [Workers -> SUBSET {"debit", "credit", "journal", "audit"}]
  /\ after \in [Workers -> Pair]
  /\ outcome \in [Workers -> {"none", "committed", "rolled_back"}]

\* A transfer leaves all of its traces or none: a committed row comes with
\* both journal entries and the COMMIT audit trail, a rolled-back row with no
\* entry and the ROLLBACK trail, and a request without a row left nothing
\* behind, whatever fail point, refusal, database error or crash ended it.
AllOrNothing ==
  \A w \in Workers :
    /\ record[w].status = "committed" =>
         entries[w] = {"debit", "credit"} /\ audits[w] = CommitAudit
    /\ record[w].status = "rolled_back" =>
         entries[w] = {} /\ audits[w] = RollbackAudit
    /\ record[w].status = "none" => entries[w] = {} /\ audits[w] = {}

\* The client that is told "rolled_back" sees no entry of that transfer, now
\* or later, and the one that is told "committed" finds the committed row.
ReplyIsTrue ==
  \A w \in Workers : pc[w] = "done" =>
    /\ outcome[w] = "committed" => record[w].status = "committed"
    /\ outcome[w] = "rolled_back" => record[w].status # "committed" /\ entries[w] = {}

\* The row of an account that exists changes only in a step that commits a
\* transfer from or to it; seed_ledger_accounts, run by every request, never
\* puts a starting balance back.
OnlyTransfersMoveMoney ==
  [][\A a \in seeded : acct'[a] # acct[a] =>
       \E w \in Workers :
         /\ record[w].status # "committed" /\ record'[w].status = "committed"
         /\ Touches(w, a)]_vars

-----------------------------------------------------------------------------
(* Lost updates *)

Debited(a) == {w \in Workers : "debit" \in entries[w] /\ req[w].from = a}
Credited(a) == {w \in Workers : "credit" \in entries[w] /\ req[w].to = a}
Amount(w) == req[w].amount

\* isolation.py:15 and ADR-010: no update of a wallet is lost, so each balance
\* is the seeded one plus the credits and minus the debits of the journal.
BalanceMatchesJournal ==
  \A a \in seeded :
    acct[a].balance + MapThenSumSet(Amount, Debited(a))
      = Starting[a] + MapThenSumSet(Amount, Credited(a))

\* On any backend, also where an update is lost, a balance is that of whole
\* transfers: the seeded one moved by some of the committed transfers of the
\* account, as many as the row's version counts. No amount is applied twice or
\* in part, and nothing stays of a transfer that was refused, failed or died.
BalanceIsOfWholeTransfers ==
  \A a \in seeded : \E S \in SUBSET {w \in Committed : Touches(w, a)} :
    /\ acct[a].version = 1 + Cardinality(S)
    /\ acct[a].balance + MapThenSumSet(Amount, {w \in S : req[w].from = a})
         = Starting[a] + MapThenSumSet(Amount, {w \in S : req[w].to = a})

\* A request between its read of a row and its commit.
ReadFrom == {"lockTo", "check", "debit", "credit", "journal", "seal", "commit"}
ReadTo == ReadFrom \ {"lockTo"}

\* Once a request has read a row for update, that row is what it read until
\* the request commits or rolls back: the absolute values of the flush, and
\* the funds check, are those of the current row.
ReadsStayCurrent ==
  \A w \in Workers :
    /\ pc[w] \in ReadFrom => seen[w].from = RowOf(req[w].from)
    /\ pc[w] \in ReadTo => seen[w].to = RowOf(req[w].to)

-----------------------------------------------------------------------------
(* The ledger implements the bank *)

Line(w, r) == [id |-> w, from |-> r.from, to |-> r.to, amount |-> r.amount]

Abstract == INSTANCE Bank WITH
       Moves <- {Line(w, r) : w \in Workers,
                              r \in {q \in Requests : {q.from, q.to} \subseteq Accounts}},
       open <- seeded,
       balance <- [a \in Accounts |-> acct[a].balance],
       journal <- {Line(w, req[w]) : w \in Committed}

\* Every step of the ledger opens accounts, makes one atomic move on current
\* balances that the payer can afford, or changes nothing a bank would see.
ImplementsBank == Abstract!BankSpec

-----------------------------------------------------------------------------
(* Replies against the database *)

\* A request that arrives ends, with an answer or an error, although requests
\* for opposite transfers lock the same two rows in opposite orders.
EveryRequestEnds == \A w \in Workers : pc[w] # "idle" ~> Ended(w)

=============================================================================
