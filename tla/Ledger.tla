------------------------------- MODULE Ledger -------------------------------
(***************************************************************************)
(* The double-entry transfer of packages/payops_core/ledger: what          *)
(* POST /transactions/transfers and GET /transactions/accounts do to the   *)
(* ledger_* tables, one action per statement or in-memory step, so that    *)
(* concurrent requests interleave wherever the code lets them.             *)
(*                                                                         *)
(* The database is part of the model, as far as the code relies on it:     *)
(*   "sqlite"      a read takes no lock and sees the last commit, FOR      *)
(*                 UPDATE is ignored. The lock of the one writer is taken  *)
(*                 by the first INSERT or UPDATE, all of which a request   *)
(*                 sends at its COMMIT: flush and commit are one step, the *)
(*                 wait for another writer is the time before that step,   *)
(*                 and "database is locked" at the end of the wait is one  *)
(*                 of the failed statements of Crash and PersistFails;     *)
(*   "postgresql"  SERIALIZABLE: FOR UPDATE waits for the row's lock, and  *)
(*                 is refused when the row was rewritten after the         *)
(*                 transaction's snapshot; a deadlock has a victim.        *)
(***************************************************************************)
EXTENDS Naturals, FiniteSets

CONSTANTS
  Backend,      \* "sqlite" or "postgresql"
  Workers,      \* one per HTTP request; also the id of its transfer
  NoWorker,     \* holder of a free row lock
  Accounts,     \* account ids seed_ledger_accounts creates
  UnknownIds,   \* ids a caller may name that no row has
  Starting,     \* balance each account is seeded with
  Requests      \* the transfer requests a worker may be given

FailPoints == {"after_debit", "after_credit", "after_ledger", "before_commit"}

AccountIds == Accounts \cup UnknownIds

\* A request that passed TransferRequest: a positive amount, a known fail_at.
TransferRequest ==
  [from: AccountIds, to: AccountIds, amount: Nat \ {0},
   fail_at: FailPoints \cup {"none"}]

ASSUME BackendAssumption == Backend \in {"sqlite", "postgresql"}
ASSUME WorkersAssumption == NoWorker \notin Workers
ASSUME AccountsAssumption ==
  /\ Accounts \cap UnknownIds = {}
  /\ Starting \in [Accounts -> Nat]
  /\ Requests \subseteq TransferRequest

VARIABLES
  seeded,     \* accounts that have a row in ledger_accounts
  acct,       \* balance_cents and version of each account's row
  record,     \* the ledger_transfers row of each request, if any
  entries,    \* its ledger_entries rows
  audits,     \* its ledger_audit_events rows
  analyzed,   \* requests with a TRANSACTION_ANALYZED row in the audit log
  lock,       \* PostgreSQL: who holds each row FOR UPDATE
  pc,         \* next step of each request
  req,        \* the request a worker serves
  missing,    \* accounts its seed_ledger_accounts found absent
  snap,       \* PostgreSQL: the transfers its snapshot contains
  seen,       \* the two rows it read
  staged,     \* changes pending in its ORM session
  after,      \* the balances it read back at the end
  outcome     \* status of the TransferResult it returns

tables == <<seeded, acct, record, entries, audits, analyzed>>
locals == <<missing, snap, seen, staged, after, outcome>>
vars == <<tables, lock, pc, req, locals>>

-----------------------------------------------------------------------------
(* Rows and helpers *)

Row == [balance: Nat, version: Nat]
NoAccount == [balance |-> 0, version |-> 0]      \* session.get returned None
Unread == [from |-> NoAccount, to |-> NoAccount]
Pair == [from: Nat, to: Nat]
Zero == [from |-> 0, to |-> 0]
NoRequest == [from |-> "none", to |-> "none", amount |-> 0, fail_at |-> "none"]
NoRecord == [status |-> "none", before |-> Zero, after |-> Zero]

CommitAudit == {"BEGIN", "debit", "credit", "ledger", "COMMIT"}
RollbackAudit == {"BEGIN", "ROLLBACK"}

Steps == {"idle", "seedRead", "seedCommit", "begin", "lockFrom", "lockTo",
          "check", "debit", "credit", "journal", "seal", "commit", "reload",
          "reloadTo", "balances", "balancesTo", "persist", "answer", "done",
          "error"}

Goto(w, here, there) == pc[w] = here /\ pc' = [pc EXCEPT ![w] = there]

RowOf(a) == IF a \in seeded THEN acct[a] ELSE NoAccount

Release(w) == lock' = [a \in Accounts |-> IF lock[a] = w THEN NoWorker ELSE lock[a]]

Committed == {w \in Workers : record[w].status = "committed"}

Touches(w, a) == a \in {req[w].from, req[w].to}

\* The row was rewritten by a transaction the snapshot of w does not contain.
RewrittenSince(w, a) == \E v \in Committed \ snap[w] : Touches(v, a)

\* The account whose row w asks for next.
Wanted(w) == IF pc[w] = "lockFrom" THEN req[w].from ELSE req[w].to

\* v holds the row w is waiting for.
WaitsFor(w, v) ==
  /\ pc[w] \in {"lockFrom", "lockTo"}
  /\ Wanted(w) \in Accounts
  /\ lock[Wanted(w)] = v
  /\ v # w

\* The values the recorded row and the reply call "before": a refused check
\* never set them, and they are then copied from the balances read back.
Before(w) ==
  IF seen[w] = Unread THEN after[w]
  ELSE [from |-> seen[w].from.balance, to |-> seen[w].to.balance]

\* The two balances as the session's objects hold them after debit and credit.
Moved(w) ==
  [from |-> seen[w].from.balance - req[w].amount,
   to |-> seen[w].to.balance + req[w].amount]

\* Variant: the funds check lets an account go one cent below zero.
RefusedOneCentLate(w) ==
  \/ seen[w].from = NoAccount
  \/ seen[w].to = NoAccount
  \/ seen[w].from.balance + 1 < req[w].amount

\* Why _lock_and_check refuses: a missing row or too little money.
Refused(w) ==
  \/ seen[w].from = NoAccount
  \/ seen[w].to = NoAccount
  \/ seen[w].from.balance < req[w].amount

\* What the flush of w leaves in the row of account a.
Flushed(w, a) ==
  CASE a = req[w].from /\ "debit" \in staged[w] ->
         [balance |-> Moved(w).from, version |-> seen[w].from.version + 1]
    [] a = req[w].to /\ "credit" \in staged[w] ->
         [balance |-> Moved(w).to, version |-> seen[w].to.version + 1]
    [] OTHER -> acct[a]

-----------------------------------------------------------------------------
(* Seeding: every request first makes sure that the accounts exist *)

\* A transfer request arrives.
StartTransfer(w, r) ==
  /\ Goto(w, "idle", "seedRead")
  /\ req' = [req EXCEPT ![w] = r]
  /\ UNCHANGED <<tables, lock, locals>>

\* GET /transactions/accounts seeds the accounts as well, and only that.
StartList(w) ==
  /\ Goto(w, "idle", "seedRead")
  /\ UNCHANGED <<tables, lock, req, locals>>

SeedRead(w) ==
  /\ Goto(w, "seedRead", "seedCommit")
  /\ missing' = [missing EXCEPT ![w] = Accounts \ seeded]
  /\ UNCHANGED <<tables, lock, req, snap, seen, staged, after, outcome>>

\* Variant: the insert is an upsert and overwrites what another request did.
SeedUpsert(w) ==
  /\ Goto(w, "seedCommit", IF req[w] = NoRequest THEN "done" ELSE "begin")
  /\ seeded' = seeded \cup missing[w]
  /\ acct' = [a \in Accounts |->
                IF a \in missing[w] THEN [balance |-> Starting[a], version |-> 1]
                ELSE acct[a]]
  /\ UNCHANGED <<record, entries, audits, analyzed, lock, req, locals>>

\* The inserts of the missing accounts commit together.
SeedCommit(w) ==
  /\ missing[w] \cap seeded = {}
  /\ Goto(w, "seedCommit", IF req[w] = NoRequest THEN "done" ELSE "begin")
  /\ seeded' = seeded \cup missing[w]
  /\ acct' = [a \in Accounts |->
                IF a \in missing[w] THEN [balance |-> Starting[a], version |-> 1]
                ELSE acct[a]]
  /\ UNCHANGED <<record, entries, audits, analyzed, lock, req, locals>>

\* Another request inserted one of them first: the primary key refuses the
\* whole insert and nothing catches the IntegrityError.
SeedConflict(w) ==
  /\ missing[w] \cap seeded # {}
  /\ Goto(w, "seedCommit", "error")
  /\ UNCHANGED <<tables, lock, req, locals>>

-----------------------------------------------------------------------------
(* The transaction: read, check, change in memory, flush *)

\* InjectedFailure or ConsistencyError: the session rolls back, which drops
\* what it had staged and frees its locks, and _balances is next.
Raise(w) ==
  /\ pc' = [pc EXCEPT ![w] = "balances"]
  /\ Release(w)
  /\ staged' = [staged EXCEPT ![w] = {}]
  /\ outcome' = [outcome EXCEPT ![w] = "rolled_back"]

\* The first statement of the transaction fixes its snapshot.
Begin(w) ==
  /\ req[w].from # req[w].to
  /\ Goto(w, "begin", "lockFrom")
  /\ snap' = [snap EXCEPT ![w] = Committed]
  /\ UNCHANGED <<tables, lock, req, missing, seen, staged, after, outcome>>

RefuseSameAccount(w) ==
  /\ pc[w] = "begin"
  /\ req[w].from = req[w].to
  /\ Raise(w)
  /\ UNCHANGED <<tables, req, missing, snap, seen, after>>

\* session.get(..., with_for_update=True): a row lock on PostgreSQL, a plain
\* read on SQLite; an unknown id has no row to lock.
TakeRow(w, a) ==
  IF Backend = "postgresql" /\ a \in Accounts
  THEN /\ lock[a] = NoWorker
       /\ ~RewrittenSince(w, a)
       /\ lock' = [lock EXCEPT ![a] = w]
  ELSE UNCHANGED lock

LockFrom(w) ==
  /\ Goto(w, "lockFrom", "lockTo")
  /\ TakeRow(w, req[w].from)
  /\ seen' = [seen EXCEPT ![w] = [from |-> RowOf(req[w].from), to |-> seen[w].to]]
  /\ UNCHANGED <<tables, req, missing, snap, staged, after, outcome>>

LockTo(w) ==
  /\ Goto(w, "lockTo", "check")
  /\ TakeRow(w, req[w].to)
  /\ seen' = [seen EXCEPT ![w] = [from |-> seen[w].from, to |-> RowOf(req[w].to)]]
  /\ UNCHANGED <<tables, req, missing, snap, staged, after, outcome>>

\* The check passes on the values that were read, not on the table.
Check(w) ==
  /\ ~Refused(w)
  /\ Goto(w, "check", "debit")
  /\ UNCHANGED <<tables, lock, req, locals>>

Refuse(w) ==
  /\ pc[w] = "check"
  /\ Refused(w)
  /\ Raise(w)
  /\ seen' = [seen EXCEPT ![w] = Unread]
  /\ UNCHANGED <<tables, req, missing, snap, after>>

\* One change in the session, unless the request injects a failure after it.
Stage(w, here, what, point, there) ==
  /\ req[w].fail_at # point
  /\ Goto(w, here, there)
  /\ staged' = [staged EXCEPT ![w] = @ \cup {what}]
  /\ UNCHANGED <<tables, lock, req, missing, snap, seen, after, outcome>>

\* Variant: the debit is written at once, in a transaction of its own.
DebitAtOnce(w) ==
  /\ req[w].fail_at # "after_debit"
  /\ Goto(w, "debit", "credit")
  /\ staged' = [staged EXCEPT ![w] = {"debit"}]
  /\ acct' = [acct EXCEPT ![req[w].from] =
                [balance |-> Moved(w).from, version |-> seen[w].from.version + 1]]
  /\ UNCHANGED <<seeded, record, entries, audits, analyzed, lock, req, missing,
                 snap, seen, after, outcome>>

Debit(w) == Stage(w, "debit", "debit", "after_debit", "credit")
Credit(w) == Stage(w, "credit", "credit", "after_credit", "journal")

\* Variant: the journal entries are committed on their own.
JournalOnItsOwn(w) ==
  /\ req[w].fail_at # "after_ledger"
  /\ Goto(w, "journal", "seal")
  /\ entries' = [entries EXCEPT ![w] = {"debit", "credit"}]
  /\ staged' = [staged EXCEPT ![w] = @ \cup {"journal"}]
  /\ UNCHANGED <<seeded, acct, record, audits, analyzed, lock, req, missing,
                 snap, seen, after, outcome>>

Journal(w) == Stage(w, "journal", "journal", "after_ledger", "seal")

\* _assert_after compares the objects with what was read; it cannot fail on
\* values only this request changed. The audit rows are added after it.
Seal(w) ==
  /\ Moved(w).from + Moved(w).to = seen[w].from.balance + seen[w].to.balance
  /\ Stage(w, "seal", "audit", "before_commit", "commit")

\* The step after which each fail point bites.
FailsAfter(point) ==
  CASE point = "after_debit" -> "debit"
    [] point = "after_credit" -> "credit"
    [] point = "after_ledger" -> "journal"
    [] point = "before_commit" -> "seal"

InjectFailure(w) ==
  /\ req[w].fail_at \in FailPoints
  /\ pc[w] = FailsAfter(req[w].fail_at)
  /\ Raise(w)
  /\ UNCHANGED <<tables, req, missing, snap, seen, after>>

\* session.commit(): whatever is staged is written with the absolute values
\* the session holds, in one database transaction.
Flush(w) ==
  /\ acct' = [a \in Accounts |-> Flushed(w, a)]
  /\ record' = [record EXCEPT ![w] =
                  [status |-> "committed", before |-> Before(w), after |-> Moved(w)]]
  /\ entries' = [entries EXCEPT ![w] =
                  IF "journal" \in staged[w] THEN {"debit", "credit"} ELSE {}]
  /\ audits' = [audits EXCEPT ![w] = IF "audit" \in staged[w] THEN CommitAudit ELSE {}]
  /\ Release(w)
  /\ staged' = [staged EXCEPT ![w] = {}]
  /\ UNCHANGED <<seeded, analyzed, req, missing, snap, seen, after>>

\* Variant: a fail point behind the commit ends in the rollback path.
CommitThenFail(w) ==
  /\ Goto(w, "commit", "balances")
  /\ Flush(w)
  /\ outcome' = [outcome EXCEPT ![w] = "rolled_back"]

Commit(w) ==
  /\ Goto(w, "commit", "reload")
  /\ Flush(w)
  /\ outcome' = [outcome EXCEPT ![w] = "committed"]

-----------------------------------------------------------------------------
(* After the transaction *)

\* The commit expired the session's objects, so the reply reloads both rows:
\* from one snapshot on PostgreSQL, one SELECT after the other on SQLite.
Reload(w) ==
  /\ Goto(w, "reload", IF Backend = "postgresql" THEN "answer" ELSE "reloadTo")
  /\ after' = [after EXCEPT ![w] =
                 [from |-> RowOf(req[w].from).balance,
                  to |-> IF Backend = "postgresql" THEN RowOf(req[w].to).balance
                         ELSE after[w].to]]
  /\ UNCHANGED <<tables, lock, req, missing, snap, seen, staged, outcome>>

ReloadTo(w) ==
  /\ Goto(w, "reloadTo", "answer")
  /\ after' = [after EXCEPT ![w] =
                 [from |-> after[w].from, to |-> RowOf(req[w].to).balance]]
  /\ UNCHANGED <<tables, lock, req, missing, snap, seen, staged, outcome>>

\* _balances: two reads in a fresh session that sees every commit so far.
Balances(w) ==
  /\ Goto(w, "balances", "balancesTo")
  /\ after' = [after EXCEPT ![w] =
                 [from |-> RowOf(req[w].from).balance, to |-> after[w].to]]
  /\ UNCHANGED <<tables, lock, req, missing, snap, seen, staged, outcome>>

BalancesTo(w) ==
  /\ Goto(w, "balancesTo", "persist")
  /\ after' = [after EXCEPT ![w] =
                 [from |-> after[w].from, to |-> RowOf(req[w].to).balance]]
  /\ UNCHANGED <<tables, lock, req, missing, snap, seen, staged, outcome>>

\* The follow-up transaction that records the attempt. PostgreSQL enforces
\* the foreign keys to ledger_accounts, SQLite does not.
PersistRollback(w) ==
  /\ Backend = "postgresql" => {req[w].from, req[w].to} \subseteq seeded
  /\ Goto(w, "persist", "answer")
  /\ record' = [record EXCEPT ![w] =
                  [status |-> "rolled_back", before |-> Before(w), after |-> after[w]]]
  /\ audits' = [audits EXCEPT ![w] = RollbackAudit]
  /\ UNCHANGED <<seeded, acct, entries, analyzed, lock, req, locals>>

\* Any failure of that transaction is logged and swallowed.
PersistFails(w) ==
  /\ Goto(w, "persist", "answer")
  /\ UNCHANGED <<tables, lock, req, locals>>

\* The route writes TRANSACTION_ANALYZED in a transaction of its own and
\* returns the result.
Answer(w) ==
  /\ Goto(w, "answer", "done")
  /\ analyzed' = analyzed \cup {w}
  /\ UNCHANGED <<seeded, acct, record, entries, audits, lock, req, locals>>

-----------------------------------------------------------------------------
(* Requests that end without a TransferResult *)

\* Variant: the connection is not closed, so the locks stay.
DieHoldingLocks(w) ==
  /\ pc' = [pc EXCEPT ![w] = "error"]
  /\ staged' = [staged EXCEPT ![w] = {}]
  /\ UNCHANGED <<tables, lock, req, missing, snap, seen, after, outcome>>

\* The request dies: its locks and what it had staged are gone.
Die(w) ==
  /\ pc' = [pc EXCEPT ![w] = "error"]
  /\ Release(w)
  /\ staged' = [staged EXCEPT ![w] = {}]
  /\ UNCHANGED <<tables, req, missing, snap, seen, after, outcome>>

\* PostgreSQL: could not serialize access due to concurrent update.
SerializationFailure(w) ==
  /\ Backend = "postgresql"
  /\ pc[w] \in {"lockFrom", "lockTo"}
  /\ Wanted(w) \in Accounts
  /\ lock[Wanted(w)] = NoWorker
  /\ RewrittenSince(w, Wanted(w))
  /\ Die(w)

\* PostgreSQL: each of a set of transactions waits for another of the set.
DeadlockVictim(w) ==
  /\ \E S \in SUBSET Workers :
       /\ w \in S
       /\ \A v \in S : \E u \in S : WaitsFor(v, u)
  /\ Die(w)

\* The process is killed or a statement fails in a way nothing catches, at
\* any step, also after the commit and before the reply.
Crash(w) ==
  /\ pc[w] \notin {"idle", "done", "error"}
  /\ Die(w)

-----------------------------------------------------------------------------
(* Specification *)

\* The accounts of S exist, each request is at the step `step' of serving r.
InitAt(S, step, r) ==
  /\ seeded = S
  /\ acct = [a \in Accounts |-> [balance |-> Starting[a], version |-> 1]]
  /\ record = [w \in Workers |-> NoRecord]
  /\ entries = [w \in Workers |-> {}]
  /\ audits = [w \in Workers |-> {}]
  /\ analyzed = {}
  /\ lock = [a \in Accounts |-> NoWorker]
  /\ pc = [w \in Workers |-> step]
  /\ req = r
  /\ missing = [w \in Workers |-> {}]
  /\ snap = [w \in Workers |-> {}]
  /\ seen = [w \in Workers |-> Unread]
  /\ staged = [w \in Workers |-> {}]
  /\ after = [w \in Workers |-> Zero]
  /\ outcome = [w \in Workers |-> "none"]

Init == InitAt({}, "idle", [w \in Workers |-> NoRequest])

\* What the code and the database do for a request once it has arrived.
Work(w) ==
  \/ SeedRead(w) \/ SeedCommit(w) \/ SeedConflict(w)
  \/ Begin(w) \/ RefuseSameAccount(w) \/ LockFrom(w) \/ LockTo(w)
  \/ Check(w) \/ Refuse(w)
  \/ Debit(w) \/ Credit(w) \/ Journal(w) \/ Seal(w) \/ InjectFailure(w)
  \/ Commit(w) \/ Reload(w) \/ ReloadTo(w)
  \/ Balances(w) \/ BalancesTo(w) \/ PersistRollback(w) \/ PersistFails(w)
  \/ Answer(w)
  \/ SerializationFailure(w) \/ DeadlockVictim(w)

Arrive(w) == StartList(w) \/ \E r \in Requests : StartTransfer(w, r)

Ended(w) == pc[w] \in {"done", "error"}

Terminating == (\A w \in Workers : Ended(w)) /\ UNCHANGED vars

Next ==
  \/ \E w \in Workers : Arrive(w) \/ Work(w) \/ Crash(w)
  \/ Terminating

Spec == Init /\ [][Next]_vars

\* A request that is being served goes on; arrivals and crashes need not happen.
FairSpec == Spec /\ \A w \in Workers : WF_vars(Work(w))

=============================================================================
