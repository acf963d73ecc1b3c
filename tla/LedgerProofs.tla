---------------------------- MODULE LedgerProofs ----------------------------
(***************************************************************************)
(* Theorems about Ledger, for every set of requests, accounts and starting *)
(* balances. On both back ends transfers are atomic, replies are true,     *)
(* only transfers move money and balances are those of whole transfers; on *)
(* PostgreSQL no update is lost.                                           *)
(***************************************************************************)
EXTENDS LedgerProperties, FiniteSetTheorems, WellFoundedInduction, TLAPS

-----------------------------------------------------------------------------
(* Type correctness *)

\* Past the check, a request holds two existing rows and enough money, so
\* the debit of the flush stays a natural number.
CheckPassed ==
  \A w \in Workers :
    pc[w] \in {"debit", "credit", "journal", "seal", "commit"} => ~Refused(w)

TypeInv == TypeOK /\ CheckPassed

LEMMA InitType == Init => TypeInv
  BY AccountsAssumption
  DEF Init, InitAt, TypeInv, TypeOK, CheckPassed, Row, Unread, NoAccount, Pair, Zero,
      NoRequest, NoRecord, Steps, RollbackAudit, CommitAudit

LEMMA RowOfType == TypeOK => \A a : RowOf(a) \in Row
  BY DEF TypeOK, RowOf, Row, NoAccount

LEMMA TakeRowType ==
  ASSUME TypeOK, NEW w \in Workers, NEW a, TakeRow(w, a)
  PROVE  lock' \in [Accounts -> Workers \cup {NoWorker}]
  BY DEF TypeOK, TakeRow

\* The flush of a request that passed the check writes well-typed rows.
LEMMA MovedType ==
  ASSUME TypeInv, NEW w \in Workers, pc[w] = "commit"
  PROVE  /\ Moved(w) \in Pair
         /\ seen[w].from.version + 1 \in Nat /\ seen[w].to.version + 1 \in Nat
<1>1. /\ seen[w].from \in Row /\ seen[w].to \in Row
      /\ seen[w].from.balance >= req[w].amount
      /\ req[w].amount \in Nat
  BY DEF TypeInv, TypeOK, CheckPassed, Refused, Row, TransferRequest, NoRequest
<1> QED
  BY <1>1 DEF Row, Moved, Pair

LEMMA FlushedType ==
  ASSUME TypeInv, NEW w \in Workers, pc[w] = "commit", NEW a \in Accounts
  PROVE  Flushed(w, a) \in Row
<1>1. acct[a] \in Row
  BY DEF TypeInv, TypeOK
<1>2. Moved(w).from \in Nat /\ Moved(w).to \in Nat
  BY MovedType DEF Pair
<1>3. CASE a = req[w].from /\ "debit" \in staged[w]
  BY <1>2, <1>3, MovedType DEF Flushed, Row
<1>4. CASE ~(a = req[w].from /\ "debit" \in staged[w])
           /\ a = req[w].to /\ "credit" \in staged[w]
  BY <1>2, <1>4, MovedType DEF Flushed, Row
<1>5. CASE ~(a = req[w].from /\ "debit" \in staged[w])
           /\ ~(a = req[w].to /\ "credit" \in staged[w])
  BY <1>1, <1>5 DEF Flushed
<1> QED
  BY <1>3, <1>4, <1>5

LEMMA StepType == TypeInv /\ [Next]_vars => TypeInv'
<1> SUFFICES ASSUME TypeInv, [Next]_vars PROVE TypeInv'
  OBVIOUS
<1> USE AccountsAssumption, WorkersAssumption
<1> USE DEF TypeInv, TypeOK, CheckPassed, Refused, tables, locals, Goto, Steps
<1>1. ASSUME NEW w \in Workers, NEW r \in Requests, StartTransfer(w, r) PROVE TypeInv'
  BY <1>1 DEF StartTransfer
<1>2. ASSUME NEW w \in Workers, StartList(w) PROVE TypeInv'
  BY <1>2 DEF StartList
<1>3. ASSUME NEW w \in Workers, SeedRead(w) PROVE TypeInv'
  BY <1>3 DEF SeedRead
<1>4. ASSUME NEW w \in Workers, SeedCommit(w) PROVE TypeInv'
  BY <1>4 DEF SeedCommit, Row
<1>5. ASSUME NEW w \in Workers, SeedConflict(w) PROVE TypeInv'
  BY <1>5 DEF SeedConflict
<1>6. ASSUME NEW w \in Workers, Begin(w) PROVE TypeInv'
  BY <1>6 DEF Begin, Committed
<1>7. ASSUME NEW w \in Workers, RefuseSameAccount(w) PROVE TypeInv'
  BY <1>7 DEF RefuseSameAccount, Raise, Release
<1>8. ASSUME NEW w \in Workers, LockFrom(w) PROVE TypeInv'
  <2>1. lock' \in [Accounts -> Workers \cup {NoWorker}]
    BY <1>8, TakeRowType DEF LockFrom
  <2>2. seen' \in [Workers -> [from: Row, to: Row]]
    BY <1>8, RowOfType DEF LockFrom
  <2> QED
    BY <1>8, <2>1, <2>2 DEF LockFrom
<1>9. ASSUME NEW w \in Workers, LockTo(w) PROVE TypeInv'
  <2>1. lock' \in [Accounts -> Workers \cup {NoWorker}]
    BY <1>9, TakeRowType DEF LockTo
  <2>2. seen' \in [Workers -> [from: Row, to: Row]]
    BY <1>9, RowOfType DEF LockTo
  <2> QED
    BY <1>9, <2>1, <2>2 DEF LockTo
<1>10. ASSUME NEW w \in Workers, Check(w) PROVE TypeInv'
  BY <1>10 DEF Check
<1>11. ASSUME NEW w \in Workers, Refuse(w) PROVE TypeInv'
  BY <1>11 DEF Refuse, Raise, Release, Unread, NoAccount, Row
<1>12. ASSUME NEW w \in Workers, Debit(w) PROVE TypeInv'
  BY <1>12 DEF Debit, Stage
<1>13. ASSUME NEW w \in Workers, Credit(w) PROVE TypeInv'
  BY <1>13 DEF Credit, Stage
<1>14. ASSUME NEW w \in Workers, Journal(w) PROVE TypeInv'
  BY <1>14 DEF Journal, Stage
<1>15. ASSUME NEW w \in Workers, Seal(w) PROVE TypeInv'
  BY <1>15 DEF Seal, Stage
<1>16. ASSUME NEW w \in Workers, InjectFailure(w) PROVE TypeInv'
  BY <1>16 DEF InjectFailure, Raise, Release
<1>17. ASSUME NEW w \in Workers, Commit(w) PROVE TypeInv'
  <2>1. acct' \in [Accounts -> Row]
    BY <1>17, FlushedType DEF Commit, Flush
  <2>2. Before(w) \in Pair
    BY DEF Before, Row, Pair
  <2>3. record' \in [Workers -> [status: {"none", "committed", "rolled_back"},
                                before: Pair, after: Pair]]
    BY <1>17, <2>2, MovedType DEF Commit, Flush
  <2> QED
    BY <1>17, <2>1, <2>3 DEF Commit, Flush, Release, CommitAudit
<1>18. ASSUME NEW w \in Workers, Reload(w) PROVE TypeInv'
  BY <1>18 DEF Reload, RowOf, Row, NoAccount, Pair
<1>19. ASSUME NEW w \in Workers, ReloadTo(w) PROVE TypeInv'
  BY <1>19 DEF ReloadTo, RowOf, Row, NoAccount, Pair
<1>20. ASSUME NEW w \in Workers, Balances(w) PROVE TypeInv'
  BY <1>20 DEF Balances, RowOf, Row, NoAccount, Pair
<1>21. ASSUME NEW w \in Workers, BalancesTo(w) PROVE TypeInv'
  BY <1>21 DEF BalancesTo, RowOf, Row, NoAccount, Pair
<1>22. ASSUME NEW w \in Workers, PersistRollback(w) PROVE TypeInv'
  BY <1>22 DEF PersistRollback, Before, Row, Pair, RollbackAudit
<1>23. ASSUME NEW w \in Workers, PersistFails(w) PROVE TypeInv'
  BY <1>23 DEF PersistFails
<1>24. ASSUME NEW w \in Workers, Answer(w) PROVE TypeInv'
  BY <1>24 DEF Answer
<1>25. ASSUME NEW w \in Workers, Die(w) PROVE TypeInv'
  BY <1>25 DEF Die, Release
<1>26. CASE UNCHANGED vars
  BY <1>26 DEF vars
<1> QED
  BY <1>1, <1>2, <1>3, <1>4, <1>5, <1>6, <1>7, <1>8, <1>9, <1>10, <1>11, <1>12, <1>13,
     <1>14, <1>15, <1>16, <1>17, <1>18, <1>19, <1>20, <1>21, <1>22, <1>23, <1>24, <1>25,
     <1>26
  DEF Next, Arrive, Work, Crash, SerializationFailure, DeadlockVictim, Terminating

\* Every reachable state is well typed, so no balance is ever negative.
THEOREM TypeCorrect == Spec => []TypeOK
<1>1. TypeInv => TypeOK
  BY DEF TypeInv
<1> QED
  BY InitType, StepType, <1>1, PTL DEF Spec

-----------------------------------------------------------------------------
(* All traces or none *)

\* Steps before the request has written a row of its own.
Unwritten == Steps \ {"reload", "reloadTo", "answer", "done", "error"}

TraceInv ==
  \A w \in Workers :
    /\ pc[w] = "credit" => staged[w] = {"debit"}
    /\ pc[w] = "journal" => staged[w] = {"debit", "credit"}
    /\ pc[w] = "seal" => staged[w] = {"debit", "credit", "journal"}
    /\ pc[w] = "commit" => staged[w] = {"debit", "credit", "journal", "audit"}
    /\ pc[w] \notin {"credit", "journal", "seal", "commit"} => staged[w] = {}
    /\ pc[w] \in Unwritten => record[w].status = "none"
    /\ pc[w] \in {"reload", "reloadTo"} =>
         outcome[w] = "committed" /\ record[w].status = "committed"
    /\ pc[w] \in {"balances", "balancesTo", "persist"} => outcome[w] = "rolled_back"
    /\ pc[w] \in {"answer", "done"} =>
         /\ outcome[w] = "committed" => record[w].status = "committed"
         /\ outcome[w] = "rolled_back" => record[w].status # "committed"
    /\ pc[w] \in {"idle", "seedRead", "seedCommit", "begin", "lockFrom", "lockTo", "check",
                  "debit", "credit", "journal", "seal", "commit"} => outcome[w] = "none"

SafeInv == TypeInv /\ TraceInv /\ AllOrNothing

LEMMA InitSafe == Init => SafeInv
  BY InitType
  DEF Init, InitAt, SafeInv, TraceInv, AllOrNothing, NoRecord, Unwritten, Steps

LEMMA StepSafe == SafeInv /\ [Next]_vars => SafeInv'
<1> SUFFICES ASSUME SafeInv, [Next]_vars PROVE (TraceInv /\ AllOrNothing)'
  BY StepType DEF SafeInv
<1> USE DEF SafeInv, TypeInv, TypeOK, TraceInv, AllOrNothing, Unwritten, Steps,
            tables, locals, Goto
<1>1. ASSUME NEW w \in Workers, NEW r \in Requests, StartTransfer(w, r)
      PROVE  (TraceInv /\ AllOrNothing)'
  BY <1>1 DEF StartTransfer
<1>2. ASSUME NEW w \in Workers, StartList(w) PROVE (TraceInv /\ AllOrNothing)'
  BY <1>2 DEF StartList
<1>3. ASSUME NEW w \in Workers, SeedRead(w) PROVE (TraceInv /\ AllOrNothing)'
  BY <1>3 DEF SeedRead
<1>4. ASSUME NEW w \in Workers, SeedCommit(w) PROVE (TraceInv /\ AllOrNothing)'
  BY <1>4 DEF SeedCommit
<1>5. ASSUME NEW w \in Workers, SeedConflict(w) PROVE (TraceInv /\ AllOrNothing)'
  BY <1>5 DEF SeedConflict
<1>6. ASSUME NEW w \in Workers, Begin(w) PROVE (TraceInv /\ AllOrNothing)'
  BY <1>6 DEF Begin
<1>7. ASSUME NEW w \in Workers, Raise(w),
             pc[w] \in {"begin", "check", "debit", "credit", "journal", "seal"},
             UNCHANGED tables
      PROVE  (TraceInv /\ AllOrNothing)'
  BY <1>7 DEF Raise
<1>8. ASSUME NEW w \in Workers, LockFrom(w) \/ LockTo(w) \/ Check(w)
      PROVE  (TraceInv /\ AllOrNothing)'
  <2>1. CASE LockFrom(w)
    BY <2>1 DEF LockFrom
  <2>2. CASE LockTo(w)
    BY <2>2 DEF LockTo
  <2>3. CASE Check(w)
    BY <2>3 DEF Check
  <2> QED
    BY <1>8, <2>1, <2>2, <2>3
<1>9. ASSUME NEW w \in Workers, Debit(w) PROVE (TraceInv /\ AllOrNothing)'
  BY <1>9 DEF Debit, Stage
<1>10. ASSUME NEW w \in Workers, Credit(w) PROVE (TraceInv /\ AllOrNothing)'
  BY <1>10 DEF Credit, Stage
<1>11. ASSUME NEW w \in Workers, Journal(w) PROVE (TraceInv /\ AllOrNothing)'
  <2>1. /\ pc[w] = "journal" /\ pc' = [pc EXCEPT ![w] = "seal"]
        /\ staged' = [staged EXCEPT ![w] = {"debit", "credit", "journal"}]
        /\ UNCHANGED <<record, entries, audits, outcome>>
    <3>1. pc[w] = "journal" /\ staged[w] = {"debit", "credit"}
      BY <1>11 DEF Journal, Stage
    <3>2. staged[w] \cup {"journal"} = {"debit", "credit", "journal"}
      BY <3>1
    <3> QED
      BY <1>11, <3>1, <3>2 DEF Journal, Stage
  <2> QED
    BY <2>1
<1>12. ASSUME NEW w \in Workers, Seal(w) PROVE (TraceInv /\ AllOrNothing)'
  BY <1>12 DEF Seal, Stage
<1>13. ASSUME NEW w \in Workers, Commit(w) PROVE (TraceInv /\ AllOrNothing)'
  BY <1>13 DEF Commit, Flush
<1>14. ASSUME NEW w \in Workers, Reload(w) \/ ReloadTo(w) PROVE (TraceInv /\ AllOrNothing)'
  BY <1>14 DEF Reload, ReloadTo
<1>15. ASSUME NEW w \in Workers, Balances(w) \/ BalancesTo(w)
       PROVE  (TraceInv /\ AllOrNothing)'
  BY <1>15 DEF Balances, BalancesTo
<1>16. ASSUME NEW w \in Workers, PersistRollback(w) PROVE (TraceInv /\ AllOrNothing)'
  BY <1>16 DEF PersistRollback
<1>17. ASSUME NEW w \in Workers, PersistFails(w) PROVE (TraceInv /\ AllOrNothing)'
  BY <1>17 DEF PersistFails
<1>18. ASSUME NEW w \in Workers, Answer(w) PROVE (TraceInv /\ AllOrNothing)'
  BY <1>18 DEF Answer
<1>19. ASSUME NEW w \in Workers, Die(w) PROVE (TraceInv /\ AllOrNothing)'
  BY <1>19 DEF Die
<1>20. CASE UNCHANGED vars
  BY <1>20 DEF vars
<1>21. ASSUME NEW w \in Workers, RefuseSameAccount(w) \/ Refuse(w) \/ InjectFailure(w)
       PROVE  (TraceInv /\ AllOrNothing)'
  BY <1>7, <1>21 DEF RefuseSameAccount, Refuse, InjectFailure, FailsAfter, FailPoints
<1> QED
  BY <1>1, <1>2, <1>3, <1>4, <1>5, <1>6, <1>8, <1>9, <1>10, <1>11, <1>12, <1>13, <1>14,
     <1>15, <1>16, <1>17, <1>18, <1>19, <1>20, <1>21
  DEF Next, Arrive, Work, Crash, SerializationFailure, DeadlockVictim, Terminating

\* Whatever ends a request, its row, entries and audit trail agree.
THEOREM TransfersAreAtomic == Spec => []AllOrNothing
<1>1. SafeInv => AllOrNothing
  BY DEF SafeInv
<1> QED
  BY InitSafe, StepSafe, <1>1, PTL DEF Spec

\* No client is told the opposite of what the tables say.
THEOREM RepliesAreTrue == Spec => []ReplyIsTrue
<1>1. SafeInv => ReplyIsTrue
  BY DEF SafeInv, TypeInv, TypeOK, TraceInv, AllOrNothing, ReplyIsTrue
<1> QED
  BY InitSafe, StepSafe, <1>1, PTL DEF Spec

-----------------------------------------------------------------------------
(* No lost update on PostgreSQL *)

\* Steps of a transfer behind the seeding.
Serving == Steps \ {"idle", "seedRead", "seedCommit", "done", "error"}

\* Why a read row stays current: the request that read it holds its lock, and
\* the accounts exist before anyone reads, so seeding has nothing to insert.
LockInv ==
  \A w \in Workers :
    /\ pc[w] \in ReadFrom /\ req[w].from \in Accounts => lock[req[w].from] = w
    /\ pc[w] \in ReadTo /\ req[w].to \in Accounts => lock[req[w].to] = w
    /\ pc[w] \in ReadFrom \cup {"lockFrom"} => req[w].from # req[w].to
    /\ pc[w] = "seedCommit" => Accounts \ missing[w] \subseteq seeded
    /\ pc[w] \in Serving => seeded = Accounts /\ req[w] \in Requests
    /\ req[w] \in Requests \cup {NoRequest}

CurrentInv == SafeInv /\ LockInv /\ ReadsStayCurrent

LEMMA InitCurrent == Init => CurrentInv
  BY InitSafe
  DEF Init, InitAt, CurrentInv, LockInv, ReadsStayCurrent, Serving, ReadFrom, ReadTo, Steps

\* A request about to commit read two existing accounts and holds both.
LEMMA AtCommit ==
  ASSUME CurrentInv, NEW w \in Workers, pc[w] = "commit"
  PROVE  /\ req[w].from \in Accounts /\ req[w].to \in Accounts
         /\ req[w].from # req[w].to
         /\ lock[req[w].from] = w /\ lock[req[w].to] = w
         /\ seen[w].from = acct[req[w].from] /\ seen[w].to = acct[req[w].to]
         /\ seeded = Accounts
         /\ acct[req[w].from].balance >= req[w].amount
<1>1. /\ seen[w].from = RowOf(req[w].from) /\ seen[w].to = RowOf(req[w].to)
      /\ ~Refused(w)
      /\ seeded = Accounts
  BY DEF CurrentInv, SafeInv, TypeInv, CheckPassed, LockInv, ReadsStayCurrent,
         ReadFrom, ReadTo, Serving, Steps
<1>2. req[w].from \in Accounts /\ req[w].to \in Accounts
  BY <1>1 DEF Refused, RowOf
<1>3. seen[w].from = acct[req[w].from] /\ seen[w].to = acct[req[w].to]
  BY <1>1, <1>2 DEF RowOf
<1>4. acct[req[w].from].balance >= req[w].amount
  <2>1. acct[req[w].from].balance \in Nat /\ req[w].amount \in Nat
    BY <1>2 DEF CurrentInv, SafeInv, TypeInv, TypeOK, Row, TransferRequest, NoRequest
  <2> QED
    BY <1>1, <1>3, <2>1 DEF Refused
<1>5. /\ req[w].from # req[w].to
      /\ lock[req[w].from] = w /\ lock[req[w].to] = w
  BY <1>2 DEF CurrentInv, LockInv, ReadFrom, ReadTo
<1> QED
  BY <1>1, <1>2, <1>3, <1>4, <1>5

\* Seeding changes nothing once the accounts exist.
LEMMA SeedAgain ==
  ASSUME CurrentInv, NEW w \in Workers, SeedCommit(w)
  PROVE  /\ seeded' = Accounts
         /\ seeded = Accounts => UNCHANGED <<seeded, acct>>
<1>1. seeded' = Accounts
  BY DEF CurrentInv, SafeInv, TypeInv, TypeOK, LockInv, SeedCommit, Goto
<1>2. seeded = Accounts => missing[w] = {}
  BY DEF CurrentInv, SafeInv, TypeInv, TypeOK, SeedCommit
<1>3. seeded = Accounts => acct' = acct
  BY <1>2 DEF CurrentInv, SafeInv, TypeInv, TypeOK, SeedCommit
<1> QED
  BY <1>1, <1>3

LEMMA StepCurrent ==
  ASSUME Backend = "postgresql", CurrentInv, [Next]_vars
  PROVE  CurrentInv'
<1> SUFFICES (LockInv /\ ReadsStayCurrent)'
  BY StepSafe DEF CurrentInv
<1>0. TypeOK
  BY DEF CurrentInv, SafeInv, TypeInv
<1> USE AccountsAssumption, WorkersAssumption, <1>0
<1> USE DEF CurrentInv, TypeOK, LockInv, ReadsStayCurrent, Serving, ReadFrom, ReadTo, Steps,
            tables, locals, Goto, RowOf
<1>q. ASSUME NEW w \in Workers, NEW there \in Steps, pc' = [pc EXCEPT ![w] = there],
             pc[w] \in Serving, there \notin {"idle", "seedRead", "seedCommit", "lockFrom"},
             there \in ReadFrom => pc[w] \in ReadTo,
             UNCHANGED <<seeded, acct, lock, req, seen, missing>>
      PROVE  (LockInv /\ ReadsStayCurrent)'
  BY <1>q
<1>1. ASSUME NEW w \in Workers, NEW r \in Requests, StartTransfer(w, r)
      PROVE  (LockInv /\ ReadsStayCurrent)'
  BY <1>1 DEF StartTransfer
<1>2. ASSUME NEW w \in Workers, StartList(w) PROVE (LockInv /\ ReadsStayCurrent)'
  BY <1>2 DEF StartList
<1>3. ASSUME NEW w \in Workers, SeedRead(w) PROVE (LockInv /\ ReadsStayCurrent)'
  BY <1>3 DEF SeedRead
<1>4. ASSUME NEW w \in Workers, SeedCommit(w) PROVE (LockInv /\ ReadsStayCurrent)'
  <2>1. seeded' = Accounts /\ (seeded = Accounts => UNCHANGED <<seeded, acct>>)
    BY <1>4, SeedAgain
  <2>2. /\ UNCHANGED <<lock, req, seen, missing>>
        /\ pc[w] = "seedCommit"
        /\ pc' = [pc EXCEPT ![w] = IF req[w] = NoRequest THEN "done" ELSE "begin"]
    BY <1>4 DEF SeedCommit
  <2>3. ASSUME NEW v \in Workers, pc'[v] \in ReadFrom
        PROVE  pc'[v] = pc[v] /\ seeded = Accounts
    BY ZenonT(40), <2>2, <2>3
  <2>4. LockInv'
    BY <2>1, <2>2, <2>3
  <2>5. ReadsStayCurrent'
    BY <2>1, <2>2, <2>3
  <2> QED
    BY <2>4, <2>5
<1>5. ASSUME NEW w \in Workers, SeedConflict(w) PROVE (LockInv /\ ReadsStayCurrent)'
  BY <1>5 DEF SeedConflict
<1>6. ASSUME NEW w \in Workers, Begin(w) PROVE (LockInv /\ ReadsStayCurrent)'
  BY <1>6 DEF Begin
<1>7. ASSUME NEW w \in Workers, Release(w), pc' = [pc EXCEPT ![w] = "balances"],
             pc[w] \in Serving, seen' = seen \/ seen' = [seen EXCEPT ![w] = Unread],
             UNCHANGED <<tables, req, missing>>
      PROVE  (LockInv /\ ReadsStayCurrent)'
  BY <1>7 DEF Release
<1>8. ASSUME NEW w \in Workers, LockFrom(w) PROVE (LockInv /\ ReadsStayCurrent)'
  BY <1>8 DEF LockFrom, TakeRow
<1>9. ASSUME NEW w \in Workers, LockTo(w) PROVE (LockInv /\ ReadsStayCurrent)'
  BY <1>9 DEF LockTo, TakeRow
<1>10. ASSUME NEW w \in Workers, Check(w) PROVE (LockInv /\ ReadsStayCurrent)'
  BY <1>10 DEF Check
<1>11. ASSUME NEW w \in Workers, Debit(w) \/ Credit(w) \/ Journal(w) \/ Seal(w)
       PROVE  (LockInv /\ ReadsStayCurrent)'
  <2>1. UNCHANGED <<seeded, acct, lock, req, seen, missing>>
    BY <1>11 DEF Debit, Credit, Journal, Seal, Stage
  <2>2. PICK there \in {"credit", "journal", "seal", "commit"} :
          pc[w] \in {"debit", "credit", "journal", "seal"} /\ pc' = [pc EXCEPT ![w] = there]
    BY <1>11 DEF Debit, Credit, Journal, Seal, Stage
  <2> QED
    BY <1>q, <2>1, <2>2
<1>12. ASSUME NEW w \in Workers, Commit(w) PROVE (LockInv /\ ReadsStayCurrent)'
  <2>1. ASSUME NEW v \in Workers, v # w, NEW a \in Accounts, lock[a] = v
        PROVE  acct'[a] = acct[a] /\ lock'[a] = v
    BY <1>12, <2>1, AtCommit DEF Commit, Flush, Flushed, Release
  <2> QED
    BY <1>12, <2>1 DEF Commit, Flush
<1>13. ASSUME NEW w \in Workers, Reload(w) \/ ReloadTo(w) \/ Balances(w) \/ BalancesTo(w)
       PROVE  (LockInv /\ ReadsStayCurrent)'
  <2>1. UNCHANGED <<seeded, acct, lock, req, seen, missing>>
    BY <1>13 DEF Reload, ReloadTo, Balances, BalancesTo
  <2>2. PICK there \in {"answer", "reloadTo", "balancesTo", "persist"} :
          pc[w] \in Serving /\ pc' = [pc EXCEPT ![w] = there]
    BY <1>13 DEF Reload, ReloadTo, Balances, BalancesTo
  <2> QED
    BY <1>q, <2>1, <2>2
<1>14. ASSUME NEW w \in Workers, PersistRollback(w) \/ PersistFails(w) \/ Answer(w)
       PROVE  (LockInv /\ ReadsStayCurrent)'
  <2>1. UNCHANGED <<seeded, acct, lock, req, seen, missing>>
    BY <1>14 DEF PersistRollback, PersistFails, Answer
  <2>2. PICK there \in {"answer", "done"} :
          pc[w] \in Serving /\ pc' = [pc EXCEPT ![w] = there]
    BY <1>14 DEF PersistRollback, PersistFails, Answer
  <2> QED
    BY <1>q, <2>1, <2>2
<1>15. ASSUME NEW w \in Workers, Die(w) PROVE (LockInv /\ ReadsStayCurrent)'
  BY <1>15 DEF Die, Release
<1>16. CASE UNCHANGED vars
  BY <1>16 DEF vars
<1>17. ASSUME NEW w \in Workers, RefuseSameAccount(w) \/ Refuse(w) \/ InjectFailure(w)
       PROVE  (LockInv /\ ReadsStayCurrent)'
  BY <1>7, <1>17 DEF RefuseSameAccount, Refuse, InjectFailure, FailsAfter, FailPoints, Raise
<1> QED
  BY <1>1, <1>2, <1>3, <1>4, <1>5, <1>6, <1>8, <1>9, <1>10, <1>11, <1>12, <1>13, <1>14,
     <1>15, <1>16, <1>17
  DEF Next, Arrive, Work, Crash, SerializationFailure, DeadlockVictim, Terminating

\* On PostgreSQL what a transfer read for update is still the table's row when
\* it commits.
THEOREM ReadsAreCurrent == Backend = "postgresql" => (Spec => []ReadsStayCurrent)
<1> SUFFICES ASSUME Backend = "postgresql" PROVE Spec => []ReadsStayCurrent
  OBVIOUS
<1>1. CurrentInv /\ [Next]_vars => CurrentInv'
  BY StepCurrent
<1>2. CurrentInv => ReadsStayCurrent
  BY DEF CurrentInv
<1> QED
  BY InitCurrent, <1>1, <1>2, PTL DEF Spec

-----------------------------------------------------------------------------
(* The ledger implements the bank *)

\* An account without a row still stands for its starting balance.
FreshInv == \A a \in Accounts \ seeded : acct[a].balance = Starting[a]

Unseen ==
  /\ UNCHANGED <<seeded, acct>>
  /\ Committed' = Committed
  /\ \A v \in Committed : req'[v] = req[v]

\* Only the seeding and the commit of a transfer do what a bank can see.
LEMMA StepKinds ==
  ASSUME SafeInv, [Next]_vars
  PROVE  Unseen \/ \E w \in Workers : SeedCommit(w) \/ Commit(w)
<1> USE DEF Unseen, Committed, tables, locals, Goto
<1>0. /\ record \in [Workers -> [status: {"none", "committed", "rolled_back"},
                                before: Pair, after: Pair]]
      /\ req \in [Workers -> TransferRequest \cup {NoRequest}]
      /\ \A w \in Workers : pc[w] \in Unwritten => record[w].status = "none"
  BY DEF SafeInv, TypeInv, TypeOK, TraceInv
<1>1. ASSUME NEW w \in Workers, Arrive(w) PROVE Unseen
  <2>1. w \notin Committed
    BY <1>0, <1>1 DEF Arrive, StartList, StartTransfer, Unwritten, Steps
  <2>2. CASE StartList(w)
    BY <2>2 DEF StartList
  <2>3. ASSUME NEW r \in Requests, StartTransfer(w, r) PROVE Unseen
    BY <1>0, <2>1, <2>3 DEF StartTransfer
  <2> QED
    BY <1>1, <2>2, <2>3 DEF Arrive
<1>2. ASSUME NEW w \in Workers, PersistRollback(w) PROVE Unseen
  <2>1. record[w].status = "none"
    BY <1>0, <1>2 DEF PersistRollback, Unwritten, Steps
  <2>2. \A v \in Workers : record'[v].status = "committed" <=> record[v].status = "committed"
    BY <1>0, <1>2, <2>1 DEF PersistRollback
  <2> QED
    BY <1>2, <2>2 DEF PersistRollback
<1>3. ASSUME NEW w \in Workers,
             \/ SeedRead(w) \/ SeedConflict(w) \/ Begin(w) \/ RefuseSameAccount(w)
             \/ LockFrom(w) \/ LockTo(w) \/ Check(w) \/ Refuse(w) \/ InjectFailure(w)
      PROVE  Unseen
  BY <1>3 DEF SeedRead, SeedConflict, Begin, RefuseSameAccount, LockFrom, LockTo, Check,
              Refuse, InjectFailure
<1>4. ASSUME NEW w \in Workers,
             \/ Debit(w) \/ Credit(w) \/ Journal(w) \/ Seal(w)
             \/ Reload(w) \/ ReloadTo(w) \/ Balances(w) \/ BalancesTo(w)
             \/ PersistFails(w) \/ Answer(w) \/ Die(w)
      PROVE  Unseen
  <2>1. UNCHANGED <<seeded, acct, record, req>>
    BY <1>4 DEF Debit, Credit, Journal, Seal, Stage, Reload, ReloadTo, Balances, BalancesTo,
                PersistFails, Answer, Die
  <2> QED
    BY <2>1
<1>5. CASE UNCHANGED vars
  BY <1>5 DEF vars
<1> QED
  BY <1>1, <1>2, <1>3, <1>4, <1>5
  DEF Next, Work, Crash, SerializationFailure, DeadlockVictim, Terminating

LEMMA StepFresh ==
  ASSUME CurrentInv, FreshInv, [Next]_vars
  PROVE  FreshInv'
<1>1. CASE Unseen
  BY <1>1 DEF Unseen, FreshInv
<1>2. ASSUME NEW w \in Workers, SeedCommit(w) PROVE FreshInv'
  BY <1>2, SeedAgain DEF FreshInv
<1>3. ASSUME NEW w \in Workers, Commit(w) PROVE FreshInv'
  BY <1>3, AtCommit DEF FreshInv, Commit, Flush, Goto
<1> QED
  BY <1>1, <1>2, <1>3, StepKinds DEF CurrentInv

\* A commit takes the amount from one balance and adds it to the other.
LEMMA CommitBalances ==
  ASSUME CurrentInv, NEW w \in Workers, Commit(w)
  PROVE  /\ req[w] \in Requests /\ req[w].amount \in Nat
         /\ req[w].from \in Accounts /\ req[w].to \in Accounts /\ req[w].from # req[w].to
         /\ acct[req[w].from].balance >= req[w].amount
         /\ \A a \in Accounts :
              acct'[a].balance = IF a = req[w].from THEN acct[a].balance - req[w].amount
                                 ELSE IF a = req[w].to THEN acct[a].balance + req[w].amount
                                 ELSE acct[a].balance
         /\ Committed' = Committed \cup {w} /\ w \notin Committed
         /\ seeded = Accounts /\ UNCHANGED <<req, seeded>>
<1>1. pc[w] = "commit"
  BY DEF Commit, Goto
<1>2. TypeOK /\ staged[w] = {"debit", "credit", "journal", "audit"}
              /\ record[w].status = "none" /\ req[w] \in Requests
  BY <1>1 DEF CurrentInv, SafeInv, TypeInv, TraceInv, LockInv, Unwritten, Serving, Steps
<1> DEFINE f == req[w].from
           t == req[w].to
           n == req[w].amount
<1>3. /\ f \in Accounts /\ t \in Accounts /\ f # t /\ seeded = Accounts
      /\ seen[w].from = acct[f] /\ seen[w].to = acct[t]
      /\ acct[f].balance >= n
  BY <1>1, AtCommit
<1>4. /\ Moved(w).from = acct[f].balance - n
      /\ Moved(w).to = acct[t].balance + n
  BY <1>3 DEF Moved
<1>5. \A a \in Accounts :
        acct'[a].balance = IF a = f THEN acct[a].balance - n
                           ELSE IF a = t THEN acct[a].balance + n
                           ELSE acct[a].balance
  <2> TAKE a \in Accounts
  <2>1. acct'[a] = Flushed(w, a)
    BY DEF Commit, Flush
  <2>0. "debit" \in staged[w] /\ "credit" \in staged[w] /\ f # t
    BY <1>2, <1>3
  <2>2. CASE a = f
    <3>1. Flushed(w, a) = [balance |-> Moved(w).from, version |-> seen[w].from.version + 1]
      BY <2>0, <2>2 DEF Flushed
    <3> QED
      BY <1>4, <2>1, <2>2, <3>1
  <2>3. CASE a = t /\ a # f
    <3>1. Flushed(w, a) = [balance |-> Moved(w).to, version |-> seen[w].to.version + 1]
      BY <2>0, <2>3 DEF Flushed
    <3> QED
      BY <1>4, <2>1, <2>3, <3>1
  <2>4. CASE a # t /\ a # f
    BY <2>1, <2>4 DEF Flushed
  <2> QED
    BY <1>3, <2>2, <2>3, <2>4
<1>6. Committed' = Committed \cup {w} /\ w \notin Committed
  BY <1>2 DEF Commit, Flush, Committed, TypeOK
<1>7. n \in Nat
  BY <1>2, AccountsAssumption DEF TransferRequest
<1>8. UNCHANGED <<req, seeded>>
  BY DEF Commit, Flush
<1> QED
  BY <1>2, <1>3, <1>5, <1>6, <1>7, <1>8

\* A commit is one move of the bank, on the balances of that moment.
LEMMA CommitIsMove ==
  ASSUME CurrentInv, NEW w \in Workers, Commit(w)
  PROVE  Abstract!BankNext
<1> DEFINE f == req[w].from
           t == req[w].to
           n == req[w].amount
<1>1. /\ req[w] \in Requests /\ f \in Accounts /\ t \in Accounts /\ f # t
      /\ acct[f].balance >= n
      /\ \A a \in Accounts :
           acct'[a].balance = IF a = f THEN acct[a].balance - n
                              ELSE IF a = t THEN acct[a].balance + n
                              ELSE acct[a].balance
      /\ Committed' = Committed \cup {w} /\ w \notin Committed
      /\ seeded = Accounts /\ UNCHANGED <<req, seeded>>
  BY CommitBalances
<1>2. [a \in Accounts |-> acct'[a].balance] =
        [[a \in Accounts |-> acct[a].balance]
           EXCEPT ![f] = @ - n, ![t] = @ + n]
  BY <1>1
<1>3. {Line(v, req'[v]) : v \in Committed'} =
        {Line(v, req[v]) : v \in Committed} \cup {Line(w, req[w])}
  BY <1>1
<1>4. \A done \in {Line(v, req[v]) : v \in Committed} : done.id # w
  BY <1>1 DEF Line
<1>5. PICK m \in {Line(v, r) : v \in Workers,
                  r \in {q \in Requests : {q.from, q.to} \subseteq Accounts}} :
             m = Line(w, req[w])
  BY <1>1
<1>6. m.id = w /\ m.from = f /\ m.to = t /\ m.amount = n
  BY <1>5 DEF Line
<1> HIDE DEF f, t, n
<1>7. Abstract!MoveMoney(m)
  BY SMTT(40), <1>1, <1>2, <1>3, <1>4, <1>5, <1>6 DEF Abstract!MoveMoney
<1> QED
  BY <1>7 DEF Abstract!BankNext

LEMMA StepImplementsBank ==
  ASSUME CurrentInv, FreshInv, [Next]_vars
  PROVE  [Abstract!BankNext]_Abstract!bankVars
<1>1. CASE Unseen
  <2>1. {Line(v, req'[v]) : v \in Committed'} = {Line(v, req[v]) : v \in Committed}
    BY <1>1 DEF Unseen
  <2> QED
    BY <1>1, <2>1 DEF Unseen, Abstract!bankVars
<1>2. ASSUME NEW w \in Workers, SeedCommit(w)
      PROVE  [Abstract!BankNext]_Abstract!bankVars
  <2>1. /\ missing[w] \in SUBSET Accounts /\ missing[w] \cap seeded = {}
        /\ seeded' = seeded \cup missing[w]
        /\ UNCHANGED <<record, req>>
    BY <1>2 DEF SeedCommit, CurrentInv, SafeInv, TypeInv, TypeOK
  <2>2. \A a \in Accounts : acct'[a].balance = acct[a].balance
    BY <1>2, <2>1 DEF SeedCommit, FreshInv
  <2>3. [a \in Accounts |-> acct'[a].balance] = [a \in Accounts |-> acct[a].balance]
    BY <2>2
  <2>4. Committed' = Committed
    BY <2>1 DEF Committed
  <2>5. {Line(v, req'[v]) : v \in Committed'} = {Line(v, req[v]) : v \in Committed}
    BY <2>1, <2>4
  <2>6. CASE missing[w] = {}
    BY <2>1, <2>3, <2>5, <2>6 DEF Abstract!bankVars
  <2>7. CASE missing[w] # {}
    <3>1. Abstract!Open(missing[w])
      BY <2>1, <2>3, <2>5, <2>7 DEF Abstract!Open
    <3> QED
      BY <2>1, <3>1 DEF Abstract!BankNext
  <2> QED
    BY <2>6, <2>7
<1>3. ASSUME NEW w \in Workers, Commit(w)
      PROVE  [Abstract!BankNext]_Abstract!bankVars
  BY <1>3, CommitIsMove
<1> QED
  BY <1>1, <1>2, <1>3, StepKinds DEF CurrentInv

LEMMA InitImplementsBank == Init => Abstract!BankInit /\ FreshInv
<1> SUFFICES ASSUME Init PROVE Abstract!BankInit /\ FreshInv
  OBVIOUS
<1>1. \A a \in Accounts : acct[a].balance = Starting[a]
  BY DEF Init, InitAt
<1>2. [a \in Accounts |-> acct[a].balance] = Starting
  BY <1>1, AccountsAssumption
<1>3. Committed = {} /\ seeded = {}
  BY DEF Init, InitAt, Committed, NoRecord
<1> QED
  BY <1>1, <1>2, <1>3 DEF Abstract!BankInit, FreshInv

\* On PostgreSQL the transfers of concurrent requests are atomic moves of
\* money, whatever the requests, the interleaving, the failures and crashes.
THEOREM LedgerImplementsBank == Backend = "postgresql" => (Spec => ImplementsBank)
<1> SUFFICES ASSUME Backend = "postgresql" PROVE Spec => ImplementsBank
  OBVIOUS
<1>1. Init => CurrentInv /\ FreshInv /\ Abstract!BankInit
  BY InitCurrent, InitImplementsBank
<1>2. CurrentInv /\ FreshInv /\ [Next]_vars => (CurrentInv /\ FreshInv)'
  BY StepCurrent, StepFresh
<1>3. CurrentInv /\ FreshInv /\ [Next]_vars => [Abstract!BankNext]_Abstract!bankVars
  BY StepImplementsBank
<1> QED
  BY <1>1, <1>2, <1>3, PTL DEF Spec, ImplementsBank, Abstract!BankSpec
-----------------------------------------------------------------------------
(* Only transfers move money *)

\* On either database: the row of an account that exists changes only when a
\* transfer from or to it commits, never when a request seeds the accounts.
THEOREM MoneyMovesByTransfer == Spec => OnlyTransfersMoveMoney
<1> DEFINE ByTransfer(a) ==
      \E w \in Workers :
        /\ record[w].status # "committed" /\ record'[w].status = "committed"
        /\ Touches(w, a)
<1>1. ASSUME SafeInv, [Next]_vars, NEW a \in seeded, acct'[a] # acct[a] PROVE ByTransfer(a)
  <2>0. /\ a \in Accounts /\ pc \in [Workers -> Steps]
        /\ record \in [Workers -> [status: {"none", "committed", "rolled_back"},
                                   before: Pair, after: Pair]]
        /\ \A w \in Workers : pc[w] = "commit" => record[w].status = "none"
    BY <1>1 DEF SafeInv, TypeInv, TypeOK, TraceInv, Unwritten, Steps
  <2>1. PICK w \in Workers : SeedCommit(w) \/ Commit(w)
    BY <1>1, StepKinds DEF Unseen
  <2>2. CASE SeedCommit(w)
    BY <1>1, <2>0, <2>2 DEF SeedCommit
  <2>3. CASE Commit(w)
    <3>1. Touches(w, a)
      BY <1>1, <2>0, <2>3 DEF Commit, Flush, Flushed, Touches
    <3>2. record[w].status # "committed" /\ record'[w].status = "committed"
      BY <2>0, <2>3 DEF Commit, Flush, Goto
    <3> QED
      BY <3>1, <3>2
  <2> QED
    BY <2>1, <2>2, <2>3
<1>2. SafeInv /\ [Next]_vars => \A a \in seeded : acct'[a] # acct[a] => ByTransfer(a)
  BY <1>1
<1> QED
  BY <1>2, InitSafe, StepSafe, PTL DEF Spec, OnlyTransfersMoveMoney

-----------------------------------------------------------------------------
(* No balance without its journal *)

\* What the transfers of some requests amount to.
Amounts(asked, S) == MapThenSumSet(LAMBDA w : asked[w].amount, S)

\* A sum over all parts of D in which any request may be taken first.
IsTotal(asked, total, D) ==
  /\ total \in [SUBSET D -> Int]
  /\ total[{}] = 0
  /\ \A s \in SUBSET D : \A w \in s : total[s] = asked[w].amount + total[s \ {w}]

\* Of some parts of a finite set, one has no other of them in it.
LEMMA LeastPart ==
  ASSUME NEW D, IsFiniteSet(D), NEW parts \in SUBSET (SUBSET D), parts # {}
  PROVE  \E s \in parts : \A t \in parts : t \subseteq s => t = s
<1>1. IsWellFoundedOn(StrictSubsetOrdering(D), SUBSET D)
  BY FS_StrictSubsetOrderingWellFounded, FS_FiniteSubsetsOfFinite
<1>2. PICK s \in parts : \A t \in parts : ~(<<t, s>> \in StrictSubsetOrdering(D))
  BY <1>1, WFMin
<1> QED
  BY <1>2 DEF StrictSubsetOrdering

LEMMA TotalExists ==
  ASSUME NEW D, IsFiniteSet(D), NEW asked, \A w \in D : asked[w].amount \in Int
  PROVE  \E total : IsTotal(asked, total, D)
<1> DEFINE without == {s \in SUBSET D : \A total : ~IsTotal(asked, total, s)}
<1> SUFFICES ASSUME without # {} PROVE FALSE
  OBVIOUS
<1>1. PICK s \in without : \A t \in without : t \subseteq s => t = s
  <2>1. without \in SUBSET (SUBSET D)
    OBVIOUS
  <2> HIDE DEF without
  <2> QED
    BY <2>1, LeastPart
<1>2. s # {}
  <2>1. IsTotal(asked, [t \in {{}} |-> 0], {})
    BY DEF IsTotal
  <2> QED
    BY <2>1
<1>3. PICK w \in s : TRUE
  BY <1>2
<1> DEFINE rest == s \ {w}
<1>4. PICK total : IsTotal(asked, total, rest)
  BY <1>1, <1>3
<1> DEFINE n == asked[w].amount
           more == [t \in SUBSET s |-> IF w \in t THEN n + total[t \ {w}] ELSE total[t]]
<1>5. n \in Int /\ \A t \in SUBSET s : t \ {w} \in SUBSET rest /\ (w \notin t => t \in SUBSET rest)
  OBVIOUS
<1>6. /\ \A t \in SUBSET rest : total[t] \in Int
      /\ total[{}] = 0
      /\ \A t \in SUBSET rest : \A v \in t : total[t] = asked[v].amount + total[t \ {v}]
  BY <1>4 DEF IsTotal
<1>7. more \in [SUBSET s -> Int] /\ more[{}] = 0
  BY <1>5, <1>6
<1>8. ASSUME NEW t \in SUBSET s, NEW v \in t PROVE more[t] = asked[v].amount + more[t \ {v}]
  <2>0. t \ {v} \in SUBSET s /\ t \ {w} \in SUBSET rest /\ v \in D
    BY <1>5
  <2>1. CASE v = w
    BY <1>5, <2>0, <2>1
  <2>2. CASE v # w /\ w \notin t
    BY <1>5, <1>6, <2>0, <2>2
  <2>3. CASE v # w /\ w \in t
    <3>1. more[t] = n + total[t \ {w}] /\ more[t \ {v}] = n + total[(t \ {v}) \ {w}]
      BY <2>0, <2>3
    <3>2. total[t \ {w}] = asked[v].amount + total[(t \ {w}) \ {v}]
      BY <1>6, <2>0, <2>3
    <3>3. (t \ {v}) \ {w} = (t \ {w}) \ {v} /\ (t \ {w}) \ {v} \in SUBSET rest
      BY <2>0
    <3>4. total[(t \ {w}) \ {v}] \in Int /\ asked[v].amount \in Int
      BY <1>6, <2>0, <3>3
    <3> HIDE DEF more, n, rest
    <3>5. more[t] = n + (asked[v].amount + total[(t \ {w}) \ {v}])
      BY <3>1, <3>2
    <3>6. more[t \ {v}] = n + total[(t \ {w}) \ {v}]
      BY <3>1, <3>3
    <3>7. \A a, b, c \in Int : a + (b + c) = b + (a + c)
      OBVIOUS
    <3> QED
      BY <1>5, <3>4, <3>5, <3>6, <3>7
  <2> QED
    BY <2>1, <2>2, <2>3
<1>9. IsTotal(asked, more, s)
  <2> HIDE DEF more
  <2> QED
    BY <1>7, <1>8 DEF IsTotal
<1> QED
  BY <1>9

\* What MapThenSumSet computes is that sum.
LEMMA AmountsAreTotal ==
  ASSUME NEW D, IsFiniteSet(D), NEW asked, NEW total, IsTotal(asked, total, D)
  PROVE  Amounts(asked, D) = total[D]
<1> DEFINE First(s) == CHOOSE w \in s : TRUE
           Folds(g) == g = [s \in SUBSET D |->
                              IF s = {} THEN 0
                              ELSE asked[CHOOSE w \in s : TRUE].amount + g[s \ {CHOOSE w \in s : TRUE}]]
           fold == CHOOSE g : Folds(g)
<1>1. /\ total = [s \in SUBSET D |-> total[s]] /\ total[{}] = 0
      /\ \A s \in SUBSET D : s # {} => First(s) \in s /\ total[s] = asked[First(s)].amount + total[s \ {First(s)}]
  BY DEF IsTotal
<1>2. Folds(total)
  BY <1>1
<1>3. Folds(fold)
  <2> HIDE DEF Folds
  <2> QED
    BY <1>2
<1>4. Amounts(asked, D) = fold[D]
  BY Zenon DEF Amounts, MapThenSumSet, MapThenFoldSet
<1>5. /\ fold[{}] = 0
      /\ \A s \in SUBSET D : s # {} => fold[s] = asked[First(s)].amount + fold[s \ {First(s)}]
  <2> HIDE DEF fold
  <2> QED
    BY <1>3
<1> DEFINE differ == {s \in SUBSET D : fold[s] # total[s]}
<1> HIDE DEF fold, Folds, First
<1>6. differ = {}
  <2> SUFFICES ASSUME differ # {} PROVE FALSE
    OBVIOUS
  <2>1. PICK s \in differ : \A t \in differ : t \subseteq s => t = s
    <3>1. differ \in SUBSET (SUBSET D)
      OBVIOUS
    <3> HIDE DEF differ
    <3> QED
      BY <3>1, LeastPart
  <2>2. s # {}
    BY <1>1, <1>5
  <2>3. s \ {First(s)} \notin differ /\ s \ {First(s)} \in SUBSET D
    BY <1>1, <2>1, <2>2
  <2> QED
    BY <1>1, <1>5, <2>2, <2>3
<1>7. D \in SUBSET D
  OBVIOUS
<1> QED
  BY <1>4, <1>6, <1>7

\* One transfer more adds its amount.
LEMMA AmountsAdd ==
  ASSUME NEW D, IsFiniteSet(D), NEW asked, \A w \in D : asked[w].amount \in Int
  PROVE  /\ Amounts(asked, {}) = 0
         /\ \A w \in D : Amounts(asked, D) = asked[w].amount + Amounts(asked, D \ {w})
         /\ Amounts(asked, D) \in Int
<1>1. PICK total : IsTotal(asked, total, D)
  BY TotalExists
<1>2. Amounts(asked, D) = total[D]
  BY <1>1, AmountsAreTotal
<1>3. ASSUME NEW s \in SUBSET D PROVE Amounts(asked, s) = total[s]
  <2> DEFINE part == [t \in SUBSET s |-> total[t]]
  <2>1. IsTotal(asked, part, s)
    <3>1. \A t \in SUBSET s : t \in SUBSET D /\ \A w \in t : t \ {w} \in SUBSET s
      OBVIOUS
    <3> QED
      BY <1>1, <3>1 DEF IsTotal
  <2>2. IsFiniteSet(s)
    BY FS_Subset
  <2>3. part[s] = total[s]
    OBVIOUS
  <2> HIDE DEF part
  <2> QED
    BY <2>1, <2>2, <2>3, AmountsAreTotal
<1>4. {} \in SUBSET D /\ D \in SUBSET D /\ \A w \in D : D \ {w} \in SUBSET D
  OBVIOUS
<1> QED
  BY <1>1, <1>2, <1>3, <1>4 DEF IsTotal

\* The committed transfers from and to an account.
Paid(a) == {w \in Committed : req[w].from = a}
Received(a) == {w \in Committed : req[w].to = a}

\* Sums depend on nothing but the amounts they are of.
LEMMA AmountsAgree ==
  ASSUME NEW D, IsFiniteSet(D), NEW asked, NEW other,
         \A w \in D : asked[w].amount \in Int /\ other[w].amount = asked[w].amount
  PROVE  Amounts(other, D) = Amounts(asked, D)
<1>1. PICK total : IsTotal(asked, total, D)
  BY TotalExists
<1>2. IsTotal(other, total, D)
  <2>1. \A s \in SUBSET D : \A w \in s : other[w].amount = asked[w].amount
    OBVIOUS
  <2> QED
    BY <1>1, <2>1 DEF IsTotal
<1> QED
  BY <1>1, <1>2, AmountsAreTotal

\* Each balance is the starting one, plus what was received, minus what was
\* paid, also while the account has no row.
BooksInv ==
  \A a \in Accounts :
    /\ IsFiniteSet(Paid(a)) /\ IsFiniteSet(Received(a))
    /\ acct[a].balance + Amounts(req, Paid(a)) = Starting[a] + Amounts(req, Received(a))

\* The journal has an entry of each committed transfer and of no other.
LEMMA JournalOfCommitted ==
  ASSUME SafeInv
  PROVE  \A a : Debited(a) = Paid(a) /\ Credited(a) = Received(a)
<1>1. \A w \in Workers : record[w].status \in {"none", "committed", "rolled_back"}
  BY DEF SafeInv, TypeInv, TypeOK
<1>2. \A w \in Workers :
        entries[w] = IF record[w].status = "committed" THEN {"debit", "credit"} ELSE {}
  BY <1>1 DEF SafeInv, AllOrNothing
<1> QED
  BY <1>2 DEF Debited, Credited, Paid, Received, Committed

LEMMA AmountsTyped ==
  ASSUME TypeOK PROVE \A w \in Workers : req[w].amount \in Int
BY DEF TypeOK, TransferRequest, NoRequest

LEMMA StepBooks ==
  ASSUME CurrentInv, FreshInv, BooksInv, [Next]_vars
  PROVE  BooksInv'
<1> SUFFICES ASSUME NEW a \in Accounts
             PROVE  /\ IsFiniteSet(Paid(a)') /\ IsFiniteSet(Received(a)')
                    /\ acct'[a].balance + Amounts(req', Paid(a)')
                         = Starting[a] + Amounts(req', Received(a)')
  BY DEF BooksInv
<1>0. /\ IsFiniteSet(Paid(a)) /\ IsFiniteSet(Received(a))
      /\ acct[a].balance + Amounts(req, Paid(a)) = Starting[a] + Amounts(req, Received(a))
  BY DEF BooksInv
<1>1. TypeOK /\ \A w \in Workers : req[w].amount \in Int
  BY AmountsTyped DEF CurrentInv, SafeInv, TypeInv
<1>2. acct[a].balance \in Nat /\ Starting[a] \in Nat
  BY <1>1, AccountsAssumption DEF TypeOK, Row
<1>3. Paid(a) \subseteq Workers /\ Received(a) \subseteq Workers
  BY DEF Paid, Received, Committed
<1>4. ASSUME Unseen \/ \E w \in Workers : SeedCommit(w),
             acct'[a].balance = acct[a].balance,
             Committed' = Committed, \A v \in Committed : req'[v] = req[v]
      PROVE  /\ IsFiniteSet(Paid(a)') /\ IsFiniteSet(Received(a)')
             /\ acct'[a].balance + Amounts(req', Paid(a)')
                  = Starting[a] + Amounts(req', Received(a)')
  <2>1. Paid(a)' = Paid(a) /\ Received(a)' = Received(a)
    BY <1>4 DEF Paid, Received
  <2>2. /\ \A w \in Paid(a) : req[w].amount \in Int /\ req'[w].amount = req[w].amount
        /\ \A w \in Received(a) : req[w].amount \in Int /\ req'[w].amount = req[w].amount
    BY <1>1, <1>3, <1>4 DEF Paid, Received
  <2>3. /\ Amounts(req', Paid(a)) = Amounts(req, Paid(a))
        /\ Amounts(req', Received(a)) = Amounts(req, Received(a))
    BY <1>0, <2>2, AmountsAgree
  <2> QED
    BY <1>0, <1>4, <2>1, <2>3
<1>5. CASE Unseen
  BY <1>4, <1>5 DEF Unseen
<1>6. ASSUME NEW w \in Workers, SeedCommit(w)
      PROVE  /\ IsFiniteSet(Paid(a)') /\ IsFiniteSet(Received(a)')
             /\ acct'[a].balance + Amounts(req', Paid(a)')
                  = Starting[a] + Amounts(req', Received(a)')
  <2>1. /\ missing[w] \in SUBSET Accounts /\ missing[w] \cap seeded = {}
        /\ UNCHANGED <<record, req>>
    BY <1>1, <1>6 DEF SeedCommit, TypeOK
  <2>2. acct'[a].balance = acct[a].balance
    BY <1>6, <2>1 DEF SeedCommit, FreshInv
  <2>3. Committed' = Committed
    BY <2>1 DEF Committed
  <2> QED
    BY <1>4, <1>6, <2>1, <2>2, <2>3
<1>7. ASSUME NEW w \in Workers, Commit(w)
      PROVE  /\ IsFiniteSet(Paid(a)') /\ IsFiniteSet(Received(a)')
             /\ acct'[a].balance + Amounts(req', Paid(a)')
                  = Starting[a] + Amounts(req', Received(a)')
  <2> DEFINE n == req[w].amount
  <2>1. /\ n \in Nat /\ req[w].from # req[w].to /\ req' = req
        /\ Committed' = Committed \cup {w} /\ w \notin Committed
        /\ acct'[a].balance = IF a = req[w].from THEN acct[a].balance - n
                              ELSE IF a = req[w].to THEN acct[a].balance + n
                              ELSE acct[a].balance
    BY <1>7, CommitBalances
  <2>2. /\ Paid(a)' = IF a = req[w].from THEN Paid(a) \cup {w} ELSE Paid(a)
        /\ Received(a)' = IF a = req[w].to THEN Received(a) \cup {w} ELSE Received(a)
        /\ w \notin Paid(a) /\ w \notin Received(a)
    BY <2>1 DEF Paid, Received
  <2>3. ASSUME NEW D \in SUBSET Workers, IsFiniteSet(D), w \notin D
        PROVE  /\ IsFiniteSet(D \cup {w})
               /\ Amounts(req, D) \in Int
               /\ Amounts(req, D \cup {w}) = n + Amounts(req, D)
    <3>1. IsFiniteSet(D \cup {w})
      BY <2>3, FS_AddElement
    <3>2. (D \cup {w}) \ {w} = D /\ \A v \in D \cup {w} : req[v].amount \in Int
      BY <1>1, <2>3
    <3>3. Amounts(req, D) \in Int
      BY <2>3, <3>2, AmountsAdd
    <3>4. \A v \in D \cup {w} : Amounts(req, D \cup {w}) = req[v].amount + Amounts(req, (D \cup {w}) \ {v})
      BY <3>1, <3>2, AmountsAdd
    <3>5. Amounts(req, D \cup {w}) = req[w].amount + Amounts(req, D)
      BY <3>2, <3>4
    <3> QED
      BY <3>1, <3>3, <3>5
  <2> DEFINE p == Amounts(req, Paid(a))
             r == Amounts(req, Received(a))
  <2>4. p \in Int /\ r \in Int
    BY <1>0, <1>3, <2>2, <2>3
  <2>5. IsFiniteSet(Paid(a)') /\ IsFiniteSet(Received(a)')
    BY <1>0, <1>3, <2>2, <2>3
  <2>6. /\ Amounts(req', Paid(a)') = IF a = req[w].from THEN n + p ELSE p
        /\ Amounts(req', Received(a)') = IF a = req[w].to THEN n + r ELSE r
    BY <1>0, <1>3, <2>1, <2>2, <2>3
  <2>7. acct[a].balance + p = Starting[a] + r
    BY <1>0
  <2> HIDE DEF p, r, n
  <2> QED
    BY <1>2, <2>1, <2>4, <2>5, <2>6, <2>7
<1> QED
  BY <1>5, <1>6, <1>7, StepKinds DEF CurrentInv

LEMMA InitBooks == Init => BooksInv
<1> SUFFICES ASSUME Init, NEW a \in Accounts
             PROVE  /\ IsFiniteSet(Paid(a)) /\ IsFiniteSet(Received(a))
                    /\ acct[a].balance + Amounts(req, Paid(a))
                         = Starting[a] + Amounts(req, Received(a))
  BY DEF BooksInv
<1>1. acct[a].balance = Starting[a]
  BY DEF Init, InitAt
<1>2. Paid(a) = {} /\ Received(a) = {}
  BY DEF Init, InitAt, Paid, Received, Committed, NoRecord
<1> QED
  BY <1>1, <1>2, FS_EmptySet

\* On PostgreSQL no update of a balance is lost: each is the seeded one plus
\* the credits and minus the debits of the journal, after any number of
\* transfers that meet, fail and crash. (On SQLite it is not.)
THEOREM NoUpdateIsLost == Backend = "postgresql" => (Spec => []BalanceMatchesJournal)
<1> SUFFICES ASSUME Backend = "postgresql" PROVE Spec => []BalanceMatchesJournal
  OBVIOUS
<1>1. Init => CurrentInv /\ FreshInv /\ BooksInv
  BY InitCurrent, InitImplementsBank, InitBooks
<1>2. CurrentInv /\ FreshInv /\ BooksInv /\ [Next]_vars => (CurrentInv /\ FreshInv /\ BooksInv)'
  BY StepCurrent, StepFresh, StepBooks
<1>3. CurrentInv /\ BooksInv => BalanceMatchesJournal
  <2> SUFFICES ASSUME CurrentInv, BooksInv, NEW a \in seeded
               PROVE  acct[a].balance + MapThenSumSet(Amount, Debited(a))
                        = Starting[a] + MapThenSumSet(Amount, Credited(a))
    BY DEF BalanceMatchesJournal
  <2>1. a \in Accounts /\ Debited(a) = Paid(a) /\ Credited(a) = Received(a)
    BY JournalOfCommitted DEF CurrentInv, SafeInv, TypeInv, TypeOK
  <2>2. acct[a].balance + Amounts(req, Debited(a)) = Starting[a] + Amounts(req, Credited(a))
    BY <2>1 DEF BooksInv
  <2> QED
    BY <2>2, Zenon DEF Amounts, Amount
<1> QED
  BY <1>1, <1>2, <1>3, PTL DEF Spec

-----------------------------------------------------------------------------
(* Whole transfers, on either backend *)

\* The transfers of S, all committed, are what has moved row r of account a.
Explains(S, a, r) ==
  /\ S \subseteq Committed /\ IsFiniteSet(S)
  /\ \A v \in S : Touches(v, a)
  /\ r.version = 1 + Cardinality(S)
  /\ r.balance + Amounts(req, {v \in S : req[v].from = a})
       = Starting[a] + Amounts(req, {v \in S : req[v].to = a})

IsWhole(a, r) == \E S \in SUBSET Workers : Explains(S, a, r)

WholeRows(a) == {r \in [balance : Int, version : Nat] : IsWhole(a, r)}

\* Not only the rows are whole, also those a request has read and will compute
\* the new ones from, however old they are when it does.
WholeInv ==
  /\ \A a \in Accounts : acct[a] \in WholeRows(a)
  /\ \A w \in Workers :
       /\ pc[w] \in ReadFrom \cup {"lockFrom"} => req[w].from # req[w].to
       /\ pc[w] \in ReadFrom /\ seen[w].from # NoAccount =>
            req[w].from \in Accounts /\ seen[w].from \in WholeRows(req[w].from)
       /\ pc[w] \in ReadTo /\ seen[w].to # NoAccount =>
            req[w].to \in Accounts /\ seen[w].to \in WholeRows(req[w].to)

\* No transfer explains the row an account is created with.
LEMMA NewIsWhole ==
  ASSUME NEW a \in Accounts
  PROVE  /\ [balance |-> Starting[a], version |-> 1] \in WholeRows(a)
         /\ [balance |-> Starting[a], version |-> 1] \in WholeRows(a)'
<1> DEFINE r == [balance |-> Starting[a], version |-> 1]
<1>1. Starting[a] \in Nat
  BY AccountsAssumption
<1>2. IsFiniteSet({}) /\ Cardinality({}) = 0
  BY FS_EmptySet
<1>3. \A asked : Amounts(asked, {}) = 0
  <2> TAKE asked
  <2> QED
    BY <1>2, AmountsAdd
<1>4. Explains({}, a, r)
  BY <1>1, <1>2, <1>3 DEF Explains
<1>5. Explains({}, a, r)'
  BY <1>1, <1>2, <1>3 DEF Explains
<1> QED
  BY <1>1, <1>4, <1>5 DEF IsWhole, WholeRows

\* What explained a row still does after more commits.
LEMMA WholeStays ==
  ASSUME SafeInv, Committed \subseteq Committed', \A v \in Committed : req'[v] = req[v],
         NEW a \in Accounts, NEW r \in WholeRows(a)
  PROVE  r \in WholeRows(a)'
<1>1. PICK S \in SUBSET Workers : Explains(S, a, r)
  BY DEF IsWhole, WholeRows
<1> DEFINE P == {v \in S : req[v].from = a}
           Q == {v \in S : req[v].to = a}
<1>2. \A v \in S : req'[v] = req[v]
  BY <1>1 DEF Explains
<1>3. {v \in S : req'[v].from = a} = P /\ {v \in S : req'[v].to = a} = Q
  BY <1>2
<1>4. \A v \in S : req[v].amount \in Int /\ req'[v].amount = req[v].amount
  BY <1>1, <1>2, AmountsTyped DEF SafeInv, TypeInv
<1>5. IsFiniteSet(P) /\ IsFiniteSet(Q)
  BY <1>1, FS_Subset DEF Explains
<1>6. Amounts(req', P) = Amounts(req, P) /\ Amounts(req', Q) = Amounts(req, Q)
  BY <1>4, <1>5, AmountsAgree
<1>7. \A v \in S : Touches(v, a)'
  BY <1>1, <1>2 DEF Explains, Touches
<1>8. Explains(S, a, r)'
  BY <1>1, <1>3, <1>6, <1>7 DEF Explains
<1> QED
  BY <1>8 DEF IsWhole, WholeRows

\* A request that commits computes its new rows from whole rows; its own
\* transfer is the one more that explains them.
LEMMA CommitIsWhole ==
  ASSUME SafeInv, NEW w \in Workers, Commit(w),
         req[w].from # req[w].to, NEW a \in Accounts, Touches(w, a),
         NEW r \in WholeRows(a)
  PROVE  [balance |-> IF a = req[w].from THEN r.balance - req[w].amount
                      ELSE r.balance + req[w].amount,
          version |-> r.version + 1] \in WholeRows(a)'
<1> DEFINE n == req[w].amount
           new == [balance |-> IF a = req[w].from THEN r.balance - n ELSE r.balance + n,
                   version |-> r.version + 1]
<1>1. PICK S \in SUBSET Workers : Explains(S, a, r)
  BY DEF IsWhole, WholeRows
<1> DEFINE P == {v \in S : req[v].from = a}
           Q == {v \in S : req[v].to = a}
           T == S \cup {w}
<1>2. /\ Committed' = Committed \cup {w} /\ w \notin Committed /\ req' = req
  <2>1. TypeOK /\ pc[w] = "commit" /\ record[w].status = "none"
    BY DEF Commit, Goto, SafeInv, TypeInv, TraceInv, Unwritten, Steps
  <2> QED
    BY <2>1 DEF Commit, Flush, Committed, TypeOK
<1>3. \A v \in Workers : req[v].amount \in Int
  BY AmountsTyped DEF SafeInv, TypeInv
<1>4. w \notin S /\ IsFiniteSet(S)
  BY <1>1, <1>2 DEF Explains
<1>5. IsFiniteSet(T) /\ Cardinality(T) = Cardinality(S) + 1
  BY <1>4, FS_AddElement
<1>6. ASSUME NEW D \in SUBSET S
      PROVE  /\ Amounts(req, D) \in Int
             /\ Amounts(req, D \cup {w}) = n + Amounts(req, D)
  <2>1. IsFiniteSet(D) /\ IsFiniteSet(D \cup {w})
    BY <1>4, FS_Subset, FS_AddElement
  <2>2. /\ \A v \in D : req[v].amount \in Int
        /\ \A v \in D \cup {w} : req[v].amount \in Int
        /\ (D \cup {w}) \ {w} = D
    BY <1>3, <1>4
  <2>3. Amounts(req, D) \in Int
    BY <2>1, <2>2, AmountsAdd
  <2>4. \A v \in D \cup {w} :
          Amounts(req, D \cup {w}) = req[v].amount + Amounts(req, (D \cup {w}) \ {v})
    BY <2>1, <2>2, AmountsAdd
  <2>5. Amounts(req, D \cup {w}) = req[w].amount + Amounts(req, (D \cup {w}) \ {w})
    BY <2>4
  <2> QED
    BY <2>2, <2>3, <2>5
<1>7. Amounts(req, P) \in Int /\ Amounts(req, Q) \in Int
  BY <1>6
<1>8. /\ r.version = 1 + Cardinality(S)
      /\ r.balance + Amounts(req, P) = Starting[a] + Amounts(req, Q)
  BY <1>1 DEF Explains
<1>9. /\ r.balance \in Int /\ Starting[a] \in Nat /\ n \in Int
      /\ r.version \in Nat /\ Cardinality(S) \in Nat
  BY <1>3, <1>4, AccountsAssumption, FS_CardinalityType DEF WholeRows
<1>10. new.balance + Amounts(req, {v \in T : req[v].from = a})
         = Starting[a] + Amounts(req, {v \in T : req[v].to = a})
  <2>1. CASE a = req[w].from
    <3>1. {v \in T : req[v].from = a} = P \cup {w} /\ {v \in T : req[v].to = a} = Q
      BY <2>1
    <3>2. Amounts(req, P \cup {w}) = n + Amounts(req, P)
      BY <1>6
    <3>3. new.balance = r.balance - n
      BY <2>1
    <3>4. /\ Amounts(req, {v \in T : req[v].from = a}) = n + Amounts(req, P)
          /\ Amounts(req, {v \in T : req[v].to = a}) = Amounts(req, Q)
      BY <3>1, <3>2
    <3> HIDE DEF n, P, Q, T, new
    <3> QED
      BY <1>7, <1>8, <1>9, <3>3, <3>4
  <2>2. CASE a # req[w].from
    <3>1. a = req[w].to
      BY <2>2 DEF Touches
    <3>2. {v \in T : req[v].from = a} = P /\ {v \in T : req[v].to = a} = Q \cup {w}
      BY <2>2, <3>1
    <3>3. Amounts(req, Q \cup {w}) = n + Amounts(req, Q)
      BY <1>6
    <3>4. new.balance = r.balance + n
      BY <2>2
    <3>5. /\ Amounts(req, {v \in T : req[v].from = a}) = Amounts(req, P)
          /\ Amounts(req, {v \in T : req[v].to = a}) = n + Amounts(req, Q)
      BY <3>2, <3>3
    <3> HIDE DEF n, P, Q, T, new
    <3> QED
      BY <1>7, <1>8, <1>9, <3>4, <3>5
  <2> QED
    BY <2>1, <2>2
<1>11. T \subseteq Committed' /\ \A v \in T : Touches(v, a)'
  BY <1>1, <1>2 DEF Explains, Touches
<1>12. new.version = 1 + Cardinality(T)
  BY <1>5, <1>8, <1>9
<1>13. PICK q : q = new
  OBVIOUS
<1>14. Explains(T, a, q)'
  <2> HIDE DEF new, T
  <2> QED
    BY <1>2, <1>5, <1>10, <1>11, <1>12, <1>13 DEF Explains
<1>15. q \in [balance : Int, version : Nat]
  BY <1>9, <1>13
<1>16. q \in WholeRows(a)'
  <2>1. T \in SUBSET Workers
    OBVIOUS
  <2> HIDE DEF new, T
  <2> QED
    BY <1>14, <1>15, <2>1 DEF IsWhole, WholeRows
<1> QED
  BY <1>13, <1>16

\* How a request comes to stand between its reads and its commit.
LEMMA ReadSteps ==
  ASSUME SafeInv, [Next]_vars, NEW w \in Workers,
         pc'[w] \in ReadFrom \cup {"lockFrom"}
  PROVE  \/ Begin(w) \/ LockFrom(w) \/ LockTo(w)
         \/ /\ req'[w] = req[w] /\ seen'[w] = seen[w]
            /\ pc[w] \in ReadFrom \cup {"lockFrom"}
            /\ pc'[w] \in ReadFrom => pc[w] \in ReadFrom
            /\ pc'[w] \in ReadTo => pc[w] \in ReadTo
<1> DEFINE Kept == /\ req'[w] = req[w] /\ seen'[w] = seen[w]
                   /\ pc[w] \in ReadFrom \cup {"lockFrom"}
                   /\ pc'[w] \in ReadFrom => pc[w] \in ReadFrom
                   /\ pc'[w] \in ReadTo => pc[w] \in ReadTo
<1> USE DEF SafeInv, TypeInv, TypeOK, tables, locals, Goto, ReadFrom, ReadTo
<1>1. ASSUME NEW v \in Workers, Arrive(v) PROVE Kept
  BY <1>1 DEF Arrive, StartTransfer, StartList
<1>2. ASSUME NEW v \in Workers, SeedRead(v) \/ SeedCommit(v) \/ SeedConflict(v) PROVE Kept
  BY <1>2 DEF SeedRead, SeedCommit, SeedConflict
<1>3. ASSUME NEW v \in Workers, Begin(v) PROVE Begin(w) \/ Kept
  BY <1>3 DEF Begin
<1>4. ASSUME NEW v \in Workers, LockFrom(v) PROVE LockFrom(w) \/ Kept
  BY <1>4 DEF LockFrom
<1>5. ASSUME NEW v \in Workers, LockTo(v) PROVE LockTo(w) \/ Kept
  BY <1>5 DEF LockTo
<1>6. ASSUME NEW v \in Workers, RefuseSameAccount(v) \/ Refuse(v) \/ InjectFailure(v)
      PROVE  Kept
  BY <1>6 DEF RefuseSameAccount, Refuse, InjectFailure, Raise
<1>7. ASSUME NEW v \in Workers, Check(v) \/ Debit(v) \/ Credit(v) \/ Journal(v) \/ Seal(v)
      PROVE  Kept
  BY <1>7 DEF Check, Debit, Credit, Journal, Seal, Stage
<1>8. ASSUME NEW v \in Workers, Commit(v) PROVE Kept
  BY <1>8 DEF Commit, Flush
<1>9. ASSUME NEW v \in Workers,
             \/ Reload(v) \/ ReloadTo(v) \/ Balances(v) \/ BalancesTo(v)
             \/ PersistRollback(v) \/ PersistFails(v) \/ Answer(v)
      PROVE  Kept
  BY <1>9 DEF Reload, ReloadTo, Balances, BalancesTo, PersistRollback, PersistFails, Answer
<1>10. ASSUME NEW v \in Workers, Die(v) PROVE Kept
  BY <1>10 DEF Die
<1>11. CASE UNCHANGED vars
  BY <1>11 DEF vars
<1> HIDE DEF Kept
<1> QED
  BY <1>1, <1>2, <1>3, <1>4, <1>5, <1>6, <1>7, <1>8, <1>9, <1>10, <1>11
  DEF Next, Work, Crash, SerializationFailure, DeadlockVictim, Terminating, Kept

LEMMA StepWhole ==
  ASSUME SafeInv, WholeInv, [Next]_vars
  PROVE  WholeInv'
<1>1. /\ Committed \subseteq Committed' /\ \A v \in Committed : req'[v] = req[v]
  <2>1. CASE Unseen
    BY <2>1 DEF Unseen
  <2>2. ASSUME NEW v \in Workers, SeedCommit(v)
        PROVE  UNCHANGED <<record, req>>
    BY <2>2 DEF SeedCommit, locals
  <2>3. ASSUME NEW v \in Workers, Commit(v)
        PROVE  Committed \subseteq Committed' /\ req' = req
    BY <2>3 DEF Commit, Flush, Committed, SafeInv, TypeInv, TypeOK
  <2> QED
    BY <2>1, <2>2, <2>3, StepKinds DEF Committed
<1>2. ASSUME NEW a \in Accounts PROVE acct'[a] \in WholeRows(a)'
  <2>0. acct[a] \in WholeRows(a)
    BY DEF WholeInv
  <2>1. ASSUME acct'[a] = acct[a] PROVE acct'[a] \in WholeRows(a)'
    <3>1. PICK q : q = acct[a]
      OBVIOUS
    <3>2. q \in WholeRows(a)'
      BY <1>1, <2>0, <3>1, WholeStays
    <3> QED
      BY <2>1, <3>1, <3>2
  <2>2. CASE Unseen
    BY <2>1, <2>2 DEF Unseen
  <2>3. ASSUME NEW v \in Workers, SeedCommit(v) PROVE acct'[a] \in WholeRows(a)'
    <3>1. CASE a \in missing[v]
      <4>1. acct'[a] = [balance |-> Starting[a], version |-> 1]
        BY <2>3, <3>1 DEF SeedCommit
      <4> QED
        BY <4>1, NewIsWhole
    <3>2. CASE a \notin missing[v]
      BY <2>1, <2>3, <3>2 DEF SeedCommit
    <3> QED
      BY <3>1, <3>2
  <2>4. ASSUME NEW v \in Workers, Commit(v) PROVE acct'[a] \in WholeRows(a)'
    <3> DEFINE f == req[v].from
               t == req[v].to
               n == req[v].amount
    <3>1. /\ pc[v] = "commit" /\ acct'[a] = Flushed(v, a)
          /\ "debit" \in staged[v] /\ "credit" \in staged[v] /\ ~Refused(v)
      BY <2>4 DEF Commit, Flush, Goto, SafeInv, TypeInv, TypeOK, TraceInv, CheckPassed
    <3>2. /\ f # t
          /\ seen[v].from \in WholeRows(f) /\ seen[v].to \in WholeRows(t)
      BY <3>1 DEF WholeInv, ReadFrom, ReadTo, Refused, SafeInv, TypeInv, TypeOK
    <3>3. CASE a = f
      <4>1. PICK q : q = seen[v].from
        BY <3>2
      <4>2. [balance |-> q.balance - n, version |-> q.version + 1] \in WholeRows(a)'
        BY <2>4, <3>2, <3>3, <4>1, CommitIsWhole DEF Touches
      <4>3. acct'[a] = [balance |-> q.balance - n, version |-> q.version + 1]
        BY <3>1, <3>2, <3>3, <4>1 DEF Flushed, Moved
      <4> QED
        BY <4>2, <4>3
    <3>4. CASE a = t
      <4>1. PICK q : q = seen[v].to
        BY <3>2
      <4>2. [balance |-> q.balance + n, version |-> q.version + 1] \in WholeRows(a)'
        BY <2>4, <3>2, <3>4, <4>1, CommitIsWhole DEF Touches
      <4>3. acct'[a] = [balance |-> q.balance + n, version |-> q.version + 1]
        BY <3>1, <3>2, <3>4, <4>1 DEF Flushed, Moved
      <4> QED
        BY <4>2, <4>3
    <3>5. CASE a # f /\ a # t
      BY <2>1, <3>1, <3>5 DEF Flushed
    <3> QED
      BY <3>3, <3>4, <3>5
  <2> QED
    BY <2>2, <2>3, <2>4, StepKinds
<1>3. ASSUME NEW w \in Workers, NEW a, NEW r, r = RowOf(a), r # NoAccount
      PROVE  a \in Accounts /\ r \in WholeRows(a)'
  <2>1. a \in Accounts /\ r = acct[a]
    BY <1>3 DEF RowOf, SafeInv, TypeInv, TypeOK
  <2> QED
    BY <1>1, <2>1, WholeStays DEF WholeInv
<1>4. ASSUME NEW w \in Workers
      PROVE  (/\ pc[w] \in ReadFrom \cup {"lockFrom"} => req[w].from # req[w].to
              /\ pc[w] \in ReadFrom /\ seen[w].from # NoAccount =>
                   req[w].from \in Accounts /\ seen[w].from \in WholeRows(req[w].from)
              /\ pc[w] \in ReadTo /\ seen[w].to # NoAccount =>
                   req[w].to \in Accounts /\ seen[w].to \in WholeRows(req[w].to))'
  <2> SUFFICES ASSUME pc'[w] \in ReadFrom \cup {"lockFrom"}
               PROVE  /\ req'[w].from # req'[w].to
                      /\ pc'[w] \in ReadFrom /\ seen'[w].from # NoAccount =>
                           req'[w].from \in Accounts /\ seen'[w].from \in WholeRows(req[w].from)'
                      /\ pc'[w] \in ReadTo /\ seen'[w].to # NoAccount =>
                           req'[w].to \in Accounts /\ seen'[w].to \in WholeRows(req[w].to)'
    BY DEF ReadTo
  <2>0. TypeOK
    BY DEF SafeInv, TypeInv
  <2>1. PICK f : f = req[w].from
    OBVIOUS
  <2>2. PICK t : t = req[w].to
    OBVIOUS
  <2>3. ASSUME req'[w] = req[w], seen'[w].from = seen[w].from, pc[w] \in ReadFrom,
               seen[w].from # NoAccount
        PROVE  req'[w].from \in Accounts /\ seen'[w].from \in WholeRows(req[w].from)'
    <3>1. PICK r : r = seen[w].from
      OBVIOUS
    <3>2. f \in Accounts /\ r \in WholeRows(f)'
      BY <1>1, <2>1, <2>3, <3>1, WholeStays DEF WholeInv
    <3> QED
      BY <2>1, <2>3, <3>1, <3>2
  <2>4. ASSUME req'[w] = req[w], seen'[w].to = seen[w].to, pc[w] \in ReadTo,
               seen[w].to # NoAccount
        PROVE  req'[w].to \in Accounts /\ seen'[w].to \in WholeRows(req[w].to)'
    <3>1. PICK r : r = seen[w].to
      OBVIOUS
    <3>2. t \in Accounts /\ r \in WholeRows(t)'
      BY <1>1, <2>2, <2>4, <3>1, WholeStays DEF WholeInv
    <3> QED
      BY <2>2, <2>4, <3>1, <3>2
  <2>5. CASE Begin(w)
    <3>1. pc'[w] = "lockFrom" /\ req'[w] = req[w] /\ req[w].from # req[w].to
      BY <2>0, <2>5 DEF Begin, Goto, TypeOK
    <3> QED
      BY <3>1 DEF ReadFrom, ReadTo
  <2>6. CASE LockFrom(w)
    <3>1. /\ pc[w] = "lockFrom" /\ pc'[w] = "lockTo" /\ req'[w] = req[w]
          /\ seen'[w].from = RowOf(f)
      BY <2>0, <2>1, <2>6 DEF LockFrom, Goto, TypeOK
    <3>2. req[w].from # req[w].to
      BY <3>1 DEF WholeInv
    <3>3. PICK r : r = RowOf(f)
      OBVIOUS
    <3>4. r # NoAccount => f \in Accounts /\ r \in WholeRows(f)'
      BY <1>3, <3>3
    <3>5. seen'[w].from # NoAccount =>
            req'[w].from \in Accounts /\ seen'[w].from \in WholeRows(req[w].from)'
      BY <2>1, <3>1, <3>3, <3>4
    <3> QED
      BY <3>1, <3>2, <3>5 DEF ReadTo
  <2>7. CASE LockTo(w)
    <3>1. /\ pc[w] = "lockTo" /\ pc'[w] = "check" /\ req'[w] = req[w]
          /\ seen'[w].to = RowOf(t) /\ seen'[w].from = seen[w].from
      BY <2>0, <2>2, <2>7 DEF LockTo, Goto, TypeOK
    <3>2. req[w].from # req[w].to /\ pc[w] \in ReadFrom
      BY <3>1 DEF WholeInv, ReadFrom
    <3>3. PICK r : r = RowOf(t)
      OBVIOUS
    <3>4. r # NoAccount => t \in Accounts /\ r \in WholeRows(t)'
      BY <1>3, <3>3
    <3>5. seen'[w].to # NoAccount =>
            req'[w].to \in Accounts /\ seen'[w].to \in WholeRows(req[w].to)'
      BY <2>2, <3>1, <3>3, <3>4
    <3> QED
      BY <2>3, <3>1, <3>2, <3>5
  <2>8. CASE /\ req'[w] = req[w] /\ seen'[w] = seen[w]
             /\ pc[w] \in ReadFrom \cup {"lockFrom"}
             /\ pc'[w] \in ReadFrom => pc[w] \in ReadFrom
             /\ pc'[w] \in ReadTo => pc[w] \in ReadTo
    <3>1. req'[w].from # req'[w].to
      BY <2>8 DEF WholeInv
    <3> QED
      BY <2>3, <2>4, <2>8, <3>1
  <2> QED
    BY <2>5, <2>6, <2>7, <2>8, ReadSteps
<1> QED
  BY <1>2, <1>4 DEF WholeInv

LEMMA InitWhole == Init => WholeInv
<1> SUFFICES ASSUME Init PROVE WholeInv
  OBVIOUS
<1>1. \A a \in Accounts : acct[a] = [balance |-> Starting[a], version |-> 1]
  BY DEF Init, InitAt
<1>2. \A a \in Accounts : acct[a] \in WholeRows(a)
  BY <1>1, NewIsWhole
<1>3. \A w \in Workers : pc[w] \notin ReadFrom \cup {"lockFrom"}
  BY DEF Init, InitAt, ReadFrom
<1> QED
  BY <1>2, <1>3 DEF WholeInv, ReadTo

\* On either backend every balance is that of whole committed transfers, as
\* many as the row's version says, also where one of them overwrites another:
\* what a request computes from an old row is old, but never half a transfer.
THEOREM BalancesAreWhole == Spec => []BalanceIsOfWholeTransfers
<1>1. Init => SafeInv /\ WholeInv
  BY InitSafe, InitWhole
<1>2. SafeInv /\ WholeInv /\ [Next]_vars => (SafeInv /\ WholeInv)'
  BY StepSafe, StepWhole
<1>3. SafeInv /\ WholeInv => BalanceIsOfWholeTransfers
  <2> SUFFICES ASSUME SafeInv, WholeInv, NEW a \in seeded
               PROVE  \E S \in SUBSET {w \in Committed : Touches(w, a)} :
                        /\ acct[a].version = 1 + Cardinality(S)
                        /\ acct[a].balance + MapThenSumSet(Amount, {w \in S : req[w].from = a})
                             = Starting[a] + MapThenSumSet(Amount, {w \in S : req[w].to = a})
    BY DEF BalanceIsOfWholeTransfers
  <2>1. a \in Accounts
    BY DEF SafeInv, TypeInv, TypeOK
  <2>2. PICK S \in SUBSET Workers : Explains(S, a, acct[a])
    BY <2>1 DEF WholeInv, WholeRows, IsWhole
  <2>3. S \in SUBSET {w \in Committed : Touches(w, a)}
    BY <2>2 DEF Explains
  <2>4. acct[a].version = 1 + Cardinality(S)
    BY <2>2 DEF Explains
  <2>5. acct[a].balance + MapThenSumSet(Amount, {w \in S : req[w].from = a})
          = Starting[a] + MapThenSumSet(Amount, {w \in S : req[w].to = a})
    <3>1. acct[a].balance + Amounts(req, {w \in S : req[w].from = a})
            = Starting[a] + Amounts(req, {w \in S : req[w].to = a})
      BY <2>2 DEF Explains
    <3> QED
      BY <3>1, Zenon DEF Amounts, Amount
  <2> QED
    BY <2>3, <2>4, <2>5
<1> QED
  BY <1>1, <1>2, <1>3, PTL DEF Spec

=============================================================================
