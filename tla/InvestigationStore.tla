------------------------- MODULE InvestigationStore -------------------------
(***************************************************************************)
(* The investigation store of apps/api/store.py and the requests that      *)
(* write to it: POST, DELETE and DELETE one of /investigations, and the    *)
(* merchant routes that index what they measured. One action per SQL       *)
(* statement or commit, so that requests interleave between them.          *)
(*                                                                         *)
(* Evidence ids are derived from what the evidence is about (a document    *)
(* chunk, a metric of a merchant over a window), so requests share them.   *)
(* The engine is created with the default isolation:                       *)
(*   "postgresql"  READ COMMITTED: a statement sees the last commits, a    *)
(*                 write waits for the transaction that holds the row;     *)
(*   "sqlite"      one transaction writes at a time, the others are        *)
(*                 refused when they have waited too long.                 *)
(***************************************************************************)
EXTENDS Naturals, FiniteSets

CONSTANTS
  Workers,    \* one per HTTP request; also the id of the run it creates
  Evidence,   \* evidence ids
  NoOwner,    \* an evidence row whose investigation_id is NULL
  NoRow,      \* no evidence row
  NoItem,     \* no evidence item at hand
  Cases       \* the database, and the request each worker will get

Create(items) == [kind |-> "create", items |-> items, target |-> NoRow]
Metrics(items) == [kind |-> "metrics", items |-> items, target |-> NoRow]
Delete(w) == [kind |-> "delete", items |-> {}, target |-> w]
DeleteAll == [kind |-> "delete_all", items |-> {}, target |-> NoRow]

StoreRequest ==
  {Create(S) : S \in SUBSET Evidence} \cup {Metrics(S) : S \in SUBSET Evidence}
    \cup {Delete(w) : w \in Workers} \cup {DeleteAll}

Case == [backend: {"sqlite", "postgresql"}, asks: [Workers -> StoreRequest]]

ASSUME StoreConstants ==
  /\ {NoOwner, NoRow} \cap Workers = {}
  /\ NoOwner # NoRow
  /\ NoItem \notin Evidence
  /\ Cases \subseteq Case

VARIABLES
  backend,   \* "sqlite" or "postgresql"
  runs,      \* investigation_runs: the status of each run's row; "erased"
             \* is a row that was there and is not any more
  index,     \* evidence_index: the owner column of each row
  audit,     \* RESEARCH_STARTED and RESEARCH_COMPLETED rows of each run
  pc,        \* next step of each request; a number is the reply it got
  req,       \* the request, from before it arrives
  result,    \* how the investigation of a create request ended
  bundle,    \* the evidence the request puts into the index
  todo,      \* evidence ids it still has to write or erase
  item,      \* the evidence id it is about to write or erase
  found,     \* what the row of that id held when it was read
  ids,       \* the runs a delete request has read
  touched,   \* evidence rows its open transaction wrote or erased
  writing    \* requests whose transaction has written something

tables == <<runs, index, audit>>
asked == <<backend, req>>
locals == <<result, bundle, todo, item, found, ids>>
vars == <<asked, tables, pc, locals, touched, writing>>

Replies == {"200", "201", "204", "404", "500", "lost"}
Steps == {"idle", "run", "put", "next", "write", "close", "find", "list",
          "erase", "aim", "strike", "remove"} \cup Replies

Ended(w) == pc[w] \in Replies

Goto(w, here, there) == pc[w] = here /\ pc' = [pc EXCEPT ![w] = there]

\* session.get(InvestigationRun, id) finds a row.
Stored(w) == runs[w] \in {"completed", "failed"}

-----------------------------------------------------------------------------
(* The database *)

\* PostgreSQL: v holds the row w is about to write.
WaitsFor(w, v) ==
  /\ backend = "postgresql"
  /\ pc[w] \in {"write", "strike"}
  /\ v # w
  /\ item[w] \in touched[v]

\* The next write of w need not wait.
MayWrite(w) ==
  IF backend = "sqlite" THEN writing \subseteq {w}
  ELSE \A v \in Workers : ~WaitsFor(w, v)

\* The statement of w on its item has been executed.
WroteItem(w) ==
  /\ touched' = [touched EXCEPT ![w] = @ \cup {item[w]}]
  /\ writing' = writing \cup {w}
  /\ item' = [item EXCEPT ![w] = NoItem]
  /\ found' = [found EXCEPT ![w] = NoRow]

\* The transaction of w ends, one way or the other, and with it what w was at.
EndTransaction(w) ==
  /\ todo' = [todo EXCEPT ![w] = {}]
  /\ item' = [item EXCEPT ![w] = NoItem]
  /\ found' = [found EXCEPT ![w] = NoRow]
  /\ ids' = [ids EXCEPT ![w] = {}]
  /\ touched' = [touched EXCEPT ![w] = {}]
  /\ writing' = writing \ {w}

\* Variant: the connection is not closed and keeps its locks.
FailHoldingRows(w, reply) ==
  /\ pc' = [pc EXCEPT ![w] = reply]
  /\ UNCHANGED <<tables, asked, locals, touched, writing>>

\* An exception nothing catches: the session is closed, which rolls back.
Fail(w, reply) ==
  /\ pc' = [pc EXCEPT ![w] = reply]
  /\ EndTransaction(w)
  /\ UNCHANGED <<tables, asked, result, bundle>>

-----------------------------------------------------------------------------
(* POST /investigations *)

\* An unknown merchant, a bad id or window: refused before anything is written.
Reject(w) ==
  /\ req[w].kind \in {"create", "metrics"}
  /\ Goto(w, "idle", "404")
  /\ UNCHANGED <<tables, asked, locals, touched, writing>>

\* Variant: the STARTED audit row is forgotten.
OpenUnaudited(w) ==
  /\ req[w].kind = "create"
  /\ MayWrite(w)
  /\ Goto(w, "idle", "run")
  /\ UNCHANGED <<tables, asked, locals, touched, writing>>

\* The STARTED audit row is committed before the investigation runs.
Open(w) ==
  /\ req[w].kind = "create"
  /\ MayWrite(w)
  /\ Goto(w, "idle", "run")
  /\ audit' = [audit EXCEPT ![w] = @ \cup {"STARTED"}]
  /\ UNCHANGED <<runs, index, asked, locals, touched, writing>>

\* Variant: an investigation that raises is answered and not stored.
InvestigateOrForget(w) ==
  /\ \E how \in {"completed", "failed", "raised"} :
       /\ Goto(w, "run", IF how = "raised" THEN "500" ELSE "put")
       /\ result' = [result EXCEPT ![w] = how]
  /\ bundle' = [bundle EXCEPT ![w] = req[w].items]
  /\ todo' = [todo EXCEPT ![w] = req[w].items]
  /\ UNCHANGED <<tables, asked, item, found, ids, touched, writing>>

\* run_investigation returns a state, whose timeout or error makes the run a
\* failed one, or it raises; report_from may raise too, and then the state's
\* evidence is still there to be stored.
Investigate(w) ==
  /\ Goto(w, "run", "put")
  /\ \E how \in {"completed", "failed", "raised"} :
       \E S \in {req[w].items} \cup (IF how = "raised" THEN {{}} ELSE {}) :
         /\ result' = [result EXCEPT ![w] = how]
         /\ bundle' = [bundle EXCEPT ![w] = S]
         /\ todo' = [todo EXCEPT ![w] = S]
  /\ UNCHANGED <<tables, asked, item, found, ids, touched, writing>>

\* The new run row is added; the first lookup of an evidence row flushes it.
BeginPut(w) ==
  /\ MayWrite(w)
  /\ Goto(w, "put", "next")
  /\ writing' = writing \cup {w}
  /\ UNCHANGED <<tables, asked, locals, touched>>

-----------------------------------------------------------------------------
(* _upsert_evidence, for the runs and for the merchant routes *)

\* A merchant route has computed its evidence from read-only tables.
Measure(w) ==
  /\ req[w].kind = "metrics"
  /\ Goto(w, "idle", "next")
  /\ bundle' = [bundle EXCEPT ![w] = req[w].items]
  /\ todo' = [todo EXCEPT ![w] = req[w].items]
  /\ UNCHANGED <<tables, asked, result, item, found, ids, touched, writing>>

\* Evidence without a run does not replace evidence of a run.
KeepsOwner(w, e) == req[w].kind = "metrics" /\ index[e] \in Workers

\* session.get(EvidenceIndex, id): the row as of the last commit.
Read(w, e) ==
  /\ e \in todo[w]
  /\ todo' = [todo EXCEPT ![w] = @ \ {e}]
  /\ IF KeepsOwner(w, e)
     THEN Goto(w, "next", "next") /\ UNCHANGED <<item, found>>
     ELSE /\ Goto(w, "next", "write")
          /\ item' = [item EXCEPT ![w] = e]
          /\ found' = [found EXCEPT ![w] = index[e]]
  /\ UNCHANGED <<tables, asked, result, bundle, ids, touched, writing>>

\* INSERT or UPDATE, when the row is still as it was read.
Write(w) ==
  /\ Goto(w, "write", "next")
  /\ MayWrite(w)
  /\ (found[w] = NoRow) <=> (index[item[w]] = NoRow)
  /\ WroteItem(w)
  /\ UNCHANGED <<tables, asked, result, bundle, todo, ids>>

\* The payload of an unowned row is the one it had: nothing to update.
SamePayload(w) ==
  /\ req[w].kind = "metrics"
  /\ found[w] = NoOwner
  /\ Goto(w, "write", "next")
  /\ item' = [item EXCEPT ![w] = NoItem]
  /\ found' = [found EXCEPT ![w] = NoRow]
  /\ UNCHANGED <<tables, asked, result, bundle, todo, ids, touched, writing>>

\* Another request inserted the row (IntegrityError) or erased it
\* (StaleDataError) since it was read; the whole transaction is lost.
WriteConflict(w) ==
  /\ pc[w] = "write"
  /\ MayWrite(w)
  /\ ~((found[w] = NoRow) <=> (index[item[w]] = NoRow))
  /\ Fail(w, "500")

\* The owner column once the transaction of w has committed: an insert or
\* update by a run sets it, an insert without a run leaves it NULL, and an
\* update without a run changes the payload only.
Indexed(w) ==
  [e \in Evidence |->
     IF e \notin touched[w] THEN index[e]
     ELSE IF req[w].kind = "create" THEN w
     ELSE IF index[e] = NoRow THEN NoOwner ELSE index[e]]

\* put: run and evidence are committed together.
CommitPut(w) ==
  /\ req[w].kind = "create"
  /\ todo[w] = {}
  /\ Goto(w, "next", IF result[w] = "raised" THEN "500" ELSE "close")
  /\ runs' = [runs EXCEPT ![w] =
                IF result[w] = "completed" THEN "completed" ELSE "failed"]
  /\ index' = Indexed(w)
  /\ EndTransaction(w)
  /\ UNCHANGED <<audit, asked, result, bundle>>

\* index_evidence commits what it indexed.
CommitMetrics(w) ==
  /\ req[w].kind = "metrics"
  /\ todo[w] = {}
  /\ Goto(w, "next", "200")
  /\ index' = Indexed(w)
  /\ EndTransaction(w)
  /\ UNCHANGED <<runs, audit, asked, result, bundle>>

\* The COMPLETED audit row, whatever the run's status, in a commit of its own.
Close(w) ==
  /\ MayWrite(w)
  /\ Goto(w, "close", "201")
  /\ audit' = [audit EXCEPT ![w] = @ \cup {"COMPLETED"}]
  /\ UNCHANGED <<runs, index, asked, locals, touched, writing>>

-----------------------------------------------------------------------------
(* DELETE /investigations/{id} and DELETE /investigations *)

StartDelete(w) ==
  /\ req[w].kind \in {"delete", "delete_all"}
  /\ Goto(w, "idle", IF req[w].kind = "delete" THEN "find" ELSE "list")
  /\ UNCHANGED <<tables, asked, locals, touched, writing>>

\* session.get of the run to delete.
Find(w) ==
  /\ Goto(w, "find", IF Stored(req[w].target) THEN "erase" ELSE "404")
  /\ ids' = [ids EXCEPT ![w] = {req[w].target}]
  /\ UNCHANGED <<tables, asked, result, bundle, todo, item, found, touched, writing>>

\* delete_all reads the ids; without any it deletes no evidence.
List(w) ==
  /\ ids' = [ids EXCEPT ![w] = {v \in Workers : Stored(v)}]
  /\ Goto(w, "list", IF ids'[w] = {} THEN "remove" ELSE "erase")
  /\ UNCHANGED <<tables, asked, result, bundle, todo, item, found, touched, writing>>

\* DELETE FROM evidence_index WHERE investigation_id IN ids: the rows that
\* match when the statement starts.
EraseEvidence(w) ==
  /\ backend = "sqlite" => MayWrite(w)
  /\ Goto(w, "erase", "aim")
  /\ todo' = [todo EXCEPT ![w] = {e \in Evidence : index[e] \in ids[w]}]
  /\ writing' = writing \cup {w}
  /\ UNCHANGED <<tables, asked, result, bundle, item, found, ids, touched>>

\* The statement reaches its next row, in the order of its scan.
Aim(w, e) ==
  /\ e \in todo[w]
  /\ Goto(w, "aim", "strike")
  /\ todo' = [todo EXCEPT ![w] = @ \ {e}]
  /\ item' = [item EXCEPT ![w] = e]
  /\ UNCHANGED <<tables, asked, result, bundle, found, ids, touched, writing>>

\* Variant: the row is deleted without a second look.
StrikeBlindly(w) ==
  /\ MayWrite(w)
  /\ Goto(w, "strike", "aim")
  /\ WroteItem(w)
  /\ UNCHANGED <<tables, asked, result, bundle, todo, ids>>

\* Having waited for the row, the statement looks at its owner again.
Strike(w) ==
  /\ Goto(w, "strike", "aim")
  /\ MayWrite(w)
  /\ index[item[w]] \in ids[w]
  /\ WroteItem(w)
  /\ UNCHANGED <<tables, asked, result, bundle, todo, ids>>

\* The row is gone or belongs to another run by now: it is left alone.
Miss(w) ==
  /\ Goto(w, "strike", "aim")
  /\ MayWrite(w)
  /\ index[item[w]] \notin ids[w]
  /\ item' = [item EXCEPT ![w] = NoItem]
  /\ UNCHANGED <<tables, asked, result, bundle, todo, found, ids, touched, writing>>

\* Variant: the erased evidence is committed before the run goes.
EvidenceErasedFirst(w) ==
  /\ todo[w] = {}
  /\ Goto(w, "aim", "remove")
  /\ index' = [e \in Evidence |-> IF e \in touched[w] THEN NoRow ELSE index[e]]
  /\ UNCHANGED <<runs, audit, asked, locals, touched, writing>>

\* The statement has been through all its rows.
EvidenceErased(w) ==
  /\ todo[w] = {}
  /\ Goto(w, "aim", "remove")
  /\ UNCHANGED <<tables, asked, locals, touched, writing>>

\* The rows of investigation_runs that go: the one that was found, or, for
\* DELETE FROM investigation_runs without a condition, all there are by now.
Removes(w) ==
  IF req[w].kind = "delete" THEN {req[w].target}
  ELSE {v \in Workers : Stored(v)}

\* Variant: the commit forgets the evidence.
CommitRemoveRunsOnly(w) ==
  /\ Goto(w, "remove", IF req[w].kind = "delete" THEN "204" ELSE "200")
  /\ runs' = [v \in Workers |-> IF v \in Removes(w) THEN "erased" ELSE runs[v]]
  /\ EndTransaction(w)
  /\ UNCHANGED <<index, audit, asked, result, bundle>>

\* The run rows are deleted and everything is committed. A run row that is
\* gone already is no error.
CommitRemove(w) ==
  /\ backend = "sqlite" => MayWrite(w)
  /\ Goto(w, "remove", IF req[w].kind = "delete" THEN "204" ELSE "200")
  /\ runs' = [v \in Workers |-> IF v \in Removes(w) THEN "erased" ELSE runs[v]]
  /\ index' = [e \in Evidence |-> IF e \in touched[w] THEN NoRow ELSE index[e]]
  /\ EndTransaction(w)
  /\ UNCHANGED <<audit, asked, result, bundle>>

-----------------------------------------------------------------------------
(* What else can end a request *)

\* Steps at which the request needs SQLite's write lock.
WriteSteps == {"put", "write", "close", "erase", "remove"}

\* SQLite: database is locked. The STARTED row of a new request may find it so.
Locked(w) ==
  /\ backend = "sqlite"
  /\ pc[w] \in WriteSteps \/ (pc[w] = "idle" /\ req[w].kind = "create")
  /\ ~MayWrite(w)
  /\ Fail(w, "500")

\* PostgreSQL: each of a set of transactions waits for another of the set.
DeadlockVictim(w) ==
  /\ \E S \in SUBSET Workers :
       /\ w \in S
       /\ \A v \in S : \E u \in S : WaitsFor(v, u)
  /\ Fail(w, "500")

\* The process is killed, at any step; no reply is sent.
Crash(w) ==
  /\ pc[w] # "idle"
  /\ ~Ended(w)
  /\ Fail(w, "lost")

-----------------------------------------------------------------------------
(* Specification *)

InitAs(c) ==
  /\ backend = c.backend
  /\ req = c.asks
  /\ runs = [w \in Workers |-> "none"]
  /\ index = [e \in Evidence |-> NoRow]
  /\ audit = [w \in Workers |-> {}]
  /\ pc = [w \in Workers |-> "idle"]
  /\ result = [w \in Workers |-> "none"]
  /\ bundle = [w \in Workers |-> {}]
  /\ todo = [w \in Workers |-> {}]
  /\ item = [w \in Workers |-> NoItem]
  /\ found = [w \in Workers |-> NoRow]
  /\ ids = [w \in Workers |-> {}]
  /\ touched = [w \in Workers |-> {}]
  /\ writing = {}

Init == \E c \in Cases : InitAs(c)

Arrive(w) ==
  \/ Reject(w) \/ Open(w) \/ Measure(w) \/ StartDelete(w)

\* What the code and the database do for a request that has arrived.
Work(w) ==
  \/ Investigate(w) \/ BeginPut(w)
  \/ \E e \in Evidence : Read(w, e) \/ Aim(w, e)
  \/ Write(w) \/ SamePayload(w) \/ WriteConflict(w)
  \/ CommitPut(w) \/ CommitMetrics(w) \/ Close(w)
  \/ Find(w) \/ List(w) \/ EraseEvidence(w) \/ Strike(w) \/ Miss(w)
  \/ EvidenceErased(w) \/ CommitRemove(w)
  \/ Locked(w) \/ DeadlockVictim(w)

Terminating == (\A w \in Workers : Ended(w)) /\ UNCHANGED vars

Next ==
  \/ \E w \in Workers : Arrive(w) \/ Work(w) \/ Crash(w)
  \/ Terminating

Spec == Init /\ [][Next]_vars

\* A request that has arrived goes on; arrivals and crashes need not happen.
FairSpec == Spec /\ \A w \in Workers : WF_vars(Work(w))

=============================================================================
