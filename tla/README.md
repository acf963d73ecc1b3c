# Payments Operations Intelligence: specification and proofs

This directory specifies the parts of the repository whose correctness depends
on order: on who runs between two statements, on what a failure leaves behind,
on when a loop stops. The specifications are TLA+, checked by TLC on small
instances; the most important properties are proved by TLAPS for every
instance. Everything is written from the Python and TypeScript sources. Paths
below are relative to the repository.

## The system

An API process (FastAPI, handlers run on threads) serves a web console. Its
state is in one database, PostgreSQL in production and SQLite in tests; several
API processes may share it. A question is answered by a LangGraph run inside
one request.

| Component | State it keeps | Operations | Talks to |
|---|---|---|---|
| Demo ledger (`payops_core/ledger`, `routers/transactions.py`) | accounts, transfers, journal entries, ledger audit | seed accounts, transfer with optional injected failure, record a rolled-back attempt | database, general audit log |
| Investigation graph (`payops_core/graph`, `payops_core/agents`) | one `InvestigationState` per run, in memory | planner, investigate, aggregate, sufficiency, refine, incident_risk, verifier, writer, critic | tools (read only), retriever |
| Investigation store (`apps/api/store.py`, `routers/investigations.py`, `routers/merchants.py`) | `investigation_runs`, `evidence_index`, audit events of a run | create, list, get, delete one, delete all, index evidence | graph, database |
| User accounts (`apps/api/auth_service.py`, `routers/auth.py`, `routers/admin.py`) | `auth_users`, `auth_sessions`, `password_reset_tokens` | sign up, in and out, change, forget and reset a password, suspend, activate, change role, bootstrap an administrator | database, mail server |
| Agentic retrieval (`payops_core/rag/loop.py`, `rewrite.py`, `relevance.py`, `agents/researcher.py`) | queries tried, chunks kept | word the first queries, retrieve, judge, rewrite, stop | vector store |
| Ingestion and vector store (`payops_core/rag`) | chunks in pgvector or memory | parse, chunk, embed, upsert, search | documents on disk |
| Tools (`payops_core/tools`: `sql_gateway.py`, `integrity.py`, `merchant_health.py`, `ml_risk.py`) | none | counts, rates, breakdowns and comparisons; integrity checks; health score; ML risk | payment tables (read only) |
| Webhook tools (`webhook_gateway.py`, `webhook_analysis.py`, `agents/webhook_inspector.py`) | none | choose operations; find late, failed, missing, retried, duplicate and mismatched deliveries | payment tables (read only) |
| Start-up (`scripts/entrypoint.sh`, `apps/api/boot.py`, `main.py`, `alembic`, `data/seed.py`, `synthetic_generator.py`) | schema version, seed data, chunks | wait, migrate, seed, ingest, bootstrap | database |
| API plumbing (`apps/api/deps.py`, `errors.py`, `middleware.py`) | the engine's connections, the server's threads | authenticate, lend and return sessions, answer errors | database |
| Machine learning (`payops_core/ml`) | model files | train, evaluate, predict | payment tables |
| Web console (`apps/web`) | browser session, a speech session | sign-in flows, research form, history | API |
| Evaluation harness (`payops_core/eval`) | none | score the graph on a fixed set | graph |

The components meet in the database and in two calls: a create request runs the
graph and then files its result; the graph's tasks call tools and retrieval.

What makes each of them hard, and what makes it correct:

* **Ledger.** Requests run concurrently on two accounts each, lock rows in the
  order the caller names them, and may fail at four injected points, at every
  statement, between commit and reply, and while recording the failure. Correct
  means: all traces of a transfer or none; no update lost, and
  where one is, none in part; replies that are true; nothing but a transfer moves money;
  every request ends.
* **Graph.** Two loops share one visit counter, tools fail one by one, a deadline
  may pass between two tasks, later evidence replaces earlier evidence, and the
  writer, the verifier and the critic judge the same claims by different code.
  Correct means: one report per run, established only on complete evidence and
  claims that were not rejected, citations that resolve, tasks run for the question's
  merchant, giving up only for a reason, and termination.
* **Store.** Evidence ids are shared by runs, an evidence row has one owner,
  `put` looks a row up and writes it later, `delete_all` reads, deletes evidence
  and deletes runs in three statements. Correct means: runs are filed and erased
  whole, with their evidence, and the audit events tell their story in order.
* **Accounts.** A request decides on rows it read and writes columns later; a
  password check takes long; the last-administrator check counts rows somebody
  else may be changing; mail leaves before the commit, which may fail. Correct means: an active
  administrator remains; a change of password or a suspension signs out; late
  writes undo nobody's change; a mailed link opens once, and only if its token was kept.
* **Retrieval.** A rewrite is chosen among templates that earlier rounds may have
  used, the judge's scores are anybody's guess, and conflicts are looked for in
  an order the scores decide. Correct means: no query is made twice, the cap
  holds, it gives up early only when nothing is left to ask, and "sufficient"
  means every facet is covered by sources that do not exclude each other.
* **Start-up.** Containers and an operator's commands migrate, create tables and
  seed one database without a lock of their own; each may die, or lose the
  database, anywhere. Correct means: the version never names what is not there,
  nothing unprepared is served, a restart loses no transfer, and everybody
  serves in the end.
* **Payment data and the tools that read it.** Five catalogs count the same rows by
  windows, merchants, methods and codes, and round; a health score and its
  explanation are rounded apart; webhook rows are read in no order and findings
  are cut off at a limit. Correct means: generated data passes the checks,
  breakdowns add up, scores are explained, findings do not depend on row order.
* **Connections.** A request keeps the connection that authenticated it while its
  handler opens more, up to three at once, and each call occupies a worker
  thread while it waits. Correct means: every connection comes back, whatever
  times out half way, and everybody waiting on everybody ends.

`PROJECT.json` lists every component with its files and, under `hazards`, each of
these difficulties at its line with the properties that watch it.

## Modules

| Module | What it is |
|---|---|
| `Bank` | what a ledger promises: open accounts, one atomic affordable move at a time |
| `Ledger` | the ledger, one action per statement, on `"postgresql"` or `"sqlite"` |
| `LedgerProperties`, `LedgerProofs`, `MCLedger` | its properties, theorems and TLC instances |
| `Inquiry` | what an investigation promises: bounded visits, nothing found is lost, one honest answer |
| `InvestigationGraph` | the graph, one action per node and one per task |
| `InvestigationGraphProperties`, `InvestigationGraphProofs`, `MCInvestigationGraph` | as above |
| `Archive` | what the store promises: file, measure, erase and clear as a whole |
| `InvestigationStore` | the store's requests, one action per statement |
| `InvestigationStoreProperties`, `InvestigationStoreProofs`, `MCInvestigationStore` | as above |
| `Accounts` | users, sessions and reset tokens, one action per read, flush and commit |
| `AccountsProperties`, `AccountsProofs`, `MCAccounts` | as above |
| `Search` | what a document search promises: new questions only, within a limit, one verdict |
| `AgenticRag` | the retrieval loop, one action per round, rewrite and conclusion |
| `AgenticRagProperties`, `AgenticRagProofs`, `MCAgenticRag` | as above |
| `StartUp` | containers and an operator preparing one database, one action per transaction or statement |
| `StartUpProperties`, `StartUpProofs`, `MCStartUp` | as above |
| `Payments` | the payment tables: what the generator inserts, what a platform delivers |
| `Analytics` | SQL catalog, integrity checks and health score as operators over `Payments` |
| `Webhooks` | the webhook catalog and the inspector's plan, likewise |
| `PaymentsProperties`, `PaymentsProofs`, `MCPayments` | as above, for the three |
| `ConnectionPool` | requests sharing an engine's connections and a server's threads |
| `ConnectionPoolProperties`, `ConnectionPoolProofs`, `MCConnectionPool` | as above |

`Ledger`, `InvestigationStore` and `Accounts` (and, with containers for workers,
`StartUp`) share a shape: each worker is one
HTTP request (its name doubles as the id of what it creates), `pc[w]` is the next
step of its handler, a few variables hold what its ORM session has read or
staged, and the others are the tables. A step is one SQL statement, one commit,
or one decision; a crash may take any of them, after which only what was
committed is left. Definitions marked *Variant* are what a plausible mistake
would make of the definition that follows; nothing refers to them, they show
that each property notices such a mistake.

### Ledger

`StartTransfer`, `StartList`, `SeedRead` and `SeedCommit` are the arrival of a
request and `seed_ledger_accounts`; `Begin` to `Commit` follow
`run_ledger_transfer` statement by statement; `Reload`, `Balances`,
`PersistRollback` and `Answer` are what it does after the transaction. ORM
changes are staged and become visible in one `Flush`, at the commit. On
PostgreSQL the isolation is SERIALIZABLE with row locks (`TakeRow`, `WaitsFor`,
`DeadlockVictim`, `SerializationFailure`). On SQLite reads take no lock, because no
`BEGIN IMMEDIATE` is ever issued; the lock of its single writer is taken by the first
INSERT or UPDATE, which a request sends at its commit only. So flush and commit are one
step there, the wait for the other writer is the time before that step, and "database is
locked" at the end of the wait is one of the ways that step fails (`Crash`,
`PersistFails`): nobody holds a lock while he waits for another.

Left out: validation of the body (422); paging of the GET routes; the frozen
status and the currency check, which no account can meet as seeded; the
`ValueError` path of an unknown fail point, which the schema refuses first;
`_assert_after`, which compares values just assigned. A client's retry is a new
request: there is no idempotency key, so it moves money again. The order in which the unit of work emits its INSERTs is not modelled:
the flush is one step which may fail.

### Investigation graph

State fields keep their names. Lists that are always built in one order (tasks,
hypotheses) are sets with a rank. Evidence items are reduced to an id, a source
and a mark, the mark being the part of the text or metadata that a later
decision reads. `Outcomes` lists, per task, the items its tool can return; TLC
tries all. How far the words of a cause and of its evidence overlap is chosen
freely by the verifier, within what each cause's wording allows
(`ReadingsOf`). The truncations to five and three items, the trace and the
metrics list influence no decision and are left out. Some branches of the code
are never taken and are absent or shown to be so: the planner never plans
`compare_merchants`; the critic always approves (`WriterObeysVerifier`, proved), so
its way back to the writer is never used; a cause without claims is not written.
`given` is the merchant of the request and `named` the one the planner finds in the
text, which goes first (`PlanMerchant`); `merchant` is the state's and `carried` that of the
pending tasks. A task made of a gap carries none and takes the state's (`MerchantAtHand`). The
payment method of a metrics task is not in the model: a gap drops it too, so a metrics task
that raised is asked again about every method (`agents/sufficiency.py:70`).
`RecursionLimit` is LangGraph's own, 25 unless configured, which the code does
not do.

### Investigation store

`Create` runs the graph (`Investigate`: it completes, fails, or raises) and then
files the run item by item: `Read` is `session.get`, `Write` the INSERT or UPDATE
that the ORM's autoflush sends before the next lookup, `CommitPut` the commit, `Close` the COMPLETED
event. Items may come in any order: a bundle's order differs from run to run.
`Delete` and `DeleteAll` select ids, strike evidence rows one at a time (a
DELETE waits for a locked row and looks at it again) and commit. The merchant
routes that call `index_evidence` are `Metrics`. The engine runs at READ COMMITTED;
on SQLite a request that finds a writer open may be refused, at the commit of STARTED too
(`Locked`). A raised run is stored as `failed`, its reply is a 500. Payloads are left out: only
the owner column decides anything. The caller's `last_active_at` is left out here, it is part of
`Accounts`; the connections are in `ConnectionPool`.

### Accounts

Passwords, sessions and tokens are named by the worker that creates them, those
there from the start by their user. `row[w]` is the user row a request has read
and will decide on. An UPDATE writes only the columns that changed against that
row (`Changes`), waits for the row's lock, and shows at the commit. `Check` may also
lock the administrator's own row: a stale `last_active_at` is flushed by the
handler's first query. `revoking[w]` are the sessions `revoke_user_sessions` has
selected. `CommitRename` is `PATCH /auth/me`: it writes the one column nothing else
writes, and puts back none of the others. PostgreSQL only. Left out: validation and
hashing, audit rows, the wait of a sign-out for the user's row, and connections
(in `ConnectionPool`). `Enter` merges the reads of the session and of its user.
`SendLink` is the mail of a reset link and `CommitForgot` the commit of its token; any
commit may be refused by the database (`CommitFails`), which the caller sees as a 500, and what
has been mailed stays mailed.

### Agentic retrieval

A query is a *form* (a template of `FormulateQueries` or of the rewriter), what
it is filled with, and a document type; the loop compares queries by exactly
that. A question is its facets: error codes and topics, as `analyze_query` finds
them, and whether the glossary changed its wording. `Search` is one round, whole:
retrieve, score, keep, look for missing facets, decide; `Rewrite` takes the first
unused candidate in the rewriter's order; `NothingLeft` is its `None`;
`SearchFails` is an exception of the embedder or the store. What a search returns
is any set of at most `TopK` chunks of the type asked for; which of them pass the
vector floor and the token overlap, and with what score, is free. Left out:
excerpts, rationales, the numbers of the confidence, translation of a query's
language.

### Start-up

`pc[p]` is the stage of `entrypoint.sh` and of the lifespan a container is at, or
of the command an operator runs (`alembic upgrade head`, `payops-seed`,
`payops-ingest`). The schema is the set of tables, columns and indexes the eight
revisions create; `tx[p]` is what an open transaction will make visible. Alembic
runs all revisions in one transaction on PostgreSQL (`BeginUpgrade`, `Upgrade`,
`CommitUpgrade`), and creating what an open transaction has created waits for its
end (`Claimed`) and is then refused. That goes for `alembic_version` too: an upgrade reads the
version first, and one that had to wait for another to create that table fails if the other
has committed (`BeginFails`) and goes on if it has not (`BeginGoesOn`). `create_all` looks first and creates later
(`Check`, `Create`). `Reset` deletes what is committed when it runs, `Fill` inserts
rows whose keys are always the same. `ensure_schema` and `upsert` are `EnsureSchema`
with `CommitSchema`, and `Index`: `IF NOT EXISTS` sees only what is committed, so of two that
create the chunk table at once the second waits and is refused (`EnsureFails`). The corpus
grows by documents; a changed document is not modelled. A container that ends is restarted (`docker-compose.yml`). Left out:
downgrades, SQLite, the in-memory retriever, what `bootstrap_admin` does (it is in
`Accounts`; here, as in the code, its failure is swallowed).

### Payments, analytics and webhooks

`Payments` has two uses. In a generator run, `Draw`, `PlantSpike`, `PlantDelay` and
`Settle` are the iterations of `_traffic`, `_plant_incidents` and `_settlements`:
each inserts an order, a payment, an event and perhaps a refund or a dispute
(`InsertPayment`), with every outcome the merchant, the hour and the random numbers
allow. In service, payments are there and `Deliver` is the platform, outside the
repository, that records deliveries in any order. The tools only read, so they are
operators over the tables: `Analytics` for `SqlToolGateway`, `integrity.py` and
`merchant_health.py`, `Webhooks` for the gateway, the analysis and the inspector.

Time is in hours and delays in seconds, and of the generator's volume a plan keeps
a few draws. Rates are in millionths and points in hundredths, as the code rounds
them; rounding is exact, half up, where Python rounds binary floats to even, so the
bounds on rounding errors are one unit generous. Left out: freshness, confidence,
sample lists, the allow-list of operations (a fixed set), the text of findings. One
read of several statements may see another process's seeding between two of them;
that is not modelled.

What reading the code for this model showed, and the properties state with care:
payments are selected by their own time and events by theirs, so at the edge of a
window a payment counts as missing its webhook, or an event's payment as not found
(`CorrelationsAreFair`); the refund and dispute rates need both times in the window;
a retry with the key of the first attempt is both a retry and a duplicate; one
attempt delivered twice hides the retries of its group (`RepeatsAreReported` says one
of the two is reported); and of operations that do not sort, the limit keeps what the
database happened to return first (`SortedOperations`).

### Connections

A route is the sequence of its synchronous calls, each on a worker thread of its
own, and a call the sequence of what it does with connections (`Routes`): use or
commit the request's session, take or return a connection besides. `Take` and `Own`
wait while none is free; `TimeOut` is the pool's `TimeoutError`, which unwinds the
`with` blocks and ends the request with a 500; inside the `try` of `_persist_rollback`
it is swallowed (`TimeOutSwallowed`). `Close` is `get_session`'s `finally`, which does
not need a thread of the handlers' limit. A research request holds one connection
like `read_merchant`. What is out is counted request by request (`Held`): the session's
connection, the handler's and a helper's, never more than three. Left out: the early 404 of a transfer that is not there, and
SQLite in tests, where one static connection serves all.

## Runs

`expect: violation` runs each check one statement that a document, a comment, a
message or a test makes and the code does not keep; each is a finding in
`PROJECT.json` with the quoted line.

| Run | Bounds | Shows |
|---|---|---|
| `ledger_postgres` | 2 requests of 9 kinds, 2 accounts, one unknown id | atomicity, true replies, nothing but a transfer moves money, refinement of `Bank`, termination |
| `ledger_sqlite` | the same | whatever updates are lost, a balance is that of whole committed transfers, as many as the row's version counts |
| `ledger_lost_update` | SQLite | violation: a transfer is overwritten |
| `graph` | 8 questions, 4 visits, limit 25 | honest reports, citations that resolve, reasons to give up, every task is run for the question's merchant, at most six supersteps per visit and two more, refinement of `Inquiry`, termination |
| `store` | 3 requests on either backend, 2 shared evidence ids; creates with a delete, a delete of everything, or a measurement | filing and erasing are atomic to a reader, orphans and losses only in the named ways, audit order, refinement of `Archive`, termination |
| `accounts` | 3 requests, 2 users, in five situations | sessions end with their password or their user's suspension, an administrator is left unless two meet, columns change only on request, a link opens only if it was mailed and committed and has not been used, a start-up leaves an administrator unless one was demoted since or the e-mail it is configured with is somebody else's account, termination |
| `accounts_last_admin` | two administrators | violation: they remove each other |
| `rag` | 5 chunks, 9 calls of 0 to 6 rounds, 2 scores | refinement of `Search`, sufficient means covered, gives up early only when nothing is left |
| `start_up` | 2 containers and one of 4 commands, 4 configurations, 4 databases, one fault, one transfer, 2 documents | the version is true, only a prepared database is served, transfers survive restarts, all containers serve in the end |
| `start_up_reseed` | no fault, no command | violation: a container that counted no merchant deletes what another has seeded since |
| `payments` | 4 plans of two or three payments, 2 hours and methods; 2 fixtures with up to 3 of 9 deliveries; limit 2; 5 windows | generated data is clean, breakdowns add up, scores are explained, findings are right in every row order |
| `pool` | 3 requests in 5 mixes of 7 routes, 3 connections, 2 threads | connections and threads are conserved, every request ends |

An instance is a set of *cases*: what each worker will be asked, and for the store
the backend and for the accounts who there is. `Init` picks one and nothing
changes it, so one run covers many small situations, and a property may speak of
the case (`OneAtATimeLeavesAnAdmin`, `RowsBelongToTheirRun`).

Why these bounds are enough to be useful: every conflict in the code is between
two transactions over one or two rows, so two requests over two rows meet in
every way, and a third adds an observer or a deleter (store) or a late sign-in
(accounts). Amounts are chosen so that a payer can afford a payment once and not
twice. Expiry is one step. Four visits is the fewest that can meet LangGraph's
limit of 25 (`6 * 4 + 2 > 25`), eight the most `CreateInvestigationRequest` accepts;
the default, three, is covered by the theorem `NoRecursionError`. The questions
are one per combination of hints that leads to a different plan in the tests and
the evaluation set. The calls of `rag` reach a cap, an empty list of queries, each
kind of facet and both directions of a conflict. One fault in `start_up` is enough to
break any one step, and the other container goes on meanwhile. Three deliveries make
two of a group and one beside it; a limit of two cuts them. The engine opens 15
connections at most and the server runs 40 threads: three and two keep the ratio that
matters, routes that need up to three connections when fewer are left, and threads
that can all be taken by requests that wait. One bound is worth naming: a worker
serves one request, so a trace holds as many requests as workers.

`MCPayments.cfg` does not check for deadlock: the tables may simply stop changing.
Everywhere else the end is an action (`Terminating`, `AllEnded`, `Prepared`).

**Fairness.** `WF_vars(Work(w))` per request, or `WF_vars(Work)` for the graph: a
thread that can run runs, the database grants a lock that is free, and it ends a
deadlock by choosing a victim. In `StartUp`, each process goes on and is restarted,
and the database comes back. In `ConnectionPool`, each request goes on and, where it
waits, its timeout expires. Arrivals, crashes, expiry of sessions and the deadline are
not fair: nothing needs them to happen.

### Disagreements without a run

Where the code differs from what is said of it and a property already names the
case, or the case is a single line, there is no run of its own:

* The balances in the reply to a rolled-back transfer are read after the rollback and
  may mix in other transfers, though the test compares them with the balances before
  (`tests/integration/test_ledger_api.py:66`, `transfer.py:137`); those in a committed
  reply are read again after the commit (`transfer.py:128`).
* A committed transfer whose audit rows cannot be read for want of a connection is
  answered with a 500, and the general audit log says nothing of it
  (`transfer.py:131`; `RolledBack` and `Committed` in `ConnectionPool`).
* Eight visits exceed LangGraph's default limit although eight are accepted
  (`docs/adr/005-iteration-cap.md:6`, `graph/build.py:149`): the condition of
  `NoRecursionError`.
* Evidence is shared, so deleting the run that owns a row takes it from others
  (`docs/architecture/ARCHITECTURE.md:225`, `store.py:177`): `CitationsLostOnlyToDeletion`. A finished run
  is lost when its evidence meets another's insert (`store.py:163`):
  `LostOnlyToSharedEvidence`. `delete_all` leaves the evidence of a run filed after its
  first statement (`store.py:110`): the condition in `RowsBelongToTheirRun`.
* A reset token that two requests read at once works twice (`data/models.py:414`,
  `auth_service.py:215`). That both get through is the
  exception in `LinksOpenOnce`. A sign-in verified before a password change opens a session
  after it, although the security page says every other session is signed out
  (`security/page.tsx:41`): the exception in `OnlyLoginsOutliveAChange`.
* Conflicts between sources are looked up in one direction, in the order of the
  scores: the same pair may or may not be flagged (`rag/loop.py:254`; the test at
  `tests/unit/test_agentic_rag.py:93` has the lucky order). `MayConflict`,
  `MustConflict`.
* The scope in a metric's evidence id is whole days and leaves out the method
  (`models/schemas.py:16` says "so catalog reads do not collide", and `:209`): reads of
  two methods, or of two windows within the same days, have one id. No run of the graph makes
  both: a plan holds one metrics task, asked with one method and one window.
* A migration that loses the race for `document_chunks` to a start-up finds the table in its
  way on every later start (`rag/vector_store.py:92`, and `create_all` likewise): `Wedged`, which
  `ContainersServe` excludes for containers that migrate, and for those only.

## Theorems

The `*Proofs` modules prove, for every value of the constants under the named
assumptions of the component's module, every invariant and every action property the
passing runs check, and the four refinements. The assumptions say that values are
those the program can be given: workers are not the free-lock marker or the owner of
nothing, starting balances are natural numbers, requests and cases are well formed,
visits, limits, connections and threads are positive, requests are finitely many where
they are counted, NULL is no number, no code and no reason of a finding, databases are
ones an earlier release or `payops-seed` left.

* `LedgerProofs`. `TypeCorrect`, `TransfersAreAtomic`, `RepliesAreTrue` and
  `MoneyMovesByTransfer` hold on both backends. The type invariant is not inductive
  alone: that no balance goes below zero needs the amounts read to still cover the
  payment, so the invariant adds what each program counter knows (what is staged, what
  the row recorded, which outcome was chosen). That only a commit moves money, and no
  seeding, is a property of single steps from that invariant. `ReadsAreCurrent` and
  `LedgerImplementsBank` hold on PostgreSQL (`Backend = "postgresql"` is an
  assumption of the theorem) and add: a worker past a lock holds the row, and what
  it read is what the row is; hence each commit is a single atomic move of `Bank`.
  `NoUpdateIsLost` is the statement that the lost-update run refutes on SQLite, proved for
  PostgreSQL: what an account has and has paid is what it started with and has received,
  also before it has a row (`BooksInv`), and a commit changes both sides alike.
  `BalancesAreWhole` is what remains of it on either backend: not only the rows but also what a
  request has read and will compute the new ones from are explained by a set of committed
  transfers (`WholeInv`), so an update may replace another and never mixes with it.
* `InvestigationGraphProofs`. The invariant is a conjunction of named parts:
  `LoopInv` (counter and program counter), `ClaimInv` (claims are about the causes the evidence suggests
  at that time), `DraftInv` (what the writer wrote against what the
  verifier said), `EvidenceInv`, `MerchantInv` and `AnswerInv`. From it:
  `TypeCorrect`, `StepsAreBounded`, `NoRecursionError` (the limit is never met if it
  is at least `6 * MaxIterations + 2`, which 25 is for 3 visits and not for 8),
  `CriticIsSatisfied`, `ReportsAreHonest`, `CitationsAlwaysResolve`, `GivingUpIsExcused`,
  `TasksKnowTheirMerchant`, `EvidenceIsKept` and `GraphImplementsInquiry`.
* `InvestigationStoreProofs`. `TypeCorrect`, `AuditIsTrue`, `OwnersAreRight`,
  `CitationsAreKept`, `OnlySharedEvidenceLosesRuns` and `StoreIsAnArchive`, for any number
  of requests and shared rows, on both backends. A multi-statement transaction is judged
  at its commit, so the invariant says what each request may rely on until then: one that
  indexes has written, or still has to write, its whole bundle (`Indexing`); a delete has
  struck, or still has to strike, all its runs own, and none of those runs is filed again
  (`Erasing`); a run is filed once, between its two events (`Audited`); a row that was found
  belongs to somebody who cites it (`FoundCited`, `OwnersCiteWhatTheyOwn`); and two open
  transactions have no row in common (`Exclusive`). With that, a commit is one step of
  `Archive` and every other step is none.
* `AccountsProofs`. `TypeCorrect`, `PasswordsEndSessions` and `SuspensionEndsSessions`, for
  any number of users and requests. Neither of the last two is inductive: between the
  statement that selects the sessions to revoke and the commit, others go on. The
  invariant adds what keeps the selection complete. A change or a reset at its commit
  holds its user's row (`Held`), so no other change opens a session for him
  meanwhile; what is open and not selected was opened by a login, or by a change that
  a suspension does not exclude (`Selected`); and nobody has a session or is about to be
  written to before his row exists (`There`, `OpenThere`), so a signup disturbs none of it.
  `ChangesAreAskedFor` sorts every step by what it writes to a user's row (`Creates`,
  `Governs`, `Rekeys`, `Renames`), which is what a commit of stale columns would escape.
  `LinksAreGoodOnce` needs that a token comes with a mailed link and a commit that went
  through, and that a request which got in by a link has found its token and leaves it used
  (`LinksInv`), through crashes and commits that fail. `StartUpsLeaveAnAdmin` follows from what a
  request may still do after its reply, which is nothing. `OneAtATimeIsEnough` needs that the one request that takes a
  role away still sees another administrator when it commits (`LeavesOne`), which holds
  because no other request removes one (`AdminsStay`).
* `AgenticRagProofs`. `RagIsABoundedSearch`: for any corpus, call and scores the loop
  implements `Search`. Its invariant says the query of the round is new, that as many
  queries were made as rounds, and that a rewrite is only looked for below the cap.
  `SufficientIsCovered` adds that a round decided "sufficient" on the chunks that are still
  kept at the verdict, and that chunks which exclude each other both ways never pass.
  `GivesUpLast` adds why the loop stopped (`StopInv`): enough was found, the cap was
  reached, or no candidate of the rewriter was unused; the last means that every template of
  every missing facet was used, because the candidates contain them all. A call that
  wants no chunk and names no facet (`NothingWanted`) is excepted: it stops at once.
* `StartUpProofs`. `StartUpTypes`, `VersionNeverLies`, `ServesOnlyPrepared` and
  `RestartsKeepTransfers`, for any number of containers and faults and any of the assumed
  databases. A served database is
  prepared because each stage of a container knows what has been committed before
  (`StagesAreEarned`: the stages after the migration have the head, those after the
  seeding have the data), because what an open upgrade will commit continues the version
  it started from (`UpgradeIsTrue`), and because the chunk table only ever holds a whole
  content of the corpus (`CorpusGrows`); their conjunction with types and `VersionIsTrue` is
  `Inductive`. Transfers survive because a container seeds only behind a count that found
  nothing, and only the commit of a seeding drops them (`StepSeeds`).
  `AloneSeedsOnlyAnEmptyDatabase` is what is left of the statement the reseed run refutes:
  with one container, and an operator who does not seed, nothing has been seeded since the
  container counted (`AloneInv`), however often it crashes and starts again.
* `PaymentsProofs`. `PaymentTypes` and `GeneratedRowsFit`: the generator's rows satisfy
  the CHECKs and keys and each other, for any plan. It needs that one event and one order
  have been inserted per payment so far (`RowsAlign`). From that invariant, and from
  `RefundsAreGenerated`, `GeneratedRowsAreClean`: no integrity check and no webhook comparison
  finds anything. The other three hold of any such tables, whatever wrote them.
  `PartsAddUp` rests on lemmas about cardinalities of partitions and about sums, and, for the
  rates that two windows and their union are compared by, on rounding being monotone
  (`RatioIsMonotone`, `RatioLiesBetween`);
  `ScoresAreExplained` on bounds for each rounding and for the sum of them.
  `DeliveriesAreFound` reads findings off lists: a sort by a total order gives every list of
  the same rows the same result (`Ranks`, `SortedAgree`), the groups of a key are its classes
  (`GroupsAreClasses`), and so the findings of each operation are a set that depends
  on the rows alone (`RetriesAreOfRows`, `DuplicatesAreOfRows`, `ClassesAreOfRows`,
  `MissingAreOfRows`, `MismatchesAreOfRows`), which is what row order cannot change.
* `ConnectionPoolProofs`. `TypeCorrect` and `NothingLeaks`, for any number of requests,
  connections and threads, and every route. A handler has taken exactly what the
  operations of its call so far have (`TakenIsDepth`), each call gives back what it takes and
  a `try` leaves what it found (`Balanced`, proved of each call), and what is out is counted as a set of pairs of
  a request and a number, so that a step which takes or gives one changes the
  cardinality by one (`Held`).

Every one of these invariants was checked by TLC on the component's run before it was
proved (`AloneInv` with one container in it). What is proved is not always in a passing run: the type invariants, `ReadsStayCurrent`,
`GeneratedRowsFit` and `SufficiencyIsNeverLost` are left to their theorems.

Two things about the form of the model come from the proofs. The library's induction
theorems take an operator as a parameter, which the provers cannot instantiate; where a sum
or a count needs induction it is done by the least counterexample of a set of numbers
(`ByCounting`, `ByAdding`) or of the parts of a finite set (`LeastPart`, which takes the
library's well-founded order of those parts), which is first-order. And the provers know nothing of
`SelectSeq` and `SortSeq`, so `Webhooks` filters and sorts by position (`Nth`, `Where`,
`Rank`, `Sorted`), which also is how stability of a sort is said.

Only model-checked: liveness (`EveryRequestEnds` of the ledger, store, accounts and
connections, `EveryInvestigationEnds`, `ContainersServe`), which needs fairness and ENABLED and
is beyond the prover. The properties of the violation runs are false of the code as
they stand; the part of each that holds is proved: `NoUpdateIsLost` (of
`BalanceMatchesJournal`, on PostgreSQL), `OneAtATimeIsEnough` (of `AnActiveAdminIsLeft`) and
`AloneSeedsOnlyAnEmptyDatabase` (of `SeedsOnlyAnEmptyDatabase`).

## Plan

1. (done) `Bank`/`Ledger`; `Inquiry`/`InvestigationGraph`; `Archive`/`InvestigationStore`;
   `Accounts`; `Search`/`AgenticRag`; `StartUp`; `Payments`, `Analytics`, `Webhooks`;
   `ConnectionPool`.
2. (done) A theorem for each invariant, action property and refinement that a run checks.
3. (done) What holds in place of the violated statements: on PostgreSQL the balances match
   the journal; removals that do not meet leave an administrator; a lone container seeds
   only an empty database.
4. `InvestigationGraph` takes the outcomes of a document search from `AgenticRag`.
5. The chunk window as a function; the console's speech session and its late events.

## Not modelled

Numeric learning and scoring, embeddings and similarity, parsing and cleaning of
documents, wording, layout, logging, the evaluation harness: no state that
interleaves, or arithmetic outside a model checker's reach. The console's speech
session and its cancelled requests would be worth a module and are left for later.
`PROJECT.json` gives a reason for each component.
