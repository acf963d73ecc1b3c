------------------------------ MODULE StartUp ------------------------------
(***************************************************************************)
(* Preparing one PostgreSQL database: containers that run                  *)
(* scripts/entrypoint.sh (wait for the database, migrate, seed if it is    *)
(* empty, then the API's lifespan) and are restarted when they fail, and   *)
(* an operator who runs one of the commands of the README beside them.     *)
(* A step is one transaction, or one statement of a longer one.            *)
(***************************************************************************)
EXTENDS Naturals, FiniteSets

CONSTANTS
  Containers,    \* API containers
  Operator,      \* the process of an operator's command
  Commands,      \* the commands the operator may run
  Configs,       \* the settings the containers may have
  Databases,     \* the databases the system may be started on
  Documents,     \* files the corpus may hold
  Corpora,       \* what it may hold at first
  MaxFaults,     \* bound on crashes of containers and outages of the database
  MaxTransfers   \* bound on transfers posted

----------------------------------------------------------------------------
(* What the revisions create, and what the models of the ORM do.           *)

PaymentTables ==
  {"payment_methods", "error_codes", "merchants", "orders", "payments",
   "refunds", "settlements", "disputes", "webhook_events"}
ChunkTable == {"document_chunks"}
InvestigationTables == {"investigation_runs", "evidence_index"}
LedgerTables ==
  {"ledger_accounts", "ledger_transfers", "ledger_entries", "ledger_audit_events"}
CreatedIndex == {"ix_investigation_runs_created_at"}
InputMethod == {"investigation_runs.input_method"}
Duration == {"investigation_runs.duration_ms"}
AuthTables == {"auth_users", "auth_sessions", "password_reset_tokens", "audit_events"}

Head == 8
Revisions == 1..Head

Creates(revision) ==
  CASE revision = 1 -> PaymentTables
    [] revision = 2 -> ChunkTable
    [] revision = 3 -> InvestigationTables
    [] revision = 4 -> LedgerTables
    [] revision = 5 -> CreatedIndex
    [] revision = 6 -> InputMethod
    [] revision = 7 -> Duration
    [] revision = 8 -> AuthTables

Created(version) == UNION {Creates(revision) : revision \in 1..version}
VersionTable == {"alembic_version"}
Objects == VersionTable \cup Created(Head)

\* create_all checks tables only: a column or an index comes with its table.
Metadata == PaymentTables \cup InvestigationTables \cup LedgerTables \cup AuthTables
WithTheirColumns(tables) ==
  tables \cup (IF "investigation_runs" \in tables
               THEN CreatedIndex \cup InputMethod \cup Duration ELSE {})

Config == [auto_migrate: BOOLEAN, seed_on_start: BOOLEAN, pgvector: BOOLEAN]
Database == [schema: SUBSET Objects, version: 0..Head, seeds: {0, 1}]

ASSUME ConfigsAssumption == Configs \subseteq Config
ASSUME CommandsAssumption ==
  Commands \subseteq {"none", "alembic upgrade", "payops-seed", "payops-ingest"}
\* A database is one that an earlier release migrated, or one that only
\* payops-seed prepared.
ASSUME DatabasesAssumption ==
  /\ Databases \subseteq Database
  /\ \A db \in Databases :
       /\ Created(db.version) \subseteq db.schema
       /\ (db.version > 0) <=> (VersionTable \subseteq db.schema)
       /\ db.seeds > 0 => PaymentTables \cup LedgerTables \subseteq db.schema
ASSUME CorporaAssumption == Corpora \subseteq SUBSET Documents
ASSUME OperatorAssumption == Operator \notin Containers
ASSUME BoundsAssumption ==
  MaxFaults \in Nat /\ MaxTransfers \in Nat

Processes == Containers \cup {Operator}

VARIABLES
  settings,    \* of the containers
  command,     \* of the operator
  pc,          \* next step of each process
  tx,          \* open transaction of each process
  lacking,     \* what create_all found missing
  schema,      \* committed tables, columns and indexes
  version,     \* committed row of alembic_version, 0 if none
  seeds,       \* committed seedings of the data
  transfers,   \* committed transfers of the ledger
  posted,      \* transfers ever posted
  chunks,      \* documents of document_chunks
  corpus,      \* documents on disk
  corpora,     \* every content the corpus directory has had
  dbUp, faults

stored == <<schema, version, seeds, transfers, chunks>>
world == <<settings, command, posted, corpus, corpora, dbUp, faults>>
vars == <<pc, tx, lacking, stored, world>>

\* "begin_waits", "reset_waits" and "ensure_waits" are statements that wait
\* for a lock.
InTransaction ==
  {"begin_waits", "upgrade", "fill", "reset_waits", "ensure_waits", "ensured", "commit"}
Seeding == {"check", "create", "reset", "reset_waits", "fill", "commit"}
Preparing ==
  InTransaction \cup Seeding \cup {"migrate", "count", "ensure", "index", "bootstrap"}
Stages == {"down", "wait", "serving", "done"} \cup Preparing

NoTransaction == [made |-> {}, version |-> 0, deleted |-> 0, filled |-> FALSE]
Transaction ==
  [made: SUBSET Objects, version: 0..Head, deleted: Nat, filled: BOOLEAN]

----------------------------------------------------------------------------
(* The processes.                                                          *)

At(p, stage) == pc[p] = stage /\ dbUp
Goto(p, stage) == pc' = [pc EXCEPT ![p] = stage]

\* The exception leaves the command: set -e ends the container's script.
Ended(p) == IF p = Operator THEN "done" ELSE "down"
Fail(p) ==
  /\ Goto(p, Ended(p))
  /\ tx' = [tx EXCEPT ![p] = NoTransaction]
  /\ lacking' = [lacking EXCEPT ![p] = {}]
  /\ UNCHANGED <<stored, world>>

AfterSeed(p) ==
  IF p = Operator THEN "done" ELSE IF settings.pgvector THEN "ensure" ELSE "bootstrap"
AfterMigration(p) ==
  IF p # Operator /\ settings.seed_on_start THEN "count" ELSE AfterSeed(p)

\* An object of a transaction still open: to create it again has to wait.
Claimed(p, objects) == \E q \in Processes \ {p} : tx[q].made \cap objects # {}

Start(p) ==
  /\ pc[p] = "down"
  /\ Goto(p, "wait")
  /\ UNCHANGED <<tx, lacking, stored, world>>

\* The loop of wait_for_database: it ends when a connection answers,
Connect(p) ==
  /\ At(p, "wait")
  /\ Goto(p, IF settings.auto_migrate THEN "migrate" ELSE AfterMigration(p))
  /\ UNCHANGED <<tx, lacking, stored, world>>

\* or with an error at its deadline.
GiveUp(p) ==
  /\ pc[p] = "wait" /\ ~dbUp
  /\ Fail(p)

\* A statement that finds no server.
LosesDatabase(p) ==
  /\ pc[p] \in Preparing \ {"bootstrap"} /\ ~dbUp
  /\ Fail(p)

----------------------------------------------------------------------------
(* alembic upgrade head: one transaction for all its revisions.            *)

NewUpgrade == [NoTransaction EXCEPT !.version = version,
                                    !.made = IF version = 0 THEN VersionTable ELSE {}]

\* It reads the version, and creates alembic_version if there is none: that
\* waits for another upgrade that is creating it,
BeginUpgrade(p) ==
  /\ At(p, "migrate")
  /\ IF version = 0 /\ Claimed(p, VersionTable)
     THEN Goto(p, "begin_waits") /\ UNCHANGED tx
     ELSE Goto(p, "upgrade") /\ tx' = [tx EXCEPT ![p] = NewUpgrade]
  /\ UNCHANGED <<lacking, stored, world>>

\* and goes on if the other came to nothing, or finds the name taken: it does
\* not read the version again.
BeginGoesOn(p) ==
  /\ At(p, "begin_waits") /\ ~Claimed(p, VersionTable)
  /\ VersionTable \cap schema = {}
  /\ Goto(p, "upgrade")
  /\ tx' = [tx EXCEPT ![p] = NewUpgrade]
  /\ UNCHANGED <<lacking, stored, world>>

BeginFails(p) ==
  /\ At(p, "begin_waits") /\ ~Claimed(p, VersionTable)
  /\ VersionTable \cap schema # {}
  /\ Fail(p)

\* Variant: every revision commits what it creates, the version at the end.
UpgradeOneByOne(p) ==
  /\ At(p, "upgrade") /\ tx[p].version < Head
  /\ LET made == Creates(tx[p].version + 1) IN
     /\ ~Claimed(p, made)
     /\ made \cap schema = {}
     /\ schema' = schema \cup made
     /\ tx' = [tx EXCEPT ![p] = [tx[p] EXCEPT !.version = tx[p].version + 1]]
  /\ UNCHANGED <<pc, lacking, version, seeds, transfers, chunks, world>>

\* Variant: the version is written outside of the transaction.
UpgradeStampedFirst(p) ==
  /\ At(p, "upgrade") /\ tx[p].version < Head
  /\ LET made == Creates(tx[p].version + 1) IN
     /\ ~Claimed(p, made)
     /\ made \cap schema = {}
     /\ version' = tx[p].version + 1
     /\ tx' = [tx EXCEPT ![p] =
          [tx[p] EXCEPT !.made = tx[p].made \cup made, !.version = version']]
  /\ UNCHANGED <<pc, lacking, schema, seeds, transfers, chunks, world>>

\* No revision looks whether what it creates is there.
Upgrade(p) ==
  /\ At(p, "upgrade") /\ tx[p].version < Head
  /\ LET made == Creates(tx[p].version + 1) IN
     /\ ~Claimed(p, made)
     /\ made \cap schema = {}
     /\ tx' = [tx EXCEPT ![p] =
          [tx[p] EXCEPT !.made = tx[p].made \cup made, !.version = tx[p].version + 1]]
  /\ UNCHANGED <<pc, lacking, stored, world>>

UpgradeFails(p) ==
  /\ At(p, "upgrade") /\ tx[p].version < Head
  /\ LET made == Creates(tx[p].version + 1) IN
     ~Claimed(p, made) /\ made \cap schema # {}
  /\ Fail(p)

CommitUpgrade(p) ==
  /\ At(p, "upgrade") /\ tx[p].version = Head
  /\ schema' = schema \cup tx[p].made
  /\ version' = tx[p].version
  /\ tx' = [tx EXCEPT ![p] = NoTransaction]
  /\ Goto(p, AfterMigration(p))
  /\ UNCHANGED <<lacking, seeds, transfers, chunks, world>>

----------------------------------------------------------------------------
(* seed_if_empty and seed.                                                 *)

\* Variant: it seeds whatever it counts.
CountAndSeed(p) ==
  /\ At(p, "count") /\ "merchants" \in schema
  /\ Goto(p, "check")
  /\ UNCHANGED <<tx, lacking, stored, world>>

Count(p) ==
  /\ At(p, "count") /\ "merchants" \in schema
  /\ Goto(p, IF seeds = 0 THEN "check" ELSE AfterSeed(p))
  /\ UNCHANGED <<tx, lacking, stored, world>>

CountFails(p) ==
  /\ At(p, "count") /\ "merchants" \notin schema
  /\ Fail(p)

\* create_all looks for every table first, then creates what is missing.
Check(p) ==
  /\ At(p, "check")
  /\ lacking' = [lacking EXCEPT ![p] = Metadata \ schema]
  /\ Goto(p, "create")
  /\ UNCHANGED <<tx, stored, world>>

Create(p) ==
  LET made == WithTheirColumns(lacking[p]) IN
  /\ At(p, "create")
  /\ ~Claimed(p, made) /\ made \cap schema = {}
  /\ schema' = schema \cup made
  /\ Goto(p, "reset")
  /\ lacking' = [lacking EXCEPT ![p] = {}]
  /\ UNCHANGED <<tx, version, seeds, transfers, chunks, world>>

CreateFails(p) ==
  LET made == WithTheirColumns(lacking[p]) IN
  /\ At(p, "create")
  /\ ~Claimed(p, made) /\ made \cap schema # {}
  /\ Fail(p)

\* Another seeding has deleted the rows this one would delete.
RowsLocked(p) ==
  \E q \in Processes \ {p} : pc[q] # "reset_waits" /\ tx[q].deleted # 0

\* _reset deletes what is committed when it runs. (Its statements are one
\* step: after a commit between two of them the later ones, or the inserts,
\* break a key, as after a commit right behind them.)
Reset(p) ==
  /\ At(p, "reset")
  /\ tx' = [tx EXCEPT ![p] = [NoTransaction EXCEPT !.deleted = seeds]]
  /\ Goto(p, IF RowsLocked(p) THEN "reset_waits" ELSE "fill")
  /\ UNCHANGED <<lacking, stored, world>>

\* The DELETE that waited goes on with the rows it saw: none that the other
\* seeding has committed meanwhile.
ResetGoesOn(p) ==
  /\ At(p, "reset_waits") /\ ~RowsLocked(p)
  /\ Goto(p, "fill")
  /\ UNCHANGED <<tx, lacking, stored, world>>

\* The generator's rows always have the same keys: they wait for those of a
\* seeding still open, and are refused if one is committed that _reset did
\* not see.
RowsInserted(p) == \E q \in Processes \ {p} : tx[q].filled

Fill(p) ==
  /\ At(p, "fill") /\ ~RowsInserted(p)
  /\ tx[p].deleted = seeds
  /\ tx' = [tx EXCEPT ![p] = [tx[p] EXCEPT !.filled = TRUE]]
  /\ Goto(p, "commit")
  /\ UNCHANGED <<lacking, stored, world>>

FillFails(p) ==
  /\ At(p, "fill") /\ ~RowsInserted(p)
  /\ tx[p].deleted # seeds
  /\ Fail(p)

CommitSeed(p) ==
  /\ At(p, "commit")
  /\ seeds' = seeds + 1
  /\ transfers' = IF tx[p].deleted = 0 THEN transfers ELSE {}
  /\ tx' = [tx EXCEPT ![p] = NoTransaction]
  /\ Goto(p, AfterSeed(p))
  /\ UNCHANGED <<lacking, schema, version, chunks, world>>

----------------------------------------------------------------------------
(* The lifespan of the API: the retriever, then the administrator.         *)

\* CREATE EXTENSION and CREATE TABLE IF NOT EXISTS, in one transaction: what
\* they find missing they create, unless a transaction that has not committed
\* does,
EnsureSchema(p) ==
  /\ At(p, "ensure")
  /\ IF ChunkTable \subseteq schema THEN Goto(p, "index") /\ UNCHANGED tx
     ELSE IF Claimed(p, ChunkTable) THEN Goto(p, "ensure_waits") /\ UNCHANGED tx
     ELSE /\ Goto(p, "ensured")
          /\ tx' = [tx EXCEPT ![p] = [NoTransaction EXCEPT !.made = ChunkTable]]
  /\ UNCHANGED <<lacking, stored, world>>

\* for which they wait, to create what it has not, or find its name taken.
EnsureGoesOn(p) ==
  /\ At(p, "ensure_waits") /\ ~Claimed(p, ChunkTable)
  /\ ChunkTable \cap schema = {}
  /\ Goto(p, "ensured")
  /\ tx' = [tx EXCEPT ![p] = [NoTransaction EXCEPT !.made = ChunkTable]]
  /\ UNCHANGED <<lacking, stored, world>>

EnsureFails(p) ==
  /\ At(p, "ensure_waits") /\ ~Claimed(p, ChunkTable)
  /\ ChunkTable \cap schema # {}
  /\ Fail(p)

CommitSchema(p) ==
  /\ At(p, "ensured")
  /\ schema' = schema \cup tx[p].made
  /\ tx' = [tx EXCEPT ![p] = NoTransaction]
  /\ Goto(p, "index")
  /\ UNCHANGED <<lacking, version, seeds, transfers, chunks, world>>

\* An API indexes the corpus only into an empty table, and serves without one
\* if there is no corpus; payops-ingest always indexes it, or fails.
Indexes(p) == (p = Operator \/ chunks = {}) /\ corpus # {}

\* Variant: every document is indexed in a transaction of its own.
IndexOneByOne(p) ==
  /\ At(p, "index")
  /\ IF Indexes(p) /\ corpus \ chunks # {}
     THEN (\E document \in corpus \ chunks : chunks' = chunks \cup {document})
          /\ UNCHANGED pc
     ELSE Goto(p, IF p = Operator THEN "done" ELSE "bootstrap") /\ UNCHANGED chunks
  /\ UNCHANGED <<tx, lacking, schema, version, seeds, transfers, world>>

Index(p) ==
  /\ At(p, "index")
  /\ chunks' = IF Indexes(p) THEN chunks \cup corpus ELSE chunks
  /\ Goto(p, IF p = Operator THEN "done" ELSE "bootstrap")
  /\ UNCHANGED <<tx, lacking, schema, version, seeds, transfers, world>>

\* Whatever bootstrap_admin raises is swallowed.
Serve(p) ==
  /\ pc[p] = "bootstrap"
  /\ Goto(p, "serving")
  /\ UNCHANGED <<tx, lacking, stored, world>>

----------------------------------------------------------------------------
(* What happens around them.                                               *)

Crash(p) ==
  /\ pc[p] # "down" /\ faults < MaxFaults
  /\ faults' = faults + 1
  /\ Goto(p, "down")
  /\ tx' = [tx EXCEPT ![p] = NoTransaction]
  /\ lacking' = [lacking EXCEPT ![p] = {}]
  /\ UNCHANGED <<stored, settings, command, posted,
                 corpus, corpora, dbUp>>

Outage ==
  /\ dbUp /\ faults < MaxFaults
  /\ faults' = faults + 1
  /\ dbUp' = FALSE
  /\ tx' = [p \in Processes |-> NoTransaction]
  /\ pc' = [p \in Processes |-> IF pc[p] \in InTransaction THEN Ended(p) ELSE pc[p]]
  /\ UNCHANGED <<lacking, stored, settings, command, posted,
                 corpus, corpora>>

Recover ==
  /\ ~dbUp
  /\ dbUp' = TRUE
  /\ UNCHANGED <<pc, tx, lacking, stored, settings, command, posted,
                 corpus, corpora, faults>>

\* A client of a serving API moves money between two seeded accounts: not
\* while a seeding holds their rows.
PostTransfer(p) ==
  /\ At(p, "serving") /\ posted < MaxTransfers
  /\ seeds > 0 /\ LedgerTables \subseteq schema
  /\ \A q \in Processes : tx[q].deleted = 0
  /\ posted' = posted + 1
  /\ transfers' = transfers \cup {posted'}
  /\ UNCHANGED <<pc, tx, lacking, schema, version, seeds, chunks,
                 settings, command, corpus, corpora, dbUp, faults>>

AddDocument ==
  /\ \E document \in Documents \ corpus : corpus' = corpus \cup {document}
  /\ corpora' = corpora \cup {corpus'}
  /\ UNCHANGED <<pc, tx, lacking, stored, settings, command, posted,
                 dbUp, faults>>

FirstStage(p) ==
  IF p \in Containers THEN "down"
  ELSE CASE command = "none" -> "done"
         [] command = "alembic upgrade" -> "migrate"
         [] command = "payops-seed" -> "check"
         [] command = "payops-ingest" -> "ensure"

Init ==
  /\ settings \in Configs /\ command \in Commands
  /\ pc = [p \in Processes |-> FirstStage(p)]
  /\ tx = [p \in Processes |-> NoTransaction]
  /\ lacking = [p \in Processes |-> {}]
  /\ \E db \in Databases :
       schema = db.schema /\ version = db.version /\ seeds = db.seeds
  /\ transfers = {} /\ posted = 0 /\ chunks = {}
  /\ corpus \in Corpora /\ corpora = {corpus}
  /\ dbUp = TRUE /\ faults = 0

Step(p) ==
  \/ Start(p) \/ Connect(p) \/ GiveUp(p) \/ LosesDatabase(p)
  \/ BeginUpgrade(p) \/ BeginGoesOn(p) \/ BeginFails(p)
  \/ Upgrade(p) \/ UpgradeFails(p) \/ CommitUpgrade(p)
  \/ Count(p) \/ CountFails(p) \/ Check(p) \/ Create(p) \/ CreateFails(p)
  \/ Reset(p) \/ ResetGoesOn(p) \/ Fill(p) \/ FillFails(p) \/ CommitSeed(p)
  \/ EnsureSchema(p) \/ EnsureGoesOn(p) \/ EnsureFails(p) \/ CommitSchema(p)
  \/ Index(p) \/ Serve(p)

Around ==
  \/ \E p \in Containers : Crash(p) \/ PostTransfer(p)
  \/ Outage \/ Recover \/ AddDocument

Prepared ==
  /\ \A p \in Processes : pc[p] \in {"serving", "done"}
  /\ UNCHANGED vars

Next == (\E p \in Processes : Step(p)) \/ Around \/ Prepared

\* The container runtime restarts what has ended, and the server comes back.
Fairness == (\A p \in Processes : WF_vars(Step(p))) /\ WF_vars(Recover)

Spec == Init /\ [][Next]_vars /\ Fairness

=============================================================================
