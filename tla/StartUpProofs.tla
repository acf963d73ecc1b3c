--------------------------- MODULE StartUpProofs ---------------------------
(***************************************************************************)
(* For any containers, settings, databases and number of faults: the       *)
(* version never names a revision that is not there, a container that      *)
(* serves has found, or made, what its settings ask for, and nothing is    *)
(* seeded twice unless two processes seed.                                 *)
(***************************************************************************)
EXTENDS StartUpProperties, TLAPS

\* Stages a container reaches only behind its migration, its seeding, and
\* the chunk table.
Seeded == {"ensure", "ensure_waits", "ensured", "index", "bootstrap", "serving"}
Migrated == Seeding \cup {"count"} \cup Seeded
HasChunkTable == {"index", "bootstrap", "serving"}

\* What an open upgrade has made, with what is committed, is what its version
\* says.
Upgrading(p) ==
  pc[p] = "upgrade" =>
    /\ Created(tx[p].version) \subseteq schema \cup tx[p].made
    /\ VersionTable \subseteq schema \cup tx[p].made

UpgradeIsTrue ==
  /\ version > 0 => VersionTable \subseteq schema
  /\ \A p \in Processes : Upgrading(p)

Earned(p) ==
  /\ settings.auto_migrate /\ pc[p] \in Migrated => version = Head
  /\ settings.seed_on_start /\ pc[p] \in Seeded => seeds > 0
  /\ pc[p] = "ensured" => tx[p].made = ChunkTable
  /\ settings.pgvector /\ pc[p] \in HasChunkTable => ChunkTable \subseteq schema
  /\ settings.pgvector /\ pc[p] \in {"bootstrap", "serving"} => chunks \in corpora

StagesAreEarned == \A p \in Containers : Earned(p)

CorpusGrows ==
  /\ corpus \in corpora
  /\ \A old \in corpora : old \subseteq corpus
  /\ chunks \in corpora \cup {{}}

Inductive == TypeOK /\ VersionIsTrue /\ UpgradeIsTrue /\ StagesAreEarned /\ CorpusGrows

----------------------------------------------------------------------------
(* What the revisions create.                                              *)

LEMMA CreatedIsObjects ==
  /\ \A v \in 0..Head : Created(v) \subseteq Objects
  /\ \A revision \in Revisions : Creates(revision) \subseteq Objects
  /\ VersionTable \subseteq Objects
  /\ Objects = VersionTable \cup Created(Head)
BY DEF Objects, Created, Revisions, Head

LEMMA CreatedStep ==
  ASSUME NEW v \in 0..Head, v < Head
  PROVE  Created(v + 1) = Created(v) \cup Creates(v + 1)
<1>1. 1..(v + 1) = (1..v) \cup {v + 1} BY DEF Head
<1> QED BY <1>1 DEF Created

LEMMA NothingCreated == Created(0) = {}
BY DEF Created

LEMMA TablesAreObjects ==
  /\ ChunkTable \subseteq Objects
  /\ Metadata \subseteq Objects
  /\ \A tables : tables \subseteq Objects => WithTheirColumns(tables) \subseteq Objects
<1>1. /\ Creates(1) = PaymentTables /\ Creates(2) = ChunkTable
      /\ Creates(3) = InvestigationTables /\ Creates(4) = LedgerTables
      /\ Creates(5) = CreatedIndex /\ Creates(6) = InputMethod
      /\ Creates(7) = Duration /\ Creates(8) = AuthTables
  BY DEF Creates
<1>2. \A revision \in 1..8 : Creates(revision) \subseteq Objects
  BY CreatedIsObjects DEF Revisions, Head
<1>3. /\ PaymentTables \subseteq Objects /\ ChunkTable \subseteq Objects
      /\ InvestigationTables \subseteq Objects /\ LedgerTables \subseteq Objects
      /\ CreatedIndex \subseteq Objects /\ InputMethod \subseteq Objects
      /\ Duration \subseteq Objects /\ AuthTables \subseteq Objects
  BY <1>1, <1>2
<1> QED BY <1>3 DEF Metadata, WithTheirColumns

----------------------------------------------------------------------------
(* Every step, by what it may change.                                      *)

USE DEF Processes

LEMMA InitIsInductive == Init => Inductive
<1> SUFFICES ASSUME Init PROVE Inductive
  OBVIOUS
<1>1. PICK db \in Databases : schema = db.schema /\ version = db.version /\ seeds = db.seeds
  BY DEF Init
<1>2. /\ schema \in SUBSET Objects /\ version \in 0..Head /\ seeds \in Nat
      /\ Created(version) \subseteq schema
      /\ version > 0 => VersionTable \subseteq schema
  BY <1>1, DatabasesAssumption DEF Database
<1>3. \A p \in Processes :
        /\ pc[p] \in {"down", "done", "migrate", "check", "ensure"}
        /\ p \in Containers => pc[p] = "down"
  BY CommandsAssumption DEF Init, FirstStage
<1>4. TypeOK
  <2>1. pc \in [Processes -> Stages]
    BY <1>3 DEF Init, Stages, Preparing, Seeding
  <2>2. tx \in [Processes -> Transaction]
    BY DEF Init, Transaction, NoTransaction, Head
  <2>3. settings \in Config /\ corpus \subseteq Documents
    BY ConfigsAssumption, CorporaAssumption DEF Init
  <2> QED BY <1>2, <2>1, <2>2, <2>3 DEF Init, TypeOK
<1>5. VersionIsTrue /\ UpgradeIsTrue
  BY <1>2, <1>3 DEF VersionIsTrue, UpgradeIsTrue, Upgrading
<1>6. StagesAreEarned
  BY <1>3 DEF StagesAreEarned, Earned, Migrated, Seeded, HasChunkTable, Seeding
<1>7. CorpusGrows
  BY DEF Init, CorpusGrows
<1> QED BY <1>4, <1>5, <1>6, <1>7 DEF Inductive

LEMMA TypeStep == ASSUME TypeOK, [Next]_vars PROVE TypeOK'
<1> USE DEF TypeOK, Goto, At
<1>a. NoTransaction \in Transaction
  BY DEF NoTransaction, Transaction, Head
<1>b. {"down", "wait", "serving", "done", "begin_waits", "upgrade", "fill", "reset_waits",
       "ensure_waits", "ensured", "commit", "check", "create", "reset", "migrate", "count", "ensure", "index",
       "bootstrap"} = Stages
  BY DEF Stages, Preparing, Seeding, InTransaction
<1>c. \A p : Ended(p) \in Stages /\ AfterSeed(p) \in Stages /\ AfterMigration(p) \in Stages
  BY <1>b DEF Ended, AfterSeed, AfterMigration
<1>d. ASSUME NEW p \in Processes, Fail(p) PROVE TypeOK'
  BY <1>d, <1>a, <1>c DEF Fail, stored, world
<1>1. ASSUME NEW p \in Processes, Start(p) PROVE TypeOK'
  BY <1>1, <1>b, <1>c DEF Start, stored, world
<1>2. ASSUME NEW p \in Processes, Connect(p) PROVE TypeOK'
  BY <1>2, <1>b, <1>c DEF Connect, stored, world
<1>3. ASSUME NEW p \in Processes, GiveUp(p) PROVE TypeOK'
  BY <1>3, <1>d DEF GiveUp
<1>4. ASSUME NEW p \in Processes, LosesDatabase(p) PROVE TypeOK'
  BY <1>4, <1>d DEF LosesDatabase
<1>n. NewUpgrade \in Transaction
  BY CreatedIsObjects DEF NewUpgrade, Transaction, NoTransaction
<1>5. ASSUME NEW p \in Processes, BeginUpgrade(p) PROVE TypeOK'
  BY <1>5, <1>n, <1>b DEF BeginUpgrade, stored, world
<1>5a. ASSUME NEW p \in Processes, BeginGoesOn(p) PROVE TypeOK'
  BY <1>5a, <1>n, <1>b DEF BeginGoesOn, stored, world
<1>5b. ASSUME NEW p \in Processes, BeginFails(p) PROVE TypeOK'
  BY <1>5b, <1>d DEF BeginFails
<1>6. ASSUME NEW p \in Processes, Upgrade(p) PROVE TypeOK'
  <2>1. tx[p].version + 1 \in Revisions
    BY <1>6 DEF Upgrade, Transaction, Revisions, Head
  <2>2. tx[p] \in Transaction /\ Creates(tx[p].version + 1) \subseteq Objects
    BY <2>1, CreatedIsObjects
  <2>3. tx[p].version + 1 \in 0..Head
    BY <2>1, <2>2 DEF Transaction, Revisions, Head
  <2>4. [tx[p] EXCEPT !.made = tx[p].made \cup Creates(tx[p].version + 1),
                      !.version = tx[p].version + 1] \in Transaction
    BY <2>2, <2>3 DEF Transaction
  <2> QED BY <1>6, <2>4 DEF Upgrade, stored, world
<1>7. ASSUME NEW p \in Processes, UpgradeFails(p) PROVE TypeOK'
  BY <1>7, <1>d DEF UpgradeFails
<1>8. ASSUME NEW p \in Processes, CommitUpgrade(p) PROVE TypeOK'
  <2>1. tx[p] \in Transaction
    OBVIOUS
  <2> QED BY <1>8, <1>a, <1>c, <2>1 DEF CommitUpgrade, Transaction, world
<1>9. ASSUME NEW p \in Processes, Count(p) PROVE TypeOK'
  BY <1>9, <1>b, <1>c DEF Count, stored, world
<1>10. ASSUME NEW p \in Processes, CountFails(p) PROVE TypeOK'
  BY <1>10, <1>d DEF CountFails
<1>11. ASSUME NEW p \in Processes, Check(p) PROVE TypeOK'
  BY <1>11, <1>b, TablesAreObjects DEF Check, stored, world
<1>12. ASSUME NEW p \in Processes, Create(p) PROVE TypeOK'
  <2>1. schema' \subseteq Objects
    BY <1>12, TablesAreObjects DEF Create
  <2> QED BY <1>12, <2>1, <1>b DEF Create, stored, world
<1>13. ASSUME NEW p \in Processes, CreateFails(p) PROVE TypeOK'
  BY <1>13, <1>d DEF CreateFails
<1>14. ASSUME NEW p \in Processes, Reset(p) PROVE TypeOK'
  <2>1. tx'[p] \in Transaction
    BY <1>14, <1>a DEF Reset, Transaction, NoTransaction
  <2> QED BY <1>14, <1>b, <2>1 DEF Reset, stored, world
<1>15. ASSUME NEW p \in Processes, ResetGoesOn(p) PROVE TypeOK'
  BY <1>15, <1>b, <1>c DEF ResetGoesOn, stored, world
<1>16. ASSUME NEW p \in Processes, Fill(p) PROVE TypeOK'
  <2>1. tx'[p] \in Transaction
    BY <1>16, <1>a DEF Fill, Transaction, NoTransaction
  <2> QED BY <1>16, <1>b, <2>1 DEF Fill, stored, world
<1>17. ASSUME NEW p \in Processes, FillFails(p) PROVE TypeOK'
  BY <1>17, <1>d DEF FillFails
<1>18. ASSUME NEW p \in Processes, CommitSeed(p) PROVE TypeOK'
  BY <1>18, <1>a, <1>c DEF CommitSeed, world
<1>e. [NoTransaction EXCEPT !.made = ChunkTable] \in Transaction
  BY <1>a, TablesAreObjects DEF Transaction
<1>19. ASSUME NEW p \in Processes, EnsureSchema(p) PROVE TypeOK'
  BY <1>19, <1>b, <1>e DEF EnsureSchema, stored, world
<1>20. ASSUME NEW p \in Processes, EnsureGoesOn(p) PROVE TypeOK'
  BY <1>20, <1>b, <1>e DEF EnsureGoesOn, stored, world
<1>20a. ASSUME NEW p \in Processes, CommitSchema(p) PROVE TypeOK'
  <2>1. tx[p] \in Transaction
    OBVIOUS
  <2> QED BY <1>20a, <1>a, <1>b, <2>1 DEF CommitSchema, Transaction, world
<1>21. ASSUME NEW p \in Processes, EnsureFails(p) PROVE TypeOK'
  BY <1>21, <1>d DEF EnsureFails
<1>22. ASSUME NEW p \in Processes, Index(p) PROVE TypeOK'
  BY <1>22, <1>b DEF Index, world
<1>23. ASSUME NEW p \in Processes, Serve(p) PROVE TypeOK'
  BY <1>23, <1>b, <1>c DEF Serve, stored, world
<1>24. ASSUME NEW p \in Containers, Crash(p) PROVE TypeOK'
  BY <1>24, <1>a, <1>b DEF Crash, stored
<1>25. ASSUME NEW p \in Containers, PostTransfer(p) PROVE TypeOK'
  BY <1>25 DEF PostTransfer
<1>26. CASE Outage
  <2>1. pc' \in [Processes -> Stages]
    BY <1>26, <1>c DEF Outage
  <2>2. tx' \in [Processes -> Transaction]
    BY <1>26, <1>a DEF Outage
  <2>3. /\ UNCHANGED <<lacking, stored, settings, command, posted, corpus, corpora>>
        /\ faults' \in Nat
    BY <1>26 DEF Outage
  <2>5. dbUp' \in BOOLEAN
    BY <1>26 DEF Outage
  <2>4. UNCHANGED <<schema, version, seeds, transfers, chunks>>
    BY <2>3 DEF stored
  <2> QED BY <2>1, <2>2, <2>3, <2>4, <2>5
<1>27. CASE Recover
  BY <1>27 DEF Recover, stored
<1>28. CASE AddDocument
  BY <1>28 DEF AddDocument, stored
<1>29. CASE UNCHANGED vars
  BY <1>29 DEF vars, stored, world
<1> QED
  BY <1>1, <1>2, <1>3, <1>4, <1>5, <1>5a, <1>5b, <1>6, <1>7, <1>8, <1>9, <1>10, <1>11,
     <1>12, <1>13, <1>14, <1>15, <1>16, <1>17, <1>18, <1>19, <1>20, <1>20a, <1>21, <1>22,
     <1>23, <1>24, <1>25,
     <1>26, <1>27, <1>28, <1>29 DEF Next, Step, Around, Prepared

\* What a step of p leaves to the others, and what only grows.
Keeps(p) ==
  /\ \A q \in Processes : q # p => pc'[q] = pc[q] /\ tx'[q] = tx[q]
  /\ UNCHANGED settings
  /\ schema \subseteq schema' /\ version' \in {version, Head} /\ seeds' >= seeds
  /\ chunks' # chunks => chunks' \in corpora

LEMMA StepKeeps ==
  ASSUME TypeOK, CorpusGrows, NEW p \in Processes, Step(p)
  PROVE  Keeps(p)
<1> USE DEF TypeOK, Keeps, Goto
<1>a. CASE Fail(p)
  BY <1>a DEF Fail, stored, world
<1>1. CASE Start(p)
  BY <1>1 DEF Start, stored, world
<1>2. CASE Connect(p)
  BY <1>2 DEF Connect, stored, world
<1>3. CASE GiveUp(p)
  BY <1>3, <1>a DEF GiveUp
<1>4. CASE LosesDatabase(p)
  BY <1>4, <1>a DEF LosesDatabase
<1>5. CASE BeginUpgrade(p)
  BY <1>5 DEF BeginUpgrade, stored, world
<1>5a. CASE BeginGoesOn(p)
  BY <1>5a DEF BeginGoesOn, stored, world
<1>5b. CASE BeginFails(p)
  BY <1>5b, <1>a DEF BeginFails
<1>6. CASE Upgrade(p)
  BY <1>6 DEF Upgrade, stored, world
<1>7. CASE UpgradeFails(p)
  BY <1>7, <1>a DEF UpgradeFails
<1>8. CASE CommitUpgrade(p)
  BY <1>8 DEF CommitUpgrade, Transaction, Head, world
<1>9. CASE Count(p)
  BY <1>9 DEF Count, stored, world
<1>10. CASE CountFails(p)
  BY <1>10, <1>a DEF CountFails
<1>11. CASE Check(p)
  BY <1>11 DEF Check, stored, world
<1>12. CASE Create(p)
  BY <1>12 DEF Create, stored, world
<1>13. CASE CreateFails(p)
  BY <1>13, <1>a DEF CreateFails
<1>14. CASE Reset(p)
  BY <1>14 DEF Reset, stored, world
<1>15. CASE ResetGoesOn(p)
  BY <1>15 DEF ResetGoesOn, stored, world
<1>16. CASE Fill(p)
  BY <1>16 DEF Fill, stored, world
<1>17. CASE FillFails(p)
  BY <1>17, <1>a DEF FillFails
<1>18. CASE CommitSeed(p)
  BY <1>18 DEF CommitSeed, stored, world
<1>19. CASE EnsureSchema(p)
  BY <1>19 DEF EnsureSchema, stored, world
<1>20. CASE EnsureGoesOn(p)
  BY <1>20 DEF EnsureGoesOn, stored, world
<1>20a. CASE CommitSchema(p)
  BY <1>20a DEF CommitSchema, world
<1>21. CASE EnsureFails(p)
  BY <1>21, <1>a DEF EnsureFails
<1>22. CASE Index(p)
  <2>1. chunks \cup corpus = corpus
    BY DEF CorpusGrows
  <2>2. chunks' = corpus \/ chunks' = chunks
    BY <1>22, <2>1 DEF Index
  <2>3. chunks' # chunks => chunks' \in corpora
    BY <2>2 DEF CorpusGrows
  <2> QED BY <1>22, <2>3 DEF Index, world
<1>23. CASE Serve(p)
  BY <1>23 DEF Serve, stored, world
<1> QED
  BY <1>1, <1>2, <1>3, <1>4, <1>5, <1>5a, <1>5b, <1>6, <1>7, <1>8, <1>9, <1>10, <1>11,
     <1>12, <1>13, <1>14, <1>15, <1>16, <1>17, <1>18, <1>19, <1>20, <1>20a, <1>21, <1>22,
     <1>23 DEF Step

\* The upgrade of the process that steps.
LEMMA StepUpgrades ==
  ASSUME Inductive, NEW p \in Processes, Step(p)
  PROVE  Upgrading(p)' /\ VersionIsTrue' /\ (version > 0 => VersionTable \subseteq schema)'
<1> USE DEF Inductive, TypeOK, Goto, VersionIsTrue, UpgradeIsTrue
<1>k. Keeps(p)
  BY StepKeeps
<1>a. ASSUME pc'[p] # "upgrade", version' = version
      PROVE  Upgrading(p)' /\ VersionIsTrue' /\ (version > 0 => VersionTable \subseteq schema)'
  BY <1>a, <1>k DEF Upgrading, Keeps
<1>b. /\ Ended(p) # "upgrade" /\ AfterSeed(p) # "upgrade" /\ AfterMigration(p) # "upgrade"
  BY DEF Ended, AfterSeed, AfterMigration
<1>c. CASE Fail(p)
  BY <1>a, <1>b, <1>c DEF Fail, stored
<1>1. CASE Start(p)
  BY <1>1, <1>a, <1>b DEF Start, stored
<1>2. CASE Connect(p)
  BY <1>2, <1>a, <1>b DEF Connect, stored
<1>3. CASE GiveUp(p)
  BY <1>3, <1>c DEF GiveUp
<1>4. CASE LosesDatabase(p)
  BY <1>4, <1>c DEF LosesDatabase
<1>n. ASSUME tx'[p] = NewUpgrade, UNCHANGED stored
      PROVE  Upgrading(p)' /\ VersionIsTrue' /\ (version > 0 => VersionTable \subseteq schema)'
  <2>1. tx'[p].version = version /\ version' = version /\ schema' = schema
    BY <1>n DEF NewUpgrade, NoTransaction, stored
  <2>2. VersionTable \subseteq schema \cup tx'[p].made
    BY <1>n DEF NewUpgrade, NoTransaction
  <2> QED BY <2>1, <2>2 DEF Upgrading
<1>5. CASE BeginUpgrade(p)
  <2>1. CASE pc'[p] = "begin_waits"
    BY <1>5, <1>a, <2>1 DEF BeginUpgrade, stored
  <2>2. CASE tx' = [tx EXCEPT ![p] = NewUpgrade]
    BY <1>5, <1>n, <2>2 DEF BeginUpgrade
  <2> QED BY <1>5, <2>1, <2>2 DEF BeginUpgrade
<1>5a. CASE BeginGoesOn(p)
  BY <1>5a, <1>n DEF BeginGoesOn
<1>5b. CASE BeginFails(p)
  BY <1>5b, <1>c DEF BeginFails
<1>6. CASE Upgrade(p)
  <2>1. tx[p].version \in 0..Head /\ tx[p].version < Head
    BY <1>6 DEF Upgrade, Transaction
  <2>2. /\ tx'[p].version = tx[p].version + 1
        /\ tx'[p].made = tx[p].made \cup Creates(tx[p].version + 1)
        /\ version' = version /\ schema' = schema
    BY <1>6 DEF Upgrade, Transaction, stored
  <2>3. Upgrading(p) /\ pc[p] = "upgrade"
    BY <1>6 DEF Upgrade, At
  <2>4. Created(tx[p].version + 1) = Created(tx[p].version) \cup Creates(tx[p].version + 1)
    BY <2>1, CreatedStep
  <2> QED BY <2>2, <2>3, <2>4 DEF Upgrading
<1>7. CASE UpgradeFails(p)
  BY <1>7, <1>c DEF UpgradeFails
<1>8. CASE CommitUpgrade(p)
  <2>1. Upgrading(p) /\ pc[p] = "upgrade"
    BY <1>8 DEF CommitUpgrade, At
  <2>2. Created(version') \subseteq schema' /\ VersionTable \subseteq schema'
    BY <1>8, <2>1 DEF CommitUpgrade, Upgrading
  <2>3. pc'[p] # "upgrade"
    BY <1>8, <1>b DEF CommitUpgrade
  <2> QED BY <2>2, <2>3 DEF Upgrading
<1>9. CASE Count(p)
  BY <1>9, <1>a, <1>b DEF Count, stored
<1>10. CASE CountFails(p)
  BY <1>10, <1>c DEF CountFails
<1>11. CASE Check(p)
  BY <1>11, <1>a, <1>b DEF Check, stored
<1>12. CASE Create(p)
  BY <1>12, <1>a, <1>b DEF Create, stored
<1>13. CASE CreateFails(p)
  BY <1>13, <1>c DEF CreateFails
<1>14. CASE Reset(p)
  BY <1>14, <1>a, <1>b DEF Reset, stored
<1>15. CASE ResetGoesOn(p)
  BY <1>15, <1>a, <1>b DEF ResetGoesOn, stored
<1>16. CASE Fill(p)
  BY <1>16, <1>a, <1>b DEF Fill, stored
<1>17. CASE FillFails(p)
  BY <1>17, <1>c DEF FillFails
<1>18. CASE CommitSeed(p)
  BY <1>18, <1>a, <1>b DEF CommitSeed, stored
<1>19. CASE EnsureSchema(p)
  BY <1>19, <1>a, <1>b DEF EnsureSchema, stored
<1>20. CASE EnsureGoesOn(p)
  BY <1>20, <1>a, <1>b DEF EnsureGoesOn, stored
<1>20a. CASE CommitSchema(p)
  BY <1>20a, <1>a DEF CommitSchema
<1>21. CASE EnsureFails(p)
  BY <1>21, <1>c DEF EnsureFails
<1>22. CASE Index(p)
  BY <1>22, <1>a, <1>b DEF Index, stored
<1>23. CASE Serve(p)
  BY <1>23, <1>a, <1>b DEF Serve, stored
<1> QED
  BY <1>1, <1>2, <1>3, <1>4, <1>5, <1>5a, <1>5b, <1>6, <1>7, <1>8, <1>9, <1>10, <1>11,
     <1>12, <1>13, <1>14, <1>15, <1>16, <1>17, <1>18, <1>19, <1>20, <1>20a, <1>21, <1>22,
     <1>23 DEF Step

\* The stage of the container that steps.
LEMMA StepEarns ==
  ASSUME Inductive, NEW p \in Containers, Step(p)
  PROVE  Earned(p)'
<1> USE DEF Inductive, TypeOK, Goto, At
<1>k. Keeps(p) /\ Earned(p) /\ version \in 0..Head /\ p # Operator
  BY StepKeeps, OperatorAssumption DEF StagesAreEarned
<1>a. ASSUME pc'[p] \notin Migrated \cup Seeded \cup HasChunkTable PROVE Earned(p)'
  BY <1>a DEF Earned, HasChunkTable, Seeded
<1>b. ASSUME NEW stage, pc[p] = stage, pc'[p] \in Seeding, stage \in Seeding \cup {"count"}
      PROVE Earned(p)'
  BY <1>b, <1>k DEF Earned, Keeps, Migrated, Seeding, Seeded, HasChunkTable
<1>c. CASE Fail(p)
  BY <1>a, <1>c, <1>k DEF Fail, Ended, Migrated, Seeded, HasChunkTable, Seeding
<1>1. CASE Start(p)
  BY <1>1, <1>a DEF Start, Migrated, Seeded, HasChunkTable, Seeding
<1>2. CASE Connect(p)
  BY <1>2, <1>k DEF Connect, AfterMigration, AfterSeed, Earned, Keeps, Migrated, Seeded,
     HasChunkTable, Seeding, stored, world, CorpusGrows
<1>3. CASE GiveUp(p)
  BY <1>3, <1>c DEF GiveUp
<1>4. CASE LosesDatabase(p)
  BY <1>4, <1>c DEF LosesDatabase
<1>5. CASE BeginUpgrade(p)
  BY <1>5, <1>a DEF BeginUpgrade, Migrated, Seeded, HasChunkTable, Seeding
<1>5a. CASE BeginGoesOn(p)
  BY <1>5a, <1>a DEF BeginGoesOn, Migrated, Seeded, HasChunkTable, Seeding
<1>5b. CASE BeginFails(p)
  BY <1>5b, <1>c DEF BeginFails
<1>6. CASE Upgrade(p)
  BY <1>6, <1>a DEF Upgrade, Migrated, Seeded, HasChunkTable, Seeding
<1>7. CASE UpgradeFails(p)
  BY <1>7, <1>c DEF UpgradeFails
<1>8. CASE CommitUpgrade(p)
  BY <1>8, <1>k DEF CommitUpgrade, AfterMigration, AfterSeed, Earned, Keeps, Migrated,
     Seeded, HasChunkTable, Seeding, stored, world, CorpusGrows
<1>9. CASE Count(p)
  BY <1>9, <1>k DEF Count, AfterMigration, AfterSeed, Earned, Keeps, Migrated, Seeded,
     HasChunkTable, Seeding, stored, world, CorpusGrows
<1>10. CASE CountFails(p)
  BY <1>10, <1>c DEF CountFails
<1>11. CASE Check(p)
  BY <1>11, <1>b DEF Check, Seeding
<1>12. CASE Create(p)
  BY <1>12, <1>b DEF Create, Seeding
<1>13. CASE CreateFails(p)
  BY <1>13, <1>c DEF CreateFails
<1>14. CASE Reset(p)
  BY <1>14, <1>b DEF Reset, Seeding
<1>15. CASE ResetGoesOn(p)
  BY <1>15, <1>b DEF ResetGoesOn, Seeding
<1>16. CASE Fill(p)
  BY <1>16, <1>b DEF Fill, Seeding
<1>17. CASE FillFails(p)
  BY <1>17, <1>c DEF FillFails
<1>18. CASE CommitSeed(p)
  BY <1>18, <1>k DEF CommitSeed, AfterMigration, AfterSeed, Earned, Keeps, Migrated,
     Seeded, HasChunkTable, Seeding, stored, world, CorpusGrows
<1>19. CASE EnsureSchema(p)
  BY <1>19, <1>k DEF EnsureSchema, NoTransaction, Earned, Keeps, Migrated, Seeded,
     HasChunkTable, Seeding, stored, world
<1>20. CASE EnsureGoesOn(p)
  BY <1>20, <1>k DEF EnsureGoesOn, NoTransaction, Earned, Keeps, Migrated, Seeded,
     HasChunkTable, Seeding, stored, world
<1>20a. CASE CommitSchema(p)
  BY <1>20a, <1>k DEF CommitSchema, Earned, Keeps, Migrated, Seeded, HasChunkTable,
     Seeding, world
<1>21. CASE EnsureFails(p)
  BY <1>21, <1>c DEF EnsureFails
<1>22. CASE Index(p)
  BY <1>22, <1>k DEF Index, Indexes, CorpusGrows, Earned, Keeps, Migrated, Seeded,
     HasChunkTable, Seeding, world
<1>23. CASE Serve(p)
  BY <1>23, <1>k DEF Serve, Earned, Keeps, Migrated, Seeded, HasChunkTable, Seeding,
     stored, world
<1> QED
  BY <1>1, <1>2, <1>3, <1>4, <1>5, <1>5a, <1>5b, <1>6, <1>7, <1>8, <1>9, <1>10, <1>11,
     <1>12, <1>13, <1>14, <1>15, <1>16, <1>17, <1>18, <1>19, <1>20, <1>20a, <1>21, <1>22,
     <1>23 DEF Step

\* What the others have is kept.
LEMMA OthersKeep ==
  ASSUME Inductive, NEW p \in Processes, Keeps(p), TypeOK', VersionIsTrue'
  PROVE  /\ \A q \in Processes \ {p} : Upgrading(q)'
         /\ \A q \in Containers \ {p} : (corpora' = corpora => Earned(q)')
<1> USE DEF Inductive, TypeOK
<1>1. \A q \in Processes \ {p} : Upgrading(q)'
  BY DEF UpgradeIsTrue, Upgrading, Keeps
<1>2. ASSUME NEW q \in Containers \ {p}, corpora' = corpora PROVE Earned(q)'
  <2>1. Earned(q) /\ q \in Processes \ {p}
    BY <1>2 DEF StagesAreEarned
  <2>2. pc'[q] = pc[q] /\ tx'[q] = tx[q] /\ settings' = settings
    BY <2>1 DEF Keeps
  <2>3. /\ version = Head => version' = Head
        /\ seeds > 0 => seeds' > 0
        /\ schema \subseteq schema'
    BY DEF Keeps
  <2>4. chunks \in corpora => chunks' \in corpora'
    BY <1>2 DEF Keeps
  <2> QED BY <2>1, <2>2, <2>3, <2>4 DEF Earned
<1> QED BY <1>1, <1>2

\* Nobody but Index writes chunks, and nobody in a step writes the corpus.
LEMMA CorpusStep ==
  ASSUME TypeOK, CorpusGrows, NEW p \in Processes, Step(p)
  PROVE  CorpusGrows' /\ UNCHANGED <<corpus, corpora>>
<1>1. UNCHANGED <<corpus, corpora>>
  <2>1. CASE Fail(p)
    BY <2>1 DEF Fail, world
  <2> QED
    BY <2>1 DEF Step, world, Start, Connect, GiveUp, LosesDatabase, BeginUpgrade,
       BeginGoesOn, BeginFails, Upgrade, UpgradeFails, CommitUpgrade, Count, CountFails, Check, Create, CreateFails, Reset,
       ResetGoesOn, Fill, FillFails, CommitSeed, EnsureSchema, EnsureGoesOn, EnsureFails,
       CommitSchema, Index, Serve
<1>2. chunks' # chunks => chunks' \in corpora
  BY StepKeeps DEF Keeps
<1> QED BY <1>1, <1>2 DEF CorpusGrows

LEMMA InductiveStep == ASSUME Inductive, [Next]_vars PROVE Inductive'
<1>1. TypeOK'
  BY TypeStep DEF Inductive
<1>2. ASSUME NEW p \in Processes, Step(p) PROVE Inductive'
  <2>1. Keeps(p)
    BY <1>2, StepKeeps DEF Inductive
  <2>2. Upgrading(p)' /\ VersionIsTrue' /\ (version > 0 => VersionTable \subseteq schema)'
    BY <1>2, StepUpgrades
  <2>3. CorpusGrows' /\ corpora' = corpora
    BY <1>2, CorpusStep DEF Inductive
  <2>4. p \in Containers => Earned(p)'
    BY <1>2, StepEarns
  <2>5. UpgradeIsTrue' /\ StagesAreEarned'
    BY <1>1, <2>1, <2>2, <2>3, <2>4, OthersKeep DEF UpgradeIsTrue, StagesAreEarned
  <2> QED BY <1>1, <2>2, <2>3, <2>5 DEF Inductive
<1>3. ASSUME stored' = stored, corpus' = corpus, corpora' = corpora, settings' = settings,
             \A p \in Processes :
               \/ pc'[p] = pc[p] /\ tx'[p] = tx[p]
               \/ pc'[p] \in {"down", "done"}
      PROVE  Inductive'
  <2>1. UNCHANGED <<schema, version, seeds, transfers, chunks>>
    BY <1>3 DEF stored
  <2>2. VersionIsTrue' /\ CorpusGrows'
    BY <1>3, <2>1 DEF Inductive, VersionIsTrue, CorpusGrows
  <2>3. ASSUME NEW p \in Processes PROVE Upgrading(p)'
    BY <1>3, <2>1 DEF Inductive, UpgradeIsTrue, Upgrading
  <2>4. ASSUME NEW p \in Containers PROVE Earned(p)'
    <3>1. CASE pc'[p] \in {"down", "done"}
      BY <3>1 DEF Earned, Migrated, Seeded, HasChunkTable, Seeding
    <3>2. CASE pc'[p] = pc[p] /\ tx'[p] = tx[p]
      BY <1>3, <2>1, <3>2 DEF Inductive, StagesAreEarned, Earned
    <3> QED BY <1>3, <3>1, <3>2 DEF Processes
  <2>5. UpgradeIsTrue'
    BY <2>1, <2>3 DEF Inductive, UpgradeIsTrue
  <2> QED BY <1>1, <2>2, <2>4, <2>5 DEF Inductive, StagesAreEarned
<1>4. ASSUME NEW p \in Containers, Crash(p) PROVE Inductive'
  BY <1>3, <1>4 DEF Crash, Goto, Inductive, TypeOK
<1>5. ASSUME NEW p \in Containers, PostTransfer(p) PROVE Inductive'
  BY <1>1, <1>5 DEF PostTransfer, Inductive, VersionIsTrue, UpgradeIsTrue, Upgrading,
     StagesAreEarned, Earned, CorpusGrows
<1>6. CASE Outage
  <2>1. \A p \in Processes :
          \/ pc'[p] = pc[p] /\ pc'[p] \notin {"upgrade", "ensured"}
          \/ pc'[p] \in {"down", "done"}
    BY <1>6 DEF Outage, Ended, InTransaction
  <2>2. UNCHANGED <<schema, version, seeds, transfers, chunks, settings, corpus, corpora>>
    BY <1>6 DEF Outage, stored
  <2>3. VersionIsTrue' /\ CorpusGrows' /\ UpgradeIsTrue'
    BY <2>1, <2>2 DEF Inductive, VersionIsTrue, CorpusGrows, UpgradeIsTrue, Upgrading
  <2>4. ASSUME NEW p \in Containers PROVE Earned(p)'
    <3>1. CASE pc'[p] \in {"down", "done"}
      BY <3>1 DEF Earned, Migrated, Seeded, HasChunkTable, Seeding
    <3>2. CASE pc'[p] = pc[p] /\ pc'[p] # "ensured"
      BY <2>2, <3>2 DEF Inductive, StagesAreEarned, Earned
    <3> QED BY <2>1, <3>1, <3>2
  <2> QED BY <1>1, <2>3, <2>4 DEF Inductive, StagesAreEarned
<1>7. CASE Recover
  BY <1>3, <1>7 DEF Recover
<1>8. CASE AddDocument
  <2>1. UNCHANGED <<pc, tx, schema, version, seeds, chunks, settings>>
    BY <1>8 DEF AddDocument, stored
  <2>2. corpus \subseteq corpus' /\ corpora' = corpora \cup {corpus'}
    BY <1>8 DEF AddDocument
  <2>3. CorpusGrows'
    BY <2>1, <2>2 DEF Inductive, CorpusGrows
  <2> QED
    BY <1>1, <2>1, <2>2, <2>3 DEF Inductive, VersionIsTrue, UpgradeIsTrue, Upgrading,
       StagesAreEarned, Earned
<1>9. CASE UNCHANGED vars
  BY <1>3, <1>9 DEF vars, world
<1> QED
  BY <1>2, <1>4, <1>5, <1>6, <1>7, <1>8, <1>9 DEF Next, Around, Prepared

THEOREM StartUpInvariant == Spec => []Inductive
<1>1. Init => Inductive
  BY InitIsInductive
<1>2. Inductive /\ [Next]_vars => Inductive'
  BY InductiveStep
<1> QED BY <1>1, <1>2, PTL DEF Spec

----------------------------------------------------------------------------

\* Types hold, however many containers there are.
THEOREM StartUpTypes == Spec => []TypeOK
<1>1. Inductive => TypeOK
  BY DEF Inductive
<1> QED BY <1>1, StartUpInvariant, PTL

\* An upgrade is all or nothing, whoever runs it and whatever crashes.
THEOREM VersionNeverLies == Spec => []VersionIsTrue
<1>1. Inductive => VersionIsTrue
  BY DEF Inductive
<1> QED BY <1>1, StartUpInvariant, PTL

\* No container serves before its database is prepared.
THEOREM ServesOnlyPrepared == Spec => []ServesAPreparedDatabase
<1>1. Inductive => ServesAPreparedDatabase
  <2> SUFFICES ASSUME Inductive, NEW p \in Containers, pc[p] = "serving"
      PROVE /\ settings.auto_migrate => version = Head /\ schema = Objects
            /\ settings.seed_on_start => seeds > 0
            /\ settings.pgvector => ChunkTable \subseteq schema /\ chunks \in corpora
    BY DEF ServesAPreparedDatabase
  <2>1. Earned(p)
    BY DEF Inductive, StagesAreEarned
  <2>2. version = Head => schema = Objects
    BY CreatedIsObjects DEF Inductive, TypeOK, VersionIsTrue, UpgradeIsTrue, Head
  <2> QED BY <2>1, <2>2 DEF Earned, Migrated, Seeded, HasChunkTable
<1> QED BY <1>1, StartUpInvariant, PTL

----------------------------------------------------------------------------
(* Seeding once.                                                           *)

\* A process seeds only behind a count that found nothing, or from the start,
\* and no step but the commit of a seeding drops a transfer or counts as one.
LEMMA StepSeeds ==
  ASSUME TypeOK, NEW p \in Processes, Step(p)
  PROVE  /\ pc'[p] \in Seeding => pc[p] \in Seeding \/ seeds = 0
         /\ transfers' = transfers \/ pc[p] = "commit"
         /\ seeds' = seeds \/ CommitSeed(p)
         /\ command' = command
<1> USE DEF TypeOK, Goto, At, stored, world
<1>b. /\ AfterSeed(p) \notin Seeding /\ AfterMigration(p) \notin Seeding
      /\ Ended(p) \notin Seeding
      /\ {"check", "create", "reset", "reset_waits", "fill", "commit"} = Seeding
  BY DEF AfterSeed, AfterMigration, Ended, Seeding
<1>a. CASE Fail(p)
  BY <1>a, <1>b DEF Fail
<1>1. CASE Start(p) \/ Connect(p)
  BY <1>1, <1>b DEF Start, Connect
<1>2. CASE GiveUp(p) \/ LosesDatabase(p) \/ UpgradeFails(p) \/ CountFails(p)
           \/ CreateFails(p) \/ FillFails(p) \/ EnsureFails(p) \/ BeginFails(p)
  BY <1>2, <1>a DEF GiveUp, LosesDatabase, UpgradeFails, CountFails, CreateFails, FillFails,
     EnsureFails, BeginFails
<1>3. CASE BeginUpgrade(p) \/ BeginGoesOn(p) \/ Upgrade(p) \/ CommitUpgrade(p)
  BY <1>3, <1>b DEF BeginUpgrade, BeginGoesOn, Upgrade, CommitUpgrade
<1>4. CASE Count(p)
  BY <1>4, <1>b DEF Count
<1>5. CASE Check(p) \/ Create(p) \/ Reset(p) \/ ResetGoesOn(p) \/ Fill(p)
  BY <1>5, <1>b DEF Check, Create, Reset, ResetGoesOn, Fill
<1>6. CASE CommitSeed(p)
  BY <1>6, <1>b DEF CommitSeed
<1>7. CASE EnsureSchema(p) \/ EnsureGoesOn(p) \/ CommitSchema(p) \/ Index(p) \/ Serve(p)
  BY <1>7, <1>b DEF EnsureSchema, EnsureGoesOn, CommitSchema, Index, Serve
<1> QED
  BY <1>1, <1>2, <1>3, <1>4, <1>5, <1>6, <1>7 DEF Step

\* Once there is data and no container is seeding, no restart of any container
\* seeds again, and only payops-seed drops a transfer.
THEOREM RestartsKeepTransfers == Spec => TransfersSurviveRestarts
<1> DEFINE Survive ==
      (seeds > 0 /\ \A p \in Containers : pc[p] \notin Seeding) =>
        /\ \A p \in Containers : pc'[p] \notin Seeding
        /\ transfers \subseteq transfers' \/ pc[Operator] = "commit"
<1>1. ASSUME Inductive, [Next]_vars PROVE Survive
  <2> SUFFICES ASSUME seeds > 0, \A p \in Containers : pc[p] \notin Seeding
               PROVE  /\ \A p \in Containers : pc'[p] \notin Seeding
                      /\ transfers \subseteq transfers' \/ pc[Operator] = "commit"
    OBVIOUS
  <2>0. TypeOK /\ seeds # 0 /\ "commit" \in Seeding
    BY <1>1 DEF Inductive, TypeOK, Seeding
  <2>1. ASSUME NEW p \in Processes, Step(p)
        PROVE  /\ \A q \in Containers : pc'[q] \notin Seeding
               /\ transfers \subseteq transfers' \/ pc[Operator] = "commit"
    <3>1. \A q \in Processes : q # p => pc'[q] = pc[q]
      BY <1>1, <2>1, StepKeeps DEF Inductive, Keeps
    <3>2. p \in Containers => pc'[p] \notin Seeding
      BY <2>0, <2>1, StepSeeds
    <3>3. transfers' = transfers \/ pc[p] = "commit"
      BY <2>0, <2>1, StepSeeds
    <3>4. pc[p] = "commit" => p = Operator
      BY <2>0
    <3> QED
      BY <3>1, <3>2, <3>3, <3>4
  <2>2. ASSUME NEW p \in Containers, Crash(p)
        PROVE  /\ \A q \in Containers : pc'[q] \notin Seeding
               /\ transfers' = transfers
    BY <2>0, <2>2 DEF Crash, Goto, TypeOK, stored, Seeding
  <2>3. ASSUME NEW p \in Containers, PostTransfer(p)
        PROVE  pc' = pc /\ transfers \subseteq transfers'
    BY <2>3 DEF PostTransfer
  <2>4. CASE Outage
    <3>1. \A q \in Containers : pc'[q] \in {pc[q], "down", "done"}
      BY <2>4 DEF Outage, Ended
    <3>2. transfers' = transfers
      BY <2>4 DEF Outage, stored
    <3> QED
      BY <3>1, <3>2 DEF Seeding
  <2>5. CASE Recover \/ AddDocument \/ UNCHANGED vars
    BY <2>5 DEF Recover, AddDocument, vars, stored
  <2> QED
    BY <1>1, <2>1, <2>2, <2>3, <2>4, <2>5 DEF Next, Around, Prepared
<1>2. Inductive /\ [Next]_vars => Survive
  BY <1>1
<1> QED
  BY <1>2, StartUpInvariant, PTL DEF Spec, TransfersSurviveRestarts

\* There is one container, and the operator does not seed.
SeedsAlone == (\A p, q \in Containers : p = q) /\ command # "payops-seed"

OtherErrands ==
  {"migrate", "begin_waits", "upgrade", "ensure", "ensure_waits", "ensured", "index", "done"}

\* While it seeds, nothing has been seeded since it counted.
AloneInv ==
  SeedsAlone =>
    /\ pc[Operator] \in OtherErrands
    /\ \A p \in Containers : pc[p] \in Seeding => seeds = 0

LEMMA OperatorKeepsItsErrand ==
  ASSUME TypeOK, Step(Operator), pc[Operator] \in OtherErrands
  PROVE  pc'[Operator] \in OtherErrands
<1> USE DEF TypeOK, Goto, At, OtherErrands
<1>0. /\ Operator \in Processes
      /\ Ended(Operator) = "done" /\ AfterSeed(Operator) = "done"
      /\ AfterMigration(Operator) = "done"
  BY DEF Processes, Ended, AfterSeed, AfterMigration
<1>1. CASE Fail(Operator)
  BY <1>0, <1>1 DEF Fail
<1>2. CASE \/ GiveUp(Operator) \/ LosesDatabase(Operator) \/ UpgradeFails(Operator)
           \/ CountFails(Operator) \/ CreateFails(Operator) \/ FillFails(Operator)
           \/ EnsureFails(Operator) \/ BeginFails(Operator)
  BY <1>1, <1>2 DEF GiveUp, LosesDatabase, UpgradeFails, CountFails, CreateFails, FillFails,
     EnsureFails, BeginFails
<1>3. CASE \/ BeginUpgrade(Operator) \/ BeginGoesOn(Operator) \/ Upgrade(Operator)
           \/ CommitUpgrade(Operator)
  BY <1>0, <1>3 DEF BeginUpgrade, BeginGoesOn, Upgrade, CommitUpgrade
<1>4. CASE \/ EnsureSchema(Operator) \/ EnsureGoesOn(Operator) \/ CommitSchema(Operator)
           \/ Index(Operator)
  BY <1>0, <1>4 DEF EnsureSchema, EnsureGoesOn, CommitSchema, Index
<1>5. CASE \/ Start(Operator) \/ Connect(Operator) \/ Count(Operator) \/ Check(Operator)
           \/ Create(Operator) \/ Reset(Operator) \/ ResetGoesOn(Operator) \/ Fill(Operator)
           \/ CommitSeed(Operator) \/ Serve(Operator)
  BY <1>5 DEF Start, Connect, Count, Check, Create, Reset, ResetGoesOn, Fill, CommitSeed, Serve
<1> QED
  BY <1>2, <1>3, <1>4, <1>5 DEF Step

LEMMA StepAlone ==
  ASSUME Inductive, AloneInv, [Next]_vars
  PROVE  AloneInv'
<1> SUFFICES ASSUME SeedsAlone'
             PROVE  /\ pc'[Operator] \in OtherErrands
                    /\ \A p \in Containers : pc'[p] \in Seeding => seeds' = 0
  BY DEF AloneInv
<1>0. TypeOK /\ CorpusGrows /\ Operator \in Processes /\ Containers \subseteq Processes
  BY DEF Inductive, Processes
<1>a. ASSUME command' = command
      PROVE  /\ SeedsAlone /\ pc[Operator] \in OtherErrands
             /\ \A p \in Containers : pc[p] \in Seeding => seeds = 0
  BY <1>a DEF AloneInv, SeedsAlone
<1>1. ASSUME NEW p \in Processes, Step(p)
      PROVE  /\ pc'[Operator] \in OtherErrands
             /\ \A q \in Containers : pc'[q] \in Seeding => seeds' = 0
  <2>1. /\ \A q \in Processes : q # p => pc'[q] = pc[q]
        /\ pc'[p] \in Seeding => pc[p] \in Seeding \/ seeds = 0
        /\ seeds' = seeds \/ CommitSeed(p)
        /\ command' = command
    BY <1>0, <1>1, StepKeeps, StepSeeds DEF Keeps
  <2>2. CASE p = Operator
    <3>1. ~CommitSeed(p)
      BY <1>a, <2>1, <2>2 DEF CommitSeed, At, OtherErrands
    <3> QED
      BY <1>0, <1>1, <1>a, <2>1, <2>2, <3>1, OperatorKeepsItsErrand, OperatorAssumption
  <2>3. CASE p # Operator
    <3>1. p \in Containers /\ \A q \in Containers : q = p
      BY <1>a, <2>1, <2>3 DEF Processes, SeedsAlone
    <3>2. CommitSeed(p) => pc'[p] \notin Seeding
      BY <1>0 DEF CommitSeed, Goto, AfterSeed, Seeding, TypeOK
    <3> QED
      BY <1>0, <1>a, <2>1, <2>3, <3>1, <3>2
  <2> QED
    BY <2>2, <2>3
<1>2. ASSUME NEW p \in Containers, Crash(p)
      PROVE  /\ pc'[Operator] \in OtherErrands
             /\ \A q \in Containers : pc'[q] \in Seeding => seeds' = 0
  BY <1>0, <1>2, <1>a, OperatorAssumption DEF Crash, Goto, TypeOK, stored, Seeding
<1>3. ASSUME NEW p \in Containers, PostTransfer(p)
      PROVE  UNCHANGED <<pc, seeds, command>>
  BY <1>3 DEF PostTransfer
<1>4. CASE Outage
  <2>1. \A q \in Processes : pc'[q] = pc[q] \/ pc'[q] = Ended(q)
    BY <1>4 DEF Outage
  <2>2. seeds' = seeds /\ command' = command
    BY <1>4 DEF Outage, stored
  <2> QED
    BY <1>0, <1>a, <2>1, <2>2 DEF Ended, Seeding, OtherErrands
<1>5. CASE Recover \/ AddDocument \/ UNCHANGED vars
  BY <1>5, <1>a DEF Recover, AddDocument, vars, stored, world
<1> QED
  BY <1>1, <1>2, <1>3, <1>4, <1>5, <1>a DEF Next, Around, Prepared

\* A container that is alone, and no operator, seeds only a database that has
\* no data, whatever crashes and restarts: it takes two for seed_if_empty to
\* replace what is there.
THEOREM AloneSeedsOnlyAnEmptyDatabase ==
  Spec => [][SeedsAlone => \A p \in Containers : CommitSeed(p) => seeds = 0]_vars
<1>1. Init => AloneInv
  BY OperatorAssumption, CommandsAssumption
     DEF Init, AloneInv, SeedsAlone, FirstStage, OtherErrands, Seeding, Processes
<1>2. Inductive /\ AloneInv /\ [Next]_vars => AloneInv'
  BY StepAlone
<1>3. AloneInv => (SeedsAlone => \A p \in Containers : CommitSeed(p) => seeds = 0)
  BY DEF AloneInv, CommitSeed, At, Seeding
<1> QED
  BY <1>1, <1>2, <1>3, StartUpInvariant, PTL DEF Spec

=============================================================================
