------------------------- MODULE StartUpProperties -------------------------
(* What starting up promises.                                              *)
EXTENDS StartUp

\* Types of the variables.
TypeOK ==
  /\ settings \in Config /\ command \in Commands
  /\ pc \in [Processes -> Stages]
  /\ tx \in [Processes -> Transaction]
  /\ lacking \in [Processes -> SUBSET Objects]
  /\ schema \in SUBSET Objects /\ version \in 0..Head /\ seeds \in Nat
  /\ posted \in Nat /\ transfers \subseteq 1..posted
  /\ chunks \subseteq Documents /\ corpus \subseteq Documents
  /\ dbUp \in BOOLEAN /\ faults \in Nat

\* Whoever migrates, and whatever crashes in between, alembic_version never
\* names a revision whose tables, columns and indexes are not all there: the
\* revisions of one upgrade are one transaction.
VersionIsTrue == Created(version) \subseteq schema

\* A container whose settings say so serves only a database that is migrated
\* to the head, holds the seeded merchants and, with pgvector, has the chunk
\* table and one whole content of the corpus, unless there was none to read.
ServesAPreparedDatabase ==
  \A p \in Containers : pc[p] = "serving" =>
    /\ settings.auto_migrate => version = Head /\ schema = Objects
    /\ settings.seed_on_start => seeds > 0
    /\ settings.pgvector =>
         /\ ChunkTable \subseteq schema
         /\ chunks \in corpora

\* Once the data is there and no container is seeding, none ever does again,
\* and a transfer that a client was told of outlives every start: only
\* payops-seed resets the ledger.
TransfersSurviveRestarts ==
  [][(seeds > 0 /\ \A p \in Containers : pc[p] \notin Seeding) =>
       /\ \A p \in Containers : pc'[p] \notin Seeding
       /\ transfers \subseteq transfers' \/ pc[Operator] = "commit"]_vars

\* A revision that has yet to run creates something that is there already:
\* create_all or PgVectorStore made it, and no upgrade succeeds again.
Wedged == \E revision \in (version + 1)..Head : Creates(revision) \cap schema # {}

\* Containers all serve in the end, however often they crash, lose the
\* database, or lose a race for a table or a row and are restarted: migrating
\* ones if nothing but migrations prepares the schema, and others whatever is
\* migrated beside them, if the tables they seed are there.
ContainersServe ==
  (/\ settings.auto_migrate =>
        ~Wedged /\ (version = Head \/ command \in {"none", "alembic upgrade"})
   /\ settings.seed_on_start => settings.auto_migrate \/ "merchants" \in schema) =>
  <>[](\A p \in Containers : pc[p] = "serving")

\* boot.py seeds if the database is empty: what a container's seeding replaces
\* is never another seeding.
SeedsOnlyAnEmptyDatabase ==
  [][\A p \in Containers : CommitSeed(p) => seeds = 0]_vars

=============================================================================
