--------------------- MODULE InvestigationStoreProperties ---------------------
(***************************************************************************)
(* What module InvestigationStore is checked against.                      *)
(***************************************************************************)
EXTENDS InvestigationStore

\* Every table and local has the shape the code gives it.
TypeOK ==
  /\ backend \in {"sqlite", "postgresql"}
  /\ runs \in [Workers -> {"none", "completed", "failed", "erased"}]
  /\ index \in [Evidence -> Workers \cup {NoOwner, NoRow}]
  /\ audit \in [Workers -> SUBSET {"STARTED", "COMPLETED"}]
  /\ pc \in [Workers -> Steps]
  /\ req \in [Workers -> StoreRequest]
  /\ result \in [Workers -> {"none", "completed", "failed", "raised"}]
  /\ bundle \in [Workers -> SUBSET Evidence]
  /\ todo \in [Workers -> SUBSET Evidence]
  /\ item \in [Workers -> Evidence \cup {NoItem}]
  /\ found \in [Workers -> Workers \cup {NoOwner, NoRow}]
  /\ ids \in [Workers -> SUBSET Workers]
  /\ touched \in [Workers -> SUBSET Evidence]
  /\ writing \in SUBSET Workers

\* The evidence the stored report of w may cite; a run that raised has none.
Cites(w) == IF result[w] = "raised" THEN {} ELSE bundle[w]

\* The audit log tells a run's story in order: what is stored was announced
\* by RESEARCH_STARTED, what is announced as completed was stored, and the
\* client that got its 201 finds both events.
AuditFollowsTheRun ==
  \A w \in Workers :
    /\ runs[w] # "none" => "STARTED" \in audit[w]
    /\ "COMPLETED" \in audit[w] => runs[w] # "none" /\ result[w] # "raised"
    /\ pc[w] = "201" => audit[w] = {"STARTED", "COMPLETED"}

\* A citation of a stored run stops resolving only because another run that
\* cited the same evidence was deleted: no crash, conflict or metrics request
\* loses a row, and a deleted run takes along nothing it never cited.
CitationsLostOnlyToDeletion ==
  \A w \in Workers : \A e \in Cites(w) :
    Stored(w) /\ index[e] = NoRow =>
      \E v \in Workers \ {w} : runs[v] = "erased" /\ e \in bundle[v]

\* An evidence row belongs to a run that was filed with it, or to nobody;
\* store.py:174, a metrics request never frees what belongs to a run.
OwnersCiteWhatTheyOwn ==
  \A e \in Evidence : index[e] \in Workers =>
    runs[index[e]] # "none" /\ e \in bundle[index[e]]

\* Without delete_all, no evidence outlives the run that owns it. (A run that
\* is filed after delete_all has listed the runs and before it deletes them
\* all leaves its evidence behind.)
NoOrphans ==
  (\A w \in Workers : req[w].kind # "delete_all") =>
    \A e \in Evidence : index[e] \in Workers => Stored(index[e])

\* Whoever is named as the owner of a row has a run that was filed with it.
RowsBelongToTheirRun == OwnersCiteWhatTheyOwn /\ NoOrphans

\* On PostgreSQL, when a create request ends in an error that left nothing
\* stored, it had met another request over evidence that both of them cite.
LostOnlyToSharedEvidence ==
  \A w \in Workers :
    backend = "postgresql" /\ req[w].kind = "create" /\ pc[w] = "500" /\ runs[w] = "none" =>
      \E v \in Workers \ {w} : bundle[v] \cap bundle[w] # {}

\* Each step files, measures, erases or clears as a whole, or changes nothing
\* a reader of the store can see.
Abstract == INSTANCE Archive WITH Runs <- Workers, filed <- runs

ImplementsArchive == Abstract!ArchiveSpec

\* Every request that arrives gets its reply, or dies with its process,
\* although two of them may wait for each other's rows.
EveryRequestEnds == \A w \in Workers : pc[w] # "idle" ~> Ended(w)

=============================================================================
