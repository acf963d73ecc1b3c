------------------------------- MODULE Archive -------------------------------
(***************************************************************************)
(* What the investigation store promises: runs are filed and erased whole, *)
(* each evidence row belongs to the run that cited it last, and goes when  *)
(* that run goes. Nobody ever sees a run that is filed or erased by half.  *)
(***************************************************************************)
CONSTANTS Runs, Evidence, NoOwner, NoRow

VARIABLES
  filed,   \* for each run: "none", "completed", "failed" or "erased"
  index    \* for each evidence id: the owning run, NoOwner or NoRow

ArchiveInit ==
  /\ filed = [r \in Runs |-> "none"]
  /\ index = [e \in Evidence |-> NoRow]

\* A run is filed with everything it cites, which it takes over.
File(r, S) ==
  /\ filed[r] = "none"
  /\ \E s \in {"completed", "failed"} : filed' = [filed EXCEPT ![r] = s]
  /\ index' = [e \in Evidence |-> IF e \in S THEN r ELSE index[e]]

\* A metrics route makes evidence resolvable and takes nothing from a run.
Measure(S) ==
  /\ index' = [e \in Evidence |->
                 IF e \in S /\ index[e] = NoRow THEN NoOwner ELSE index[e]]
  /\ UNCHANGED filed

\* One run is erased with all the evidence it owns.
Erase(r) ==
  /\ filed[r] # "none"
  /\ filed' = [filed EXCEPT ![r] = "erased"]
  /\ index' = [e \in Evidence |-> IF index[e] = r THEN NoRow ELSE index[e]]

\* All runs are erased, with the evidence of those that were known.
Clear(known) ==
  /\ filed' = [r \in Runs |-> IF filed[r] = "none" THEN "none" ELSE "erased"]
  /\ index' = [e \in Evidence |-> IF index[e] \in known THEN NoRow ELSE index[e]]

ArchiveNext ==
  \/ \E r \in Runs : Erase(r) \/ \E S \in SUBSET Evidence : File(r, S)
  \/ \E S \in SUBSET Evidence : Measure(S)
  \/ \E known \in SUBSET Runs : Clear(known)

ArchiveSpec == ArchiveInit /\ [][ArchiveNext]_<<filed, index>>

=============================================================================
