------------------------ MODULE InvestigationStoreProofs ------------------------
(***************************************************************************)
(* Theorems about module InvestigationStore, for any workers, evidence and *)
(* cases, on both databases.                                               *)
(***************************************************************************)
EXTENDS InvestigationStoreProperties, TLAPS

-----------------------------------------------------------------------------
(* The inductive invariant *)

DeleteKinds == {"delete", "delete_all"}
IndexKinds == {"create", "metrics"}

\* The steps of a delete that has read which runs it is about, and those of
\* every request at which its transaction may hold evidence rows.
DeleteSteps == {"erase", "aim", "strike", "remove"}
LockingSteps == {"next", "write", "aim", "strike", "remove"}

\* A request is only at steps of its own handler.
StepsFit(w) ==
  /\ pc[w] \in {"run", "put", "close", "201"} => req[w].kind = "create"
  /\ pc[w] \in {"next", "write"} => req[w].kind \in IndexKinds
  /\ pc[w] = "find" => req[w].kind = "delete"
  /\ pc[w] = "list" => req[w].kind = "delete_all"
  /\ pc[w] \in DeleteSteps => req[w].kind \in DeleteKinds

\* What a request has at hand is what its step is about.
HandsFit(w) ==
  /\ pc[w] \in {"write", "strike"} <=> item[w] # NoItem
  /\ pc[w] \notin LockingSteps => touched[w] = {}
  /\ pc[w] \in {"idle", "run", "find", "list", "erase", "remove"} => todo[w] = {}
  /\ pc[w] \in {"idle", "run"} => bundle[w] = {}
  /\ touched[w] # {} => w \in writing

\* A request indexes its bundle; a run leaves nothing of it out.
Indexing(w) ==
  /\ req[w].kind \in IndexKinds =>
       touched[w] \cup todo[w] \subseteq bundle[w] /\ (item[w] # NoItem => item[w] \in bundle[w])
  /\ req[w].kind = "create" /\ pc[w] \in {"put", "next", "write"} =>
       bundle[w] \subseteq todo[w] \cup touched[w] \cup {item[w]}

\* The rows that are to go with the runs a delete has read.
Owned(w) == {e \in Evidence : index[e] \in ids[w]}

\* A delete erases what its runs own, and all of it: nobody takes a row away
\* from it once it is struck, and none of its runs is filed again.
Erasing(w) ==
  /\ req[w].kind \in DeleteKinds => touched[w] \subseteq Owned(w)
  /\ pc[w] \in {"aim", "strike", "remove"} =>
       Owned(w) \subseteq todo[w] \cup touched[w] \cup {item[w]}
  /\ pc[w] \in DeleteSteps => \A v \in ids[w] : runs[v] # "none"
  /\ pc[w] \in DeleteSteps /\ req[w].kind = "delete" => ids[w] = {req[w].target}

\* A run is filed once, at the end of its put, and both of its events are
\* written where the code writes them.
Audited(w) ==
  /\ runs[w] # "none" => pc[w] \in {"close", "201", "500", "lost"}
  /\ pc[w] \in {"run", "put", "next", "write", "close"} /\ req[w].kind = "create" =>
       "STARTED" \in audit[w]
  /\ pc[w] \in {"close", "201"} => runs[w] # "none" /\ result[w] # "raised"
  /\ runs[w] # "none" => "STARTED" \in audit[w]
  /\ "COMPLETED" \in audit[w] => runs[w] # "none" /\ result[w] # "raised"
  /\ pc[w] = "201" => audit[w] = {"STARTED", "COMPLETED"}

\* Somebody other than an unfinished run has put e into the index.
Cited(e) ==
  \E v \in Workers : e \in bundle[v] /\ (runs[v] # "none" \/ req[v].kind = "metrics")

\* A row a request has found was somebody's.
FoundCited(w) == pc[w] = "write" /\ found[w] # NoRow => Cited(item[w])

Mine(w) == Indexing(w) /\ Erasing(w) /\ Audited(w) /\ FoundCited(w)

\* Two open transactions have no row in common.
Exclusive == \A v, w \in Workers : v # w => touched[v] \cap touched[w] = {}

IndexCited == \A e \in Evidence : index[e] # NoRow => Cited(e)

ShapeInv == TypeOK /\ \A w \in Workers : StepsFit(w) /\ HandsFit(w)

StoreInv ==
  /\ \A w \in Workers : Mine(w)
  /\ Exclusive
  /\ IndexCited
  /\ OwnersCiteWhatTheyOwn

Inv ==
  /\ ShapeInv
  /\ StoreInv
  /\ CitationsLostOnlyToDeletion
  /\ NoOrphans
  /\ LostOnlyToSharedEvidence

-----------------------------------------------------------------------------
(* Lemmas *)

\* A request is well formed, and it is one of four kinds.
LEMMA RequestTyped ==
  ASSUME NEW q \in StoreRequest
  PROVE  /\ q.items \in SUBSET Evidence
         /\ q.kind \in IndexKinds \cup DeleteKinds
         /\ q.kind = "delete" => q.target \in Workers
BY DEF StoreRequest, Create, Metrics, Delete, DeleteAll, IndexKinds, DeleteKinds

\* What a step of w leaves to the other requests.
Frame(w) ==
  /\ UNCHANGED asked
  /\ \A v \in Workers \ {w} :
       /\ pc'[v] = pc[v] /\ result'[v] = result[v] /\ bundle'[v] = bundle[v]
       /\ todo'[v] = todo[v] /\ item'[v] = item[v] /\ found'[v] = found[v]
       /\ ids'[v] = ids[v] /\ touched'[v] = touched[v] /\ audit'[v] = audit[v]
       /\ v \in writing => v \in writing'

\* Requests leave each other's steps alone.
LEMMA StepFrame ==
  ASSUME TypeOK, NEW w \in Workers, Arrive(w) \/ Work(w) \/ Crash(w)
  PROVE  Frame(w)
<1> USE DEF TypeOK, Frame, tables, asked, locals, Goto, EndTransaction, WroteItem
<1>1. CASE Reject(w) \/ StartDelete(w)
  BY <1>1 DEF Reject, StartDelete
<1>2. CASE Open(w) \/ Close(w)
  BY <1>2 DEF Open, Close
<1>3. CASE Measure(w)
  BY <1>3 DEF Measure
<1>4. CASE Investigate(w)
  BY <1>4 DEF Investigate
<1>5. CASE BeginPut(w)
  BY <1>5 DEF BeginPut
<1>6. ASSUME NEW e \in Evidence, Read(w, e) PROVE Frame(w)
  BY <1>6 DEF Read
<1>7. ASSUME NEW e \in Evidence, Aim(w, e) PROVE Frame(w)
  BY <1>7 DEF Aim
<1>8. CASE Write(w) \/ Strike(w)
  BY <1>8 DEF Write, Strike
<1>9. CASE SamePayload(w) \/ Miss(w)
  BY <1>9 DEF SamePayload, Miss
<1>10. CASE CommitPut(w)
  BY <1>10 DEF CommitPut
<1>11. CASE CommitMetrics(w)
  BY <1>11 DEF CommitMetrics
<1>12. CASE CommitRemove(w)
  BY <1>12 DEF CommitRemove
<1>13. CASE Find(w) \/ List(w)
  BY <1>13 DEF Find, List
<1>14. CASE EraseEvidence(w) \/ EvidenceErased(w)
  BY <1>14 DEF EraseEvidence, EvidenceErased
<1>15. CASE WriteConflict(w) \/ Locked(w) \/ DeadlockVictim(w) \/ Crash(w)
  BY <1>15 DEF WriteConflict, Locked, DeadlockVictim, Crash, Fail
<1> QED
  BY <1>1, <1>2, <1>3, <1>4, <1>5, <1>6, <1>7, <1>8, <1>9, <1>10, <1>11, <1>12, <1>13,
     <1>14, <1>15
  DEF Arrive, Work

-----------------------------------------------------------------------------
(* Every table and local has its shape *)

\* The owner column of a row whose transaction commits.
LEMMA IndexedTyped ==
  ASSUME TypeOK, NEW w \in Workers
  PROVE  /\ Indexed(w) \in [Evidence -> Workers \cup {NoOwner, NoRow}]
         /\ \A e \in Evidence \ touched[w] : Indexed(w)[e] = index[e]
         /\ \A e \in touched[w] :
              IF req[w].kind = "create" THEN Indexed(w)[e] = w
              ELSE Indexed(w)[e] = IF index[e] = NoRow THEN NoOwner ELSE index[e]
BY DEF TypeOK, Indexed

LEMMA InitShape == Init => ShapeInv
<1> SUFFICES ASSUME NEW c \in Cases, InitAs(c) PROVE ShapeInv
  BY DEF Init
<1>1. c \in Case
  BY StoreConstants
<1>2. TypeOK
  BY <1>1 DEF InitAs, TypeOK, Steps, Replies, Case
<1>3. \A w \in Workers : StepsFit(w) /\ HandsFit(w)
  BY DEF InitAs, StepsFit, HandsFit, LockingSteps, DeleteSteps
<1> QED
  BY <1>2, <1>3 DEF ShapeInv

\* A step of w keeps the shape of everything if it keeps that of w.
LEMMA ShapeKept ==
  ASSUME ShapeInv, NEW w \in Workers, Frame(w), TypeOK', (StepsFit(w) /\ HandsFit(w))'
  PROVE  ShapeInv'
<1>1. ASSUME NEW v \in Workers \ {w} PROVE (StepsFit(v) /\ HandsFit(v))'
  BY DEF ShapeInv, Frame, asked, StepsFit, HandsFit
<1> QED
  BY <1>1 DEF ShapeInv

LEMMA StepShape == ShapeInv /\ [Next]_vars => ShapeInv'
<1> SUFFICES ASSUME ShapeInv, [Next]_vars PROVE ShapeInv'
  OBVIOUS
<1>1. CASE UNCHANGED vars
  BY <1>1 DEF vars, tables, asked, locals, ShapeInv, TypeOK, StepsFit, HandsFit
<1>2. ASSUME NEW w \in Workers, Arrive(w) \/ Work(w) \/ Crash(w)
      PROVE  TypeOK' /\ (StepsFit(w) /\ HandsFit(w))'
  <2>0. /\ req[w].items \in SUBSET Evidence
        /\ req[w].kind \in IndexKinds \cup DeleteKinds
        /\ req[w].kind = "delete" => req[w].target \in Workers
    BY RequestTyped DEF ShapeInv, TypeOK
  <2> USE DEF ShapeInv, TypeOK, StepsFit, HandsFit, tables, asked, locals, Goto,
              EndTransaction, WroteItem, Steps, Replies, IndexKinds, DeleteKinds, DeleteSteps,
              LockingSteps
  <2>1. CASE Reject(w) \/ StartDelete(w)
    BY <2>0, <2>1 DEF Reject, StartDelete
  <2>2. CASE Open(w) \/ Close(w)
    BY <2>0, <2>2 DEF Open, Close
  <2>3. CASE Measure(w)
    BY <2>0, <2>3 DEF Measure
  <2>4. CASE Investigate(w)
    BY <2>0, <2>4 DEF Investigate
  <2>5. CASE BeginPut(w)
    BY <2>0, <2>5 DEF BeginPut
  <2>6. ASSUME NEW e \in Evidence, Read(w, e)
        PROVE  TypeOK' /\ (StepsFit(w) /\ HandsFit(w))'
    BY <2>0, <2>6, StoreConstants DEF Read
  <2>7. ASSUME NEW e \in Evidence, Aim(w, e)
        PROVE  TypeOK' /\ (StepsFit(w) /\ HandsFit(w))'
    BY <2>0, <2>7, StoreConstants DEF Aim
  <2>8. CASE Write(w) \/ Strike(w)
    BY <2>0, <2>8, StoreConstants DEF Write, Strike
  <2>9. CASE SamePayload(w) \/ Miss(w)
    BY <2>0, <2>9 DEF SamePayload, Miss
  <2>10. CASE CommitPut(w)
    BY <2>0, <2>10, IndexedTyped DEF CommitPut
  <2>11. CASE CommitMetrics(w)
    BY <2>0, <2>11, IndexedTyped DEF CommitMetrics
  <2>12. CASE CommitRemove(w)
    BY <2>0, <2>12 DEF CommitRemove
  <2>13. CASE Find(w) \/ List(w)
    BY <2>0, <2>13 DEF Find, List
  <2>14. CASE EraseEvidence(w) \/ EvidenceErased(w)
    BY <2>0, <2>14 DEF EraseEvidence, EvidenceErased
  <2>15. CASE WriteConflict(w) \/ Locked(w) \/ DeadlockVictim(w) \/ Crash(w)
    BY SMTT(40), <2>0, <2>15 DEF WriteConflict, Locked, DeadlockVictim, Crash, Fail
  <2> QED
    BY <1>2, <2>1, <2>2, <2>3, <2>4, <2>5, <2>6, <2>7, <2>8, <2>9, <2>10, <2>11, <2>12,
       <2>13, <2>14, <2>15
    DEF Arrive, Work
<1> QED
  BY <1>1, <1>2, StepFrame, ShapeKept DEF Next, Terminating, ShapeInv

\* Every reachable state is well typed.
THEOREM TypeCorrect == Spec => []TypeOK
<1>1. ShapeInv => TypeOK
  BY DEF ShapeInv
<1> QED
  BY InitShape, StepShape, <1>1, PTL DEF Spec

-----------------------------------------------------------------------------
(* What requests rely on while others work *)

\* The tables change under a step of w only in the rows it holds, which it
\* takes for its new run, leaves unowned or erases; no run is unfiled.
Mild(w) ==
  /\ bundle[w] \subseteq bundle'[w]
  /\ \A v \in Workers : runs[v] # "none" => runs'[v] # "none"
  /\ \A v \in Workers \ {w} : runs[v] = "none" => runs'[v] = "none"
  /\ \A e \in Evidence :
       \/ index'[e] = index[e]
       \/ e \in touched[w] /\ index'[e] \in {NoOwner, NoRow}
       \/ e \in touched[w] /\ index'[e] = w /\ runs[w] = "none"

\* What was cited stays cited.
LEMMA CitedStays ==
  ASSUME NEW w \in Workers, Frame(w), Mild(w), NEW e \in Evidence, Cited(e)
  PROVE  Cited(e)'
<1>1. PICK v \in Workers : e \in bundle[v] /\ (runs[v] # "none" \/ req[v].kind = "metrics")
  BY DEF Cited
<1>2. e \in bundle'[v] /\ (runs'[v] # "none" \/ req'[v].kind = "metrics")
  BY <1>1 DEF Frame, Mild, asked
<1> QED
  BY <1>2 DEF Cited

\* What the other requests rely on survives a mild step.
LEMMA OthersKeep ==
  ASSUME ShapeInv, StoreInv, NEW w \in Workers, Frame(w), Mild(w), NEW v \in Workers \ {w}
  PROVE  Mine(v)'
<1>0. Mine(v) /\ touched[v] \cap touched[w] = {}
  BY DEF StoreInv, Exclusive
<1>1. Indexing(v)'
  BY <1>0 DEF Mine, Indexing, Frame, asked
<1>2. Erasing(v)'
  <2>1. \A e \in touched[v] : index'[e] = index[e]
    BY <1>0 DEF Mild, ShapeInv, TypeOK
  <2>2. req[v].kind \in DeleteKinds => (touched[v] \subseteq Owned(v))'
    BY <1>0, <2>1 DEF Mine, Erasing, Owned, Frame
  <2>3. pc[v] \in DeleteSteps => Owned(v)' \subseteq Owned(v)
    BY <1>0, StoreConstants DEF Mine, Erasing, Owned, Frame, Mild, ShapeInv, TypeOK
  <2> QED
    BY <1>0, <2>2, <2>3 DEF Mine, Erasing, Frame, asked, Mild, DeleteSteps, ShapeInv, TypeOK
<1>3. Audited(v)'
  BY <1>0 DEF Mine, Audited, Frame, asked, Mild
<1>4. FoundCited(v)'
  <2>1. pc[v] = "write" => item[v] \in Evidence
    BY DEF ShapeInv, TypeOK, HandsFit
  <2> QED
    BY <1>0, <2>1, CitedStays DEF Mine, FoundCited, Frame
<1> QED
  BY <1>1, <1>2, <1>3, <1>4 DEF Mine

\* A step that changes neither table and takes no row.
LEMMA Quiet ==
  ASSUME ShapeInv, StoreInv, NEW w \in Workers, Frame(w), UNCHANGED <<runs, index>>,
         bundle[w] \subseteq bundle'[w], touched'[w] \subseteq touched[w], Mine(w)'
  PROVE  StoreInv'
<1>1. Mild(w)
  BY DEF Mild
<1>2. \A v \in Workers : Mine(v)'
  BY <1>1, OthersKeep
<1>3. Exclusive'
  BY DEF StoreInv, Exclusive, Frame
<1>4. IndexCited'
  BY <1>1, CitedStays DEF StoreInv, IndexCited
<1>5. OwnersCiteWhatTheyOwn'
  BY DEF StoreInv, OwnersCiteWhatTheyOwn, Frame
<1> QED
  BY <1>2, <1>3, <1>4, <1>5 DEF StoreInv

LEMMA InitStore == Init => StoreInv
<1> SUFFICES ASSUME NEW c \in Cases, InitAs(c) PROVE StoreInv
  BY DEF Init
<1>1. \A w \in Workers : Mine(w)
  BY DEF InitAs, Mine, Indexing, Erasing, Audited, FoundCited, DeleteSteps
<1>2. Exclusive /\ IndexCited /\ OwnersCiteWhatTheyOwn
  BY StoreConstants DEF InitAs, Exclusive, IndexCited, OwnersCiteWhatTheyOwn
<1> QED
  BY <1>1, <1>2 DEF StoreInv

-----------------------------------------------------------------------------
(* The steps of a request *)

\* A step that commits nothing to the two tables and writes no evidence row
\* keeps what the request itself relies on.
Reads(w) ==
  \/ Reject(w) \/ Open(w) \/ Measure(w) \/ StartDelete(w) \/ Investigate(w) \/ BeginPut(w)
  \/ \E e \in Evidence : Read(w, e) \/ Aim(w, e)
  \/ SamePayload(w) \/ WriteConflict(w) \/ Close(w) \/ Find(w) \/ List(w) \/ EraseEvidence(w)
  \/ Miss(w) \/ EvidenceErased(w) \/ Locked(w) \/ DeadlockVictim(w) \/ Crash(w)

LEMMA StepReads ==
  ASSUME ShapeInv, StoreInv, NEW w \in Workers, Reads(w)
  PROVE  /\ UNCHANGED <<runs, index>>
         /\ bundle[w] \subseteq bundle'[w] /\ touched'[w] \subseteq touched[w]
         /\ runs[w] # "none" => bundle'[w] = bundle[w] /\ result'[w] = result[w]
         /\ Mine(w)'
<1>0. /\ req[w].items \in SUBSET Evidence
      /\ req[w].kind \in IndexKinds \cup DeleteKinds
      /\ req[w].kind = "delete" => req[w].target \in Workers
      /\ Mine(w) /\ StepsFit(w) /\ HandsFit(w)
  BY RequestTyped DEF ShapeInv, TypeOK, StoreInv
<1> DEFINE Goal == /\ UNCHANGED <<runs, index>>
                   /\ bundle[w] \subseteq bundle'[w] /\ touched'[w] \subseteq touched[w]
                   /\ runs[w] # "none" => bundle'[w] = bundle[w] /\ result'[w] = result[w]
                   /\ Mine(w)'
<1> USE DEF ShapeInv, TypeOK, StepsFit, HandsFit, tables, asked, locals, Goto,
            EndTransaction, IndexKinds, DeleteKinds, DeleteSteps, LockingSteps,
            Mine, Indexing, Erasing, Audited, FoundCited, Owned
<1>1. CASE Reject(w) \/ StartDelete(w)
  BY <1>0, <1>1 DEF Reject, StartDelete
<1>2. CASE Open(w) \/ Close(w)
  BY <1>0, <1>2 DEF Open, Close
<1>3. CASE Measure(w)
  BY <1>0, <1>3 DEF Measure
<1>4. CASE Investigate(w)
  BY <1>0, <1>4 DEF Investigate
<1>5. CASE BeginPut(w)
  BY <1>0, <1>5 DEF BeginPut
<1>6. ASSUME NEW e \in Evidence, Read(w, e) PROVE Goal
  <2>1. index[e] # NoRow => Cited(e)'
    BY <1>6 DEF Read, StoreInv, IndexCited, Cited
  <2> HIDE DEF FoundCited
  <2>2. Goal \/ ~FoundCited(w)'
    BY <1>0, <1>6, StoreConstants DEF Read, KeepsOwner
  <2>3. FoundCited(w)'
    BY <1>6, <2>1 DEF Read, FoundCited
  <2> QED
    BY <2>2, <2>3
<1>7. ASSUME NEW e \in Evidence, Aim(w, e) PROVE Goal
  BY <1>0, <1>7, StoreConstants DEF Aim
<1>9. CASE SamePayload(w)
  BY <1>0, <1>9 DEF SamePayload
<1>10. CASE Miss(w)
  BY <1>0, <1>10 DEF Miss
<1>13. CASE Find(w)
  BY <1>0, <1>13 DEF Find, Stored
<1>14. CASE List(w)
  BY <1>0, <1>14 DEF List, Stored
<1>15. CASE EraseEvidence(w)
  BY <1>0, <1>15 DEF EraseEvidence
<1>16. CASE EvidenceErased(w)
  BY <1>0, <1>16 DEF EvidenceErased
<1>17. CASE WriteConflict(w) \/ Locked(w) \/ DeadlockVictim(w) \/ Crash(w)
  BY <1>0, <1>17 DEF WriteConflict, Locked, DeadlockVictim, Crash, Fail
<1> QED
  BY <1>1, <1>2, <1>3, <1>4, <1>5, <1>6, <1>7, <1>9, <1>10, <1>13,
     <1>14, <1>15, <1>16, <1>17
  DEF Reads

\* The row a request is about to write is held by nobody else.
LEMMA NobodyElse ==
  ASSUME ShapeInv, NEW w \in Workers, pc[w] \in {"write", "strike"}, MayWrite(w),
         NEW v \in Workers \ {w}
  PROVE  item[w] \in Evidence /\ item[w] \notin touched[v]
<1>1. CASE backend = "sqlite"
  BY <1>1 DEF MayWrite, ShapeInv, TypeOK, HandsFit
<1>2. CASE backend = "postgresql"
  BY <1>2 DEF MayWrite, WaitsFor, ShapeInv, TypeOK, HandsFit
<1> QED
  BY <1>1, <1>2 DEF ShapeInv, TypeOK

\* A request that writes or erases a row takes it for its transaction.
LEMMA StepWrites ==
  ASSUME ShapeInv, StoreInv, NEW w \in Workers, Frame(w), Write(w) \/ Strike(w)
  PROVE  StoreInv'
<1>0. /\ pc[w] \in {"write", "strike"} /\ MayWrite(w) /\ UNCHANGED <<runs, index, bundle>>
      /\ touched'[w] = touched[w] \cup {item[w]}
  BY DEF Write, Strike, Goto, WroteItem, tables, ShapeInv, TypeOK
<1>1. Mild(w)
  BY <1>0 DEF Mild
<1>2. Mine(w)'
  <2>1. Mine(w) /\ StepsFit(w) /\ HandsFit(w)
    BY DEF ShapeInv, StoreInv
  <2> USE DEF ShapeInv, TypeOK, StepsFit, HandsFit, tables, asked, Goto, WroteItem,
              IndexKinds, DeleteKinds, DeleteSteps,
              Mine, Indexing, Erasing, Audited, FoundCited, Owned
  <2>2. CASE Write(w)
    BY <2>1, <2>2 DEF Write
  <2>3. CASE Strike(w)
    BY <2>1, <2>3 DEF Strike
  <2> QED
    BY <2>2, <2>3
<1>3. \A v \in Workers : Mine(v)'
  BY <1>1, <1>2, OthersKeep
<1>4. Exclusive'
  BY <1>0, NobodyElse DEF StoreInv, Exclusive, Frame
<1>5. IndexCited'
  BY <1>0, <1>1, CitedStays DEF StoreInv, IndexCited
<1>6. OwnersCiteWhatTheyOwn'
  BY <1>0 DEF StoreInv, OwnersCiteWhatTheyOwn
<1> QED
  BY <1>3, <1>4, <1>5, <1>6 DEF StoreInv

\* The rows of a transaction that commits are then the ones it has written.
LEMMA StepCommitPut ==
  ASSUME ShapeInv, StoreInv, NEW w \in Workers, Frame(w), CommitPut(w)
  PROVE  StoreInv' /\ Mild(w) /\ runs[w] = "none" /\ touched[w] = bundle[w]
<1>0. Mine(w) /\ StepsFit(w) /\ HandsFit(w)
  BY DEF ShapeInv, StoreInv
<1>1. /\ req[w].kind = "create" /\ pc[w] = "next" /\ pc'[w] \in {"500", "close"}
      /\ pc'[w] = "close" => result[w] # "raised"
      /\ runs'[w] \in {"completed", "failed"}
      /\ \A v \in Workers \ {w} : runs'[v] = runs[v]
      /\ index' = Indexed(w)
      /\ todo[w] = {} /\ todo'[w] = {} /\ touched'[w] = {} /\ item'[w] = NoItem
      /\ UNCHANGED <<audit, asked, result, bundle>>
  BY DEF CommitPut, Goto, EndTransaction, ShapeInv, TypeOK
<1>2. runs[w] = "none"
  BY <1>0, <1>1 DEF Mine, Audited, ShapeInv, TypeOK
<1>3. touched[w] = bundle[w]
  <2>1. touched[w] \subseteq bundle[w] /\ bundle[w] \subseteq touched[w] \cup {NoItem}
    BY <1>0, <1>1 DEF Mine, Indexing, HandsFit, IndexKinds
  <2>2. NoItem \notin bundle[w]
    BY StoreConstants DEF ShapeInv, TypeOK
  <2> QED
    BY <2>1, <2>2
<1>4. \A e \in Evidence : index'[e] = IF e \in bundle[w] THEN w ELSE index[e]
  BY <1>1, <1>3, IndexedTyped DEF ShapeInv
<1>5. Mild(w)
  BY <1>1, <1>2, <1>3, <1>4 DEF Mild
<1>6. Mine(w)'
  BY <1>0, <1>1, <1>2
  DEF Mine, Indexing, Erasing, Audited, FoundCited, DeleteSteps, DeleteKinds, asked
<1>7. \A v \in Workers : Mine(v)'
  BY <1>5, <1>6, OthersKeep
<1>8. Exclusive'
  BY <1>1 DEF StoreInv, Exclusive, Frame
<1>9. IndexCited'
  <2>1. \A e \in bundle[w] : Cited(e)'
    BY <1>1 DEF Cited
  <2> QED
    BY <1>4, <1>5, <2>1, CitedStays DEF StoreInv, IndexCited
<1>10. OwnersCiteWhatTheyOwn'
  BY <1>1, <1>2, <1>4 DEF StoreInv, OwnersCiteWhatTheyOwn
<1> QED
  BY <1>2, <1>3, <1>5, <1>7, <1>8, <1>9, <1>10 DEF StoreInv

LEMMA StepCommitMetrics ==
  ASSUME ShapeInv, StoreInv, NEW w \in Workers, Frame(w), CommitMetrics(w)
  PROVE  StoreInv' /\ Mild(w)
<1>0. Mine(w) /\ StepsFit(w) /\ HandsFit(w)
  BY DEF ShapeInv, StoreInv
<1>1. /\ req[w].kind = "metrics" /\ pc[w] = "next" /\ pc'[w] = "200"
      /\ index' = Indexed(w)
      /\ todo'[w] = {} /\ touched'[w] = {} /\ item'[w] = NoItem
      /\ UNCHANGED <<runs, audit, asked, result, bundle>>
  BY DEF CommitMetrics, Goto, EndTransaction, ShapeInv, TypeOK
<1>2. \A e \in Evidence :
        index'[e] = IF e \in touched[w] /\ index[e] = NoRow THEN NoOwner ELSE index[e]
  BY <1>1, IndexedTyped DEF ShapeInv
<1>3. Mild(w)
  BY <1>1, <1>2 DEF Mild
<1>4. Mine(w)'
  BY <1>0, <1>1 DEF Mine, Indexing, Erasing, Audited, FoundCited, DeleteSteps, DeleteKinds, asked
<1>5. \A v \in Workers : Mine(v)'
  BY <1>3, <1>4, OthersKeep
<1>6. Exclusive'
  BY <1>1 DEF StoreInv, Exclusive, Frame
<1>7. IndexCited'
  <2>1. \A e \in touched[w] : Cited(e)'
    BY <1>0, <1>1 DEF Cited, Mine, Indexing, IndexKinds, asked
  <2> QED
    BY <1>2, <1>3, <2>1, CitedStays DEF StoreInv, IndexCited
<1>8. OwnersCiteWhatTheyOwn'
  BY <1>1, <1>2, StoreConstants DEF StoreInv, OwnersCiteWhatTheyOwn
<1> QED
  BY <1>3, <1>5, <1>6, <1>7, <1>8 DEF StoreInv

LEMMA StepCommitRemove ==
  ASSUME ShapeInv, StoreInv, NEW w \in Workers, Frame(w), CommitRemove(w)
  PROVE  /\ StoreInv' /\ Mild(w)
         /\ touched[w] = Owned(w) /\ Removes(w) \subseteq Workers
         /\ \A v \in Removes(w) \cup ids[w] : runs[v] # "none"
<1>0. /\ Mine(w) /\ StepsFit(w) /\ HandsFit(w)
      /\ req[w].kind = "delete" => req[w].target \in Workers
  BY RequestTyped DEF ShapeInv, StoreInv, TypeOK
<1>1. /\ pc[w] = "remove" /\ pc'[w] \in {"204", "200"}
      /\ \A v \in Workers : runs'[v] = IF v \in Removes(w) THEN "erased" ELSE runs[v]
      /\ \A e \in Evidence : index'[e] = IF e \in touched[w] THEN NoRow ELSE index[e]
      /\ todo'[w] = {} /\ touched'[w] = {} /\ item'[w] = NoItem
      /\ UNCHANGED <<audit, asked, result, bundle>>
  BY DEF CommitRemove, Goto, EndTransaction, ShapeInv, TypeOK
<1>2. /\ req[w].kind \in DeleteKinds
      /\ req[w].kind = "delete" => ids[w] = {req[w].target}
      /\ \A v \in ids[w] : runs[v] # "none"
  BY <1>0, <1>1 DEF Mine, Erasing, StepsFit, DeleteSteps
<1>3. touched[w] = Owned(w)
  BY <1>0, <1>1, <1>2, StoreConstants
  DEF Mine, Erasing, HandsFit, Owned, ShapeInv, TypeOK
<1>4. Removes(w) \subseteq Workers /\ \A v \in Removes(w) : runs[v] # "none"
  BY <1>0, <1>2 DEF Removes, Stored
<1>5. Mild(w)
  BY <1>1, <1>4 DEF Mild
<1>6. Mine(w)'
  BY <1>0, <1>1, <1>4
  DEF Mine, Indexing, Erasing, Audited, FoundCited, DeleteSteps, asked
<1>7. \A v \in Workers : Mine(v)'
  BY <1>5, <1>6, OthersKeep
<1>8. Exclusive'
  BY <1>1 DEF StoreInv, Exclusive, Frame
<1>9. IndexCited'
  BY <1>1, <1>5, CitedStays DEF StoreInv, IndexCited
<1>10. OwnersCiteWhatTheyOwn'
  BY <1>1, StoreConstants DEF StoreInv, OwnersCiteWhatTheyOwn
<1> QED
  BY <1>2, <1>3, <1>4, <1>5, <1>7, <1>8, <1>9, <1>10 DEF StoreInv

\* The steps of a request, by what they do to the tables.
LEMMA StepKinds ==
  ASSUME NEW w \in Workers, Arrive(w) \/ Work(w) \/ Crash(w)
  PROVE  \/ Reads(w) \/ Write(w) \/ Strike(w)
         \/ CommitPut(w) \/ CommitMetrics(w) \/ CommitRemove(w)
BY DEF Arrive, Work, Reads

LEMMA StepStore == ShapeInv /\ StoreInv /\ [Next]_vars => StoreInv'
<1> SUFFICES ASSUME ShapeInv, StoreInv, [Next]_vars PROVE StoreInv'
  OBVIOUS
<1>1. CASE UNCHANGED vars
  BY <1>1 DEF vars, tables, asked, locals, StoreInv, Mine, Indexing, Erasing, Audited,
              FoundCited, Cited, Owned, Exclusive, IndexCited, OwnersCiteWhatTheyOwn
<1>2. ASSUME NEW w \in Workers, Arrive(w) \/ Work(w) \/ Crash(w)
      PROVE  StoreInv'
  <2>1. Frame(w)
    BY <1>2, StepFrame DEF ShapeInv
  <2> QED
    BY <1>2, <2>1, StepKinds, StepReads, Quiet, StepWrites, StepCommitPut,
       StepCommitMetrics, StepCommitRemove
<1> QED
  BY <1>1, <1>2 DEF Next, Terminating

LEMMA StoreInvariant == Spec => [](ShapeInv /\ StoreInv)
BY InitShape, StepShape, InitStore, StepStore, PTL DEF Spec

-----------------------------------------------------------------------------
(* The audit log and the owners *)

\* What is stored was announced, what is announced as completed was stored,
\* and a client with a 201 finds both events.
THEOREM AuditIsTrue == Spec => []AuditFollowsTheRun
<1>1. StoreInv => AuditFollowsTheRun
  BY DEF StoreInv, Mine, Audited, AuditFollowsTheRun
<1> QED
  BY StoreInvariant, <1>1, PTL

\* Without delete_all, a run that goes takes along every row it owns.
LEMMA StepOwners ==
  ASSUME ShapeInv, StoreInv, NoOrphans, [Next]_vars
  PROVE  NoOrphans'
<1>1. ASSUME UNCHANGED <<runs, index, req>> PROVE NoOrphans'
  BY <1>1 DEF NoOrphans, Stored
<1>2. CASE UNCHANGED vars
  BY <1>1, <1>2 DEF vars, tables, asked
<1>3. ASSUME NEW w \in Workers, Arrive(w) \/ Work(w) \/ Crash(w) PROVE NoOrphans'
  <2>1. Frame(w)
    BY <1>3, StepFrame DEF ShapeInv
  <2>2. CASE Reads(w) \/ Write(w) \/ Strike(w)
    BY <1>1, <2>1, <2>2, StepReads DEF Write, Strike, tables, Frame, asked
  <2>3. CASE CommitPut(w)
    <3>1. StoreInv' /\ runs[w] = "none" /\ touched[w] = bundle[w]
      BY <2>1, <2>3, StepCommitPut
    <3>2. /\ runs'[w] \in {"completed", "failed"} /\ req' = req
          /\ \A v \in Workers \ {w} : runs'[v] = runs[v]
          /\ \A e \in Evidence : index'[e] \in {w, index[e]}
      BY <2>3, IndexedTyped DEF CommitPut, asked, ShapeInv, TypeOK
    <3> QED
      BY <3>1, <3>2 DEF NoOrphans, Stored
  <2>4. CASE CommitMetrics(w)
    <3>1. /\ runs' = runs /\ req' = req
          /\ \A e \in Evidence : index'[e] \in Workers => index'[e] = index[e]
      BY ZenonT(40), <2>4, IndexedTyped, StoreConstants DEF CommitMetrics, asked, ShapeInv, TypeOK
    <3> QED
      BY <3>1 DEF NoOrphans, Stored
  <2>5. CASE CommitRemove(w)
    <3>1. ASSUME \A v \in Workers : req[v].kind # "delete_all"
          PROVE  Removes(w) = ids[w]
      <4>1. pc[w] = "remove" /\ StepsFit(w) /\ Mine(w)
        BY <2>5 DEF CommitRemove, Goto, ShapeInv, StoreInv
      <4> QED
        BY <3>1, <4>1 DEF StepsFit, DeleteKinds, DeleteSteps, Mine, Erasing, Removes
    <3>2. touched[w] = Owned(w)
      BY <2>1, <2>5, StepCommitRemove
    <3>3. /\ req' = req
          /\ \A v \in Workers : runs'[v] = IF v \in Removes(w) THEN "erased" ELSE runs[v]
          /\ \A e \in Evidence : index'[e] = IF e \in touched[w] THEN NoRow ELSE index[e]
      BY <2>5 DEF CommitRemove, asked
    <3> QED
      BY <3>1, <3>2, <3>3, StoreConstants DEF NoOrphans, Stored, Owned
  <2> QED
    BY <1>3, <2>2, <2>3, <2>4, <2>5, StepKinds
<1> QED
  BY <1>2, <1>3 DEF Next, Terminating

\* Whoever is named as the owner of a row has a run that was filed with it,
\* and no row outlives that run unless everything is deleted.
THEOREM OwnersAreRight == Spec => []RowsBelongToTheirRun
<1>1. Init => NoOrphans
  BY StoreConstants DEF Init, InitAs, NoOrphans
<1>2. StoreInv /\ NoOrphans => RowsBelongToTheirRun
  BY DEF StoreInv, RowsBelongToTheirRun
<1> QED
  BY StoreInvariant, StepOwners, <1>1, <1>2, PTL DEF Spec

-----------------------------------------------------------------------------
(* Citations *)

\* What a stored run cites goes only with a run that cites it too.
LEMMA StepCitations ==
  ASSUME ShapeInv, StoreInv, CitationsLostOnlyToDeletion, [Next]_vars
  PROVE  CitationsLostOnlyToDeletion'
<1>1. CASE UNCHANGED vars
  BY <1>1 DEF vars, tables, asked, locals, CitationsLostOnlyToDeletion, Cites, Stored
<1>2. ASSUME NEW w \in Workers, Arrive(w) \/ Work(w) \/ Crash(w)
      PROVE  CitationsLostOnlyToDeletion'
  <2>1. Frame(w)
    BY <1>2, StepFrame DEF ShapeInv
  <2>2. CASE Reads(w) \/ Write(w) \/ Strike(w)
    <3>1. /\ UNCHANGED <<runs, index>> /\ bundle[w] \subseteq bundle'[w]
          /\ runs[w] # "none" => bundle'[w] = bundle[w] /\ result'[w] = result[w]
      BY <2>2, StepReads DEF Write, Strike, tables
    <3> QED
      BY <2>1, <3>1 DEF CitationsLostOnlyToDeletion, Cites, Stored, Frame
  <2>3. CASE CommitPut(w)
    <3>1. runs[w] = "none" /\ touched[w] = bundle[w]
      BY <2>1, <2>3, StepCommitPut
    <3>2. /\ UNCHANGED <<result, bundle>>
          /\ \A v \in Workers \ {w} : runs'[v] = runs[v]
          /\ \A e \in Evidence : index'[e] = IF e \in bundle[w] THEN w ELSE index[e]
      BY <2>3, <3>1, IndexedTyped DEF CommitPut, ShapeInv, TypeOK
    <3> QED
      BY <3>1, <3>2, StoreConstants
      DEF CitationsLostOnlyToDeletion, Cites, Stored, ShapeInv, TypeOK
  <2>4. CASE CommitMetrics(w)
    <3>1. /\ UNCHANGED <<runs, result, bundle>>
          /\ \A e \in Evidence : index'[e] = NoRow => index[e] = NoRow
      BY <2>4, IndexedTyped, StoreConstants DEF CommitMetrics, ShapeInv, TypeOK
    <3> QED
      BY <3>1 DEF CitationsLostOnlyToDeletion, Cites, Stored, ShapeInv, TypeOK
  <2>5. CASE CommitRemove(w)
    <3>1. /\ touched[w] = Owned(w) /\ \A v \in Removes(w) \cup ids[w] : runs[v] # "none"
          /\ \A e \in Evidence : index'[e] = IF e \in touched[w] THEN NoRow ELSE index[e]
          /\ \A v \in Workers : runs'[v] = IF v \in Removes(w) THEN "erased" ELSE runs[v]
          /\ UNCHANGED <<result, bundle>>
      BY <2>1, <2>5, StepCommitRemove DEF CommitRemove
    <3>2. \A v \in ids[w] : v \in Workers /\ runs'[v] = "erased"
      <4>1. pc[w] = "remove" /\ StepsFit(w) /\ Mine(w)
        BY <2>5 DEF CommitRemove, Goto, ShapeInv, StoreInv
      <4>2. ids[w] \subseteq Workers /\ runs \in [Workers -> {"none", "completed", "failed", "erased"}]
        BY DEF ShapeInv, TypeOK
      <4> QED
        BY <3>1, <4>1, <4>2
        DEF StepsFit, DeleteKinds, DeleteSteps, Mine, Erasing, Removes, Stored
    <3>3. ASSUME NEW v \in Workers, NEW e \in Cites(v), Stored(v)', index'[e] = NoRow
          PROVE  \E u \in Workers \ {v} : runs'[u] = "erased" /\ e \in bundle'[u]
      <4>0. e \in Evidence
        BY DEF Cites, ShapeInv, TypeOK
      <4>1. CASE index[e] = NoRow
        <5>1. Stored(v)
          BY <3>1, <3>3 DEF Stored
        <5>2. PICK u \in Workers \ {v} : runs[u] = "erased" /\ e \in bundle[u]
          BY <3>3, <4>1, <5>1 DEF CitationsLostOnlyToDeletion
        <5> QED
          BY <3>1, <5>2
      <4>2. CASE index[e] # NoRow
        <5>1. index[e] \in ids[w]
          BY <3>1, <3>3, <4>0, <4>2 DEF Owned
        <5>2. /\ index[e] \in Workers /\ runs'[index[e]] = "erased"
              /\ e \in bundle[index[e]]
          BY <3>2, <4>0, <5>1 DEF StoreInv, OwnersCiteWhatTheyOwn
        <5> QED
          BY <3>1, <3>3, <5>2 DEF Stored
      <4> QED
        BY <4>1, <4>2
    <3> QED
      BY <3>1, <3>3 DEF CitationsLostOnlyToDeletion, Cites
  <2> QED
    BY <1>2, <2>2, <2>3, <2>4, <2>5, StepKinds
<1> QED
  BY <1>1, <1>2 DEF Next, Terminating

\* A citation of a stored run stops resolving only because another run that
\* cited the same evidence was deleted.
THEOREM CitationsAreKept == Spec => []CitationsLostOnlyToDeletion
<1>1. Init => CitationsLostOnlyToDeletion
  BY DEF Init, InitAs, CitationsLostOnlyToDeletion, Stored
<1> QED
  BY StoreInvariant, StepCitations, <1>1, PTL DEF Spec

-----------------------------------------------------------------------------
(* Requests that end in an error *)

\* The request has met another one over evidence that both cite.
Shares(w) == \E v \in Workers \ {w} : bundle[v] \cap bundle[w] # {}

\* Who has cited the evidence of an unfinished run is somebody else.
LEMMA CitedByAnother ==
  ASSUME NEW w \in Workers, req[w].kind = "create", runs[w] = "none",
         NEW e \in bundle[w], Cited(e)
  PROVE  Shares(w)
BY DEF Cited, Shares

\* What makes PostgreSQL refuse a write of a run is about a row another
\* request has put there: as a run, as a metrics request or to erase it.
LEMMA RefusedOverSharedEvidence ==
  ASSUME ShapeInv, StoreInv, NEW w \in Workers, req[w].kind = "create",
         backend = "postgresql", WriteConflict(w) \/ DeadlockVictim(w)
  PROVE  Shares(w)
<1>0. Mine(w) /\ StepsFit(w) /\ HandsFit(w)
  BY DEF ShapeInv, StoreInv
<1>1. CASE WriteConflict(w)
  <2>1. /\ pc[w] = "write" /\ item[w] \in bundle[w] /\ item[w] \in Evidence
        /\ runs[w] = "none"
        /\ found[w] # NoRow \/ index[item[w]] # NoRow
    BY <1>0, <1>1
    DEF WriteConflict, HandsFit, Mine, Indexing, Audited, IndexKinds, ShapeInv, TypeOK
  <2>2. Cited(item[w])
    BY <1>0, <2>1 DEF Mine, FoundCited, StoreInv, IndexCited
  <2> QED
    BY <2>1, <2>2, CitedByAnother
<1>2. CASE DeadlockVictim(w)
  <2>1. PICK u \in Workers : WaitsFor(w, u)
    BY <1>2 DEF DeadlockVictim
  <2>2. /\ pc[w] = "write" /\ u # w /\ item[w] \in touched[u]
        /\ item[w] \in bundle[w] /\ item[w] \in Evidence /\ runs[w] = "none"
    BY <1>0, <2>1
    DEF WaitsFor, StepsFit, DeleteSteps, DeleteKinds, HandsFit, Mine, Indexing, Audited,
        IndexKinds, ShapeInv, TypeOK
  <2>3. Mine(u) /\ req[u].kind \in IndexKinds \cup DeleteKinds
    BY RequestTyped DEF StoreInv, ShapeInv, TypeOK
  <2>4. CASE req[u].kind \in IndexKinds
    BY <2>2, <2>3, <2>4 DEF Mine, Indexing, Shares
  <2>5. CASE req[u].kind \in DeleteKinds
    <3>1. index[item[w]] \in Workers
      BY <2>2, <2>3, <2>5 DEF Mine, Erasing, Owned, ShapeInv, TypeOK
    <3>2. Cited(item[w])
      BY <2>2, <3>1, StoreConstants DEF StoreInv, IndexCited
    <3> QED
      BY <2>2, <3>2, CitedByAnother
  <2> QED
    BY <2>3, <2>4, <2>5
<1> QED
  BY <1>1, <1>2

\* Of the steps that commit nothing, only these end a request in an error.
LEMMA WhatFails ==
  ASSUME ShapeInv, NEW w \in Workers, Reads(w), pc'[w] = "500"
  PROVE  WriteConflict(w) \/ Locked(w) \/ DeadlockVictim(w)
BY DEF Reads, Reject, Open, Measure, StartDelete, Investigate, BeginPut, Read, Aim, SamePayload,
       Close, Find, List, EraseEvidence, Miss, EvidenceErased, Crash, Fail, Goto, ShapeInv, TypeOK

LEMMA StepLost ==
  ASSUME ShapeInv, StoreInv, LostOnlyToSharedEvidence, [Next]_vars
  PROVE  LostOnlyToSharedEvidence'
<1>1. CASE UNCHANGED vars
  BY <1>1 DEF vars, tables, asked, locals, LostOnlyToSharedEvidence
<1>2. ASSUME NEW w \in Workers, Arrive(w) \/ Work(w) \/ Crash(w)
      PROVE  LostOnlyToSharedEvidence'
  <2>1. Frame(w)
    BY <1>2, StepFrame DEF ShapeInv
  <2>2. bundle[w] \subseteq bundle'[w] /\ \A v \in Workers : runs[v] # "none" => runs'[v] # "none"
    <3>1. CASE Reads(w) \/ Write(w) \/ Strike(w)
      BY <3>1, StepReads DEF Write, Strike, tables
    <3>2. CASE CommitPut(w) \/ CommitMetrics(w) \/ CommitRemove(w)
      BY <2>1, <3>2, StepCommitPut, StepCommitMetrics, StepCommitRemove DEF Mild
    <3> QED
      BY <1>2, <3>1, <3>2, StepKinds
  <2>3. ASSUME backend = "postgresql", req[w].kind = "create", pc'[w] = "500", runs'[w] = "none"
        PROVE  Shares(w)'
    <3>1. Reads(w)
      BY <1>2, <2>3, StepKinds
      DEF Write, Strike, CommitPut, CommitMetrics, CommitRemove, Goto, ShapeInv, TypeOK
    <3>2. WriteConflict(w) \/ DeadlockVictim(w)
      BY <2>3, <3>1, WhatFails DEF Locked
    <3>3. Shares(w) /\ UNCHANGED bundle
      BY <2>3, <3>2, RefusedOverSharedEvidence DEF WriteConflict, DeadlockVictim, Fail
    <3> QED
      BY <3>3 DEF Shares
  <2> QED
    BY <2>1, <2>2, <2>3 DEF LostOnlyToSharedEvidence, Shares, Frame, asked
<1> QED
  BY <1>1, <1>2 DEF Next, Terminating

\* On PostgreSQL, a create request that ends in an error and left nothing has
\* met another request over evidence that both of them cite.
THEOREM OnlySharedEvidenceLosesRuns == Spec => []LostOnlyToSharedEvidence
<1>1. Init => LostOnlyToSharedEvidence
  BY DEF Init, InitAs, LostOnlyToSharedEvidence
<1> QED
  BY StoreInvariant, StepLost, <1>1, PTL DEF Spec

-----------------------------------------------------------------------------
(* The store implements the archive *)

LEMMA InitArchive == Init => Abstract!ArchiveInit
BY DEF Init, InitAs, Abstract!ArchiveInit

\* A commit is one step of the archive, every other step changes nothing that
\* a reader of the store can see.
LEMMA StepArchive ==
  ASSUME ShapeInv, StoreInv, [Next]_vars
  PROVE  [Abstract!ArchiveNext]_<<runs, index>>
<1>1. CASE UNCHANGED vars
  BY <1>1 DEF vars, tables
<1>2. ASSUME NEW w \in Workers, Arrive(w) \/ Work(w) \/ Crash(w)
      PROVE  [Abstract!ArchiveNext]_<<runs, index>>
  <2>1. Frame(w)
    BY <1>2, StepFrame DEF ShapeInv
  <2>2. CASE Reads(w) \/ Write(w) \/ Strike(w)
    BY <2>2, StepReads DEF Write, Strike, tables
  <2>3. CASE CommitPut(w)
    <3>1. runs[w] = "none" /\ bundle[w] \in SUBSET Evidence /\ touched[w] = bundle[w]
      BY <2>1, <2>3, StepCommitPut DEF ShapeInv, TypeOK
    <3>2. \E s \in {"completed", "failed"} : runs' = [runs EXCEPT ![w] = s]
      BY <2>3 DEF CommitPut
    <3>3. index' = [e \in Evidence |-> IF e \in bundle[w] THEN w ELSE index[e]]
      BY <2>3, <3>1 DEF CommitPut, Indexed
    <3>4. Abstract!File(w, bundle[w])
      BY <3>1, <3>2, <3>3 DEF Abstract!File
    <3> QED
      BY <3>1, <3>4 DEF Abstract!ArchiveNext
  <2>4. CASE CommitMetrics(w)
    <3>1. req[w].kind = "metrics" /\ runs' = runs /\ index' = Indexed(w)
      BY <2>4 DEF CommitMetrics
    <3>2. index' = [e \in Evidence |->
                      IF e \in touched[w] /\ index[e] = NoRow THEN NoOwner ELSE index[e]]
      BY <3>1 DEF Indexed
    <3>3. Abstract!Measure(touched[w])
      BY <3>1, <3>2 DEF Abstract!Measure
    <3> QED
      BY <3>3 DEF Abstract!ArchiveNext, ShapeInv, TypeOK
  <2>5. CASE CommitRemove(w)
    <3>1. /\ touched[w] = Owned(w)
          /\ \A v \in Removes(w) \cup ids[w] : runs[v] # "none"
      BY <2>1, <2>5, StepCommitRemove
    <3>2. index' = [e \in Evidence |-> IF index[e] \in ids[w] THEN NoRow ELSE index[e]]
      BY <2>5, <3>1 DEF CommitRemove, Owned
    <3>3. runs' = [v \in Workers |-> IF v \in Removes(w) THEN "erased" ELSE runs[v]]
      BY <2>5 DEF CommitRemove
    <3>4. /\ ids[w] \in SUBSET Workers /\ req[w].kind \in DeleteKinds
          /\ req[w].kind = "delete" => ids[w] = {req[w].target} /\ req[w].target \in Workers
      BY <2>5, RequestTyped
      DEF CommitRemove, Goto, ShapeInv, TypeOK, StepsFit, DeleteSteps, StoreInv, Mine, Erasing
    <3>5. CASE req[w].kind = "delete"
      <4>1. /\ runs' = [runs EXCEPT ![req[w].target] = "erased"]
            /\ index' = [e \in Evidence |->
                           IF index[e] = req[w].target THEN NoRow ELSE index[e]]
            /\ runs[req[w].target] # "none"
        BY <3>1, <3>2, <3>3, <3>4, <3>5 DEF Removes, ShapeInv, TypeOK
      <4>2. Abstract!Erase(req[w].target)
        BY <4>1 DEF Abstract!Erase
      <4> QED
        BY <3>4, <3>5, <4>2 DEF Abstract!ArchiveNext
    <3>6. CASE req[w].kind = "delete_all"
      <4>1. runs' = [v \in Workers |-> IF runs[v] = "none" THEN "none" ELSE "erased"]
        BY <3>3, <3>6 DEF Removes, Stored, ShapeInv, TypeOK
      <4>2. Abstract!Clear(ids[w])
        BY <3>2, <4>1 DEF Abstract!Clear
      <4> QED
        BY <3>4, <4>2 DEF Abstract!ArchiveNext
    <3> QED
      BY <3>4, <3>5, <3>6 DEF DeleteKinds
  <2> QED
    BY <1>2, <2>2, <2>3, <2>4, <2>5, StepKinds
<1> QED
  BY <1>1, <1>2 DEF Next, Terminating

\* Runs are filed and erased whole, evidence with them, whatever interleaves.
THEOREM StoreIsAnArchive == Spec => ImplementsArchive
BY StoreInvariant, InitArchive, StepArchive, PTL
DEF Spec, ImplementsArchive, Abstract!ArchiveSpec

=============================================================================
