------------------------ MODULE DeleteTrackingProofs ------------------------
(***************************************************************************)
(* Theorems about DeleteTracking, for any set of external ids and any      *)
(* number of runs; that Records implements it, so that they hold of        *)
(* Records as well; and about the customer of Records, for any contents,   *)
(* any finite set of external ids and any page size.                       *)
(*                                                                         *)
(* After them, theorems about IntegrationFiles, for any scripts and        *)
(* configurations and any number of edits, commands and starts.  The two   *)
(* components share no name: each theorem is about the one whose           *)
(* specification it names.                                                 *)
(***************************************************************************)
EXTENDS Records, IntegrationFiles, FiniteSetTheorems, WellFoundedInduction, TLAPS

(***************************************************************************)
(* Type correctness.                                                       *)
(***************************************************************************)

LEMMA InitTypeOK == Init => TypeOK
<1> SUFFICES ASSUME Init PROVE TypeOK
  OBVIOUS
<1>1. call \in [records : SUBSET Keys, softDelete : BOOLEAN]
  BY DEF Init, NoCall
<1>2. recordJob \in [Keys -> Nat] /\ snapJob \in [Keys -> Nat]
  BY DEF Init
<1>3. pc \in Locations
  BY DEF Init, Locations
<1> QED
  BY <1>1, <1>2, <1>3 DEF Init, TypeOK

LEMMA NextTypeOK == TypeOK /\ [Next]_vars => TypeOK'
<1> SUFFICES ASSUME TypeOK, [Next]_vars PROVE TypeOK'
  OBVIOUS
<1> USE DEF TypeOK, Goto, tables, snapshotTable, history, Locations, Irregularities, NoCall
<1>1. CASE StartRun
  <2>1. job' \in Nat /\ pc' \in Locations
    BY <1>1 DEF StartRun
  <2>2. complete' \in BOOLEAN
    BY <1>1, Zenon DEF StartRun
  <2> QED
    BY <1>1, <2>1, <2>2 DEF StartRun
<1>2. ASSUME NEW records \in SUBSET Keys, NEW softDelete \in BOOLEAN, Batch(records, softDelete)
      PROVE  TypeOK'
  <2>1. call' \in [records : SUBSET Keys, softDelete : BOOLEAN]
    BY <1>2 DEF Batch
  <2>2. irregular' \subseteq Irregularities /\ pc' \in Locations
    BY <1>2 DEF Batch
  <2> QED
    BY <1>2, <2>1, <2>2 DEF Batch
<1>3. CASE SelectOldJob
  BY <1>3 DEF SelectOldJob
<1>4. CASE MarkRecordsForDeletion
  BY <1>4 DEF MarkRecordsForDeletion
<1>5. CASE Upsert
  BY <1>5 DEF Upsert, StoreRecords
<1>6. CASE ScriptReturnsVoid
  BY <1>6 DEF ScriptReturnsVoid
<1>7. ASSUME NEW records \in SUBSET Keys, ScriptReturnsRecords(records)
      PROVE  TypeOK'
  BY <1>7 DEF ScriptReturnsRecords
<1>8. CASE StoreResults
  BY <1>8 DEF StoreResults, StoreRecords
<1>9. CASE ClearOldRecords
  BY <1>9 DEF ClearOldRecords
<1>10. CASE FindDeletedKeys
  BY <1>10 DEF FindDeletedKeys
<1>11. CASE InsertDeletedRecords
  BY <1>11 DEF InsertDeletedRecords
<1>12. CASE DropSnapshot
  BY <1>12 DEF DropSnapshot
<1>13. CASE TakeSnapshot
  BY <1>13 DEF TakeSnapshot
<1>14. CASE CutShort
  BY <1>14 DEF CutShort
<1>15. CASE UNCHANGED vars
  BY <1>15 DEF vars
<1> QED
  BY <1>1, <1>2, <1>3, <1>4, <1>5, <1>6, <1>7, <1>8, <1>9, <1>10, <1>11, <1>12, <1>13, <1>14,
     <1>15 DEF Next

\* Every table and every local of a run keeps its type.
THEOREM TypeCorrect == Spec => []TypeOK
<1>1. Init => TypeOK
  BY InitTypeOK
<1>2. TypeOK /\ [Next]_vars => TypeOK'
  BY NextTypeOK
<1> QED
  BY <1>1, <1>2, PTL DEF Spec

(***************************************************************************)
(* What a run has saved stays as it saved it.  The invariant says why: the *)
(* rows of the current run carry its job id, the rows of the snapshot an   *)
(* earlier one, and marking goes by a job id read from the snapshot.       *)
(***************************************************************************)

\* The rows that carry the current job id.
Current(k) == k \in present \ pending /\ recordJob[k] = job

JobsInOrder ==
    /\ \A k \in Keys : recordJob[k] <= job /\ snapJob[k] <= job
    /\ pc # "idle" => \A k \in snapshot : snapJob[k] < job
    /\ pc = "mark" => oldJob < job

TouchedIsCurrent ==
    /\ \A k \in returned : Current(k) /\ k \notin deleted
    /\ \A k \in flagged : Current(k) /\ k \in deleted
    /\ pc = "insert" => gone \cap present = {} /\ gone \subseteq snapshot

RunInv == TypeOK /\ JobsInOrder /\ TouchedIsCurrent

LEMMA NextJobsInOrder == RunInv /\ [Next]_vars => JobsInOrder'
<1> SUFFICES ASSUME RunInv, [Next]_vars PROVE JobsInOrder'
  OBVIOUS
<1> USE DEF RunInv, TypeOK, JobsInOrder, Goto, tables, snapshotTable, history
<1>1. CASE StartRun
  BY <1>1 DEF StartRun
<1>2. ASSUME NEW records \in SUBSET Keys, NEW softDelete \in BOOLEAN, Batch(records, softDelete)
      PROVE  JobsInOrder'
  BY <1>2 DEF Batch
<1>3. CASE SelectOldJob
  BY <1>3 DEF SelectOldJob
<1>4. CASE MarkRecordsForDeletion
  BY <1>4 DEF MarkRecordsForDeletion
<1>5. CASE Upsert
  BY <1>5 DEF Upsert, StoreRecords
<1>6. CASE ScriptReturnsVoid
  BY <1>6 DEF ScriptReturnsVoid
<1>7. ASSUME NEW records \in SUBSET Keys, ScriptReturnsRecords(records)
      PROVE  JobsInOrder'
  BY <1>7 DEF ScriptReturnsRecords
<1>8. CASE StoreResults
  BY <1>8 DEF StoreResults, StoreRecords
<1>9. CASE ClearOldRecords
  BY <1>9 DEF ClearOldRecords
<1>10. CASE FindDeletedKeys
  BY <1>10 DEF FindDeletedKeys
<1>11. CASE InsertDeletedRecords
  BY <1>11 DEF InsertDeletedRecords
<1>12. CASE DropSnapshot
  BY <1>12 DEF DropSnapshot
<1>13. CASE TakeSnapshot
  BY <1>13 DEF TakeSnapshot
<1>14. CASE CutShort
  BY <1>14 DEF CutShort
<1>15. CASE UNCHANGED vars
  BY <1>15 DEF vars
<1> QED
  BY <1>1, <1>2, <1>3, <1>4, <1>5, <1>6, <1>7, <1>8, <1>9, <1>10, <1>11, <1>12, <1>13, <1>14,
     <1>15 DEF Next

LEMMA NextTouchedIsCurrent == RunInv /\ [Next]_vars => TouchedIsCurrent'
<1> SUFFICES ASSUME RunInv, [Next]_vars PROVE TouchedIsCurrent'
  OBVIOUS
<1> USE DEF RunInv, TypeOK, TouchedIsCurrent, Current, Goto, tables, snapshotTable, history
<1>1. CASE StartRun
  BY <1>1 DEF StartRun
<1>2. ASSUME NEW records \in SUBSET Keys, NEW softDelete \in BOOLEAN, Batch(records, softDelete)
      PROVE  TouchedIsCurrent'
  BY <1>2 DEF Batch
<1>3. CASE SelectOldJob
  BY <1>3 DEF SelectOldJob
<1>4. CASE MarkRecordsForDeletion
  BY <1>4 DEF MarkRecordsForDeletion, JobsInOrder
<1>5. CASE Upsert
  BY <1>5 DEF Upsert, StoreRecords
<1>6. CASE ScriptReturnsVoid
  BY <1>6 DEF ScriptReturnsVoid
<1>7. ASSUME NEW records \in SUBSET Keys, ScriptReturnsRecords(records)
      PROVE  TouchedIsCurrent'
  BY <1>7 DEF ScriptReturnsRecords
<1>8. CASE StoreResults
  BY <1>8 DEF StoreResults, StoreRecords
<1>9. CASE ClearOldRecords
  BY <1>9 DEF ClearOldRecords
<1>10. CASE FindDeletedKeys
  BY <1>10 DEF FindDeletedKeys
<1>11. CASE InsertDeletedRecords
  BY <1>11 DEF InsertDeletedRecords
<1>12. CASE DropSnapshot
  BY <1>12 DEF DropSnapshot
<1>13. CASE TakeSnapshot
  BY <1>13 DEF TakeSnapshot
<1>14. CASE CutShort
  BY <1>14 DEF CutShort
<1>15. CASE UNCHANGED vars
  BY <1>15 DEF vars
<1> QED
  BY <1>1, <1>2, <1>3, <1>4, <1>5, <1>6, <1>7, <1>8, <1>9, <1>10, <1>11, <1>12, <1>13, <1>14,
     <1>15 DEF Next

LEMMA RunInvariant == Spec => []RunInv
<1>1. Init => RunInv
  BY InitTypeOK DEF Init, RunInv, JobsInOrder, TouchedIsCurrent
<1>2. RunInv /\ [Next]_vars => RunInv'
  BY NextTypeOK, NextJobsInOrder, NextTouchedIsCurrent DEF RunInv
<1> QED
  BY <1>1, <1>2, PTL DEF Spec

\* markRecordsForDeletion, clearOldRecords and getDeletedKeys never touch a record
\* that the run they serve has itself returned, whatever earlier runs left behind.
THEOREM ReturnedStayLive == Spec => []ReturnedRecordsStayLive
<1>1. RunInv => ReturnedRecordsStayLive
  BY DEF RunInv, TouchedIsCurrent, Current, ReturnedRecordsStayLive, Live
<1> QED
  BY <1>1, RunInvariant, PTL

\* Nor does any of them undo the flag that the run's own batchDelete has set.
THEOREM FlaggedStayFlagged == Spec => []FlaggedRecordsStayFlagged
<1>1. RunInv => FlaggedRecordsStayFlagged
  BY DEF RunInv, TouchedIsCurrent, Current, FlaggedRecordsStayFlagged, Flagged
<1> QED
  BY <1>1, RunInvariant, PTL

(***************************************************************************)
(* Nothing is lost, and the deletions are exact.  As long as no run is cut *)
(* short, the snapshot is a picture of the live rows, and the rows of one  *)
(* job id are marked all together: so what clearOldRecords takes away,     *)
(* getDeletedKeys finds in the snapshot and puts back, flagged.            *)
(***************************************************************************)

NeverCut == irregular \subseteq {"empty", "results"}

\* The rows are as the script left them: nothing has been cleared yet.
BeforeClear == pc \in {"idle", "script", "select", "mark", "upsert", "store", "clear"}

\* The rows that carry one job id are all marked, or all flagged, or neither.
JobsHangTogether ==
    /\ \A k \in pending, l \in present : recordJob[l] = recordJob[k] => l \in pending
    /\ \A k \in Flagged, l \in Live : recordJob[k] # recordJob[l]
    /\ \A k \in Flagged : recordJob[k] < job

SnapshotIsPicture ==
    /\ pending \subseteq Live
    /\ BeforeClear =>
          /\ snapshot \subseteq Live
          /\ pending \subseteq snapshot
          /\ \A k \in present, s \in snapshot : recordJob[k] = snapJob[s] => k \in snapshot
          /\ \A k \in pending : recordJob[k] = snapJob[k]
          /\ \A k, s \in snapshot : recordJob[k] # snapJob[k] => snapJob[s] < recordJob[k]
    /\ pc = "mark" => \E s \in snapshot : oldJob = snapJob[s]
    /\ pc \in {"find", "insert"} =>
          /\ pending = {} /\ snapshot \cap Flagged = {}
          /\ \A g \in snapshot \ present, l \in present : recordJob[l] # snapJob[g]
    /\ pc = "insert" => gone = snapshot \ present

NothingLost ==
    /\ ever \subseteq present \union snapshot
    /\ pc \in {"drop", "take"} => ever \subseteq present

UncutInv == NeverCut => ~call.softDelete /\ JobsHangTogether /\ SnapshotIsPicture /\ NothingLost

Regular == irregular = {}

\* What the run that is under way, or the last one, has left of the earlier ones.
RowsAccounted ==
    /\ BeforeClear => present = ever
    /\ pc \in {"find", "insert"} => ever = present \union snapshot
    /\ pc \in {"drop", "take"} => present = ever
    /\ pc \in {"script", "select", "mark", "upsert", "clear"} => Live = snapshot \union returned
    /\ pc \notin {"script", "select", "mark", "upsert", "clear"} => Live = returned
    /\ pc = "idle" => snapshot = returned
    /\ pc # "store"

\* The rows of the last run, and no others, are marked by the first batchSave.
MarkedAreMissing ==
    /\ pc \in {"select", "mark", "upsert"} => call.records # {}
    /\ pc = "clear" => returned # {}
    /\ BeforeClear =>
          /\ \A s, t \in snapshot : snapJob[s] = snapJob[t]
          /\ \A s \in snapshot \ returned : recordJob[s] = snapJob[s]
          /\ pc = "idle" => \A s \in snapshot : recordJob[s] = snapJob[s]
    /\ pc = "idle" \/ (returned = {} /\ pc \in {"script", "select", "mark"}) => pending = {}
    /\ pc = "upsert" \/ (returned # {} /\ pc \in {"script", "select", "mark", "clear"}) =>
          pending = snapshot \ returned
    /\ pc \notin {"idle", "script", "select", "mark", "upsert", "clear"} => pending = {}

RegularInv == Regular => RowsAccounted /\ MarkedAreMissing
LEMMA NextJobsHangTogether == RunInv /\ UncutInv /\ NeverCut' /\ [Next]_vars => JobsHangTogether'
<1> SUFFICES ASSUME RunInv, UncutInv, NeverCut', [Next]_vars PROVE JobsHangTogether'
  OBVIOUS
<1> USE DEF RunInv, TypeOK, JobsInOrder, UncutInv, NeverCut, Live, Flagged, Goto, tables,
           snapshotTable, history, NoCall, JobsHangTogether, SnapshotIsPicture, BeforeClear
<1>1. CASE StartRun
  BY <1>1 DEF StartRun
<1>2. ASSUME NEW records \in SUBSET Keys, NEW softDelete \in BOOLEAN, Batch(records, softDelete)
      PROVE  JobsHangTogether'
  BY <1>2 DEF Batch
<1>3. CASE SelectOldJob
  BY <1>3 DEF SelectOldJob
<1>4. CASE MarkRecordsForDeletion
  BY <1>4 DEF MarkRecordsForDeletion
<1>5. CASE Upsert
  BY <1>5 DEF Upsert, StoreRecords
<1>6. CASE ScriptReturnsVoid
  BY <1>6 DEF ScriptReturnsVoid
<1>7. ASSUME NEW records \in SUBSET Keys, ScriptReturnsRecords(records)
      PROVE  JobsHangTogether'
  BY <1>7 DEF ScriptReturnsRecords
<1>8. CASE StoreResults
  BY <1>8 DEF StoreResults, StoreRecords
<1>9. CASE ClearOldRecords
  BY <1>9 DEF ClearOldRecords
<1>10. CASE FindDeletedKeys
  BY <1>10 DEF FindDeletedKeys
<1>11. CASE InsertDeletedRecords
  BY <1>11 DEF InsertDeletedRecords
<1>12. CASE DropSnapshot
  BY <1>12 DEF DropSnapshot
<1>13. CASE TakeSnapshot
  BY <1>13 DEF TakeSnapshot
<1>14. CASE CutShort
  BY <1>14 DEF CutShort
<1>15. CASE UNCHANGED vars
  BY <1>15 DEF vars
<1> QED
  BY <1>1, <1>2, <1>3, <1>4, <1>5, <1>6, <1>7, <1>8, <1>9, <1>10, <1>11, <1>12, <1>13, <1>14,
     <1>15 DEF Next

LEMMA NextSnapshotIsPicture == RunInv /\ UncutInv /\ NeverCut' /\ [Next]_vars => SnapshotIsPicture'
<1> SUFFICES ASSUME RunInv, UncutInv, NeverCut', [Next]_vars PROVE SnapshotIsPicture'
  OBVIOUS
<1> USE DEF RunInv, TypeOK, JobsInOrder, UncutInv, NeverCut, Live, Flagged, Goto, tables,
           snapshotTable, history, NoCall, JobsHangTogether, SnapshotIsPicture, BeforeClear
<1>1. CASE StartRun
  BY <1>1 DEF StartRun
<1>2. ASSUME NEW records \in SUBSET Keys, NEW softDelete \in BOOLEAN, Batch(records, softDelete)
      PROVE  SnapshotIsPicture'
  BY <1>2 DEF Batch
<1>3. CASE SelectOldJob
  BY <1>3 DEF SelectOldJob
<1>4. CASE MarkRecordsForDeletion
  <2>1. PICK s \in snapshot : oldJob = snapJob[s]
    BY <1>4 DEF MarkRecordsForDeletion
  <2>2. SnapshotIsPicture /\ BeforeClear
    BY <1>4 DEF MarkRecordsForDeletion
  <2>3. \A k \in present : recordJob[k] = oldJob => k \in snapshot /\ recordJob[k] = snapJob[k]
    <3> TAKE k \in present
    <3> HAVE recordJob[k] = oldJob
    <3>1. k \in snapshot
      BY <2>1, <2>2
    <3>2. ~(snapJob[s] < recordJob[k])
      BY <2>1
    <3> QED
      BY <2>1, <2>2, <3>1, <3>2
  <2> QED
    BY <1>4, <2>3 DEF MarkRecordsForDeletion
<1>5. CASE Upsert
  BY <1>5 DEF Upsert, StoreRecords
<1>6. CASE ScriptReturnsVoid
  BY <1>6 DEF ScriptReturnsVoid
<1>7. ASSUME NEW records \in SUBSET Keys, ScriptReturnsRecords(records)
      PROVE  SnapshotIsPicture'
  BY <1>7 DEF ScriptReturnsRecords
<1>8. CASE StoreResults
  BY <1>8 DEF StoreResults, StoreRecords
<1>9. CASE ClearOldRecords
  BY <1>9 DEF ClearOldRecords
<1>10. CASE FindDeletedKeys
  BY <1>10 DEF FindDeletedKeys
<1>11. CASE InsertDeletedRecords
  BY <1>11 DEF InsertDeletedRecords
<1>12. CASE DropSnapshot
  BY <1>12 DEF DropSnapshot
<1>13. CASE TakeSnapshot
  BY <1>13 DEF TakeSnapshot
<1>14. CASE CutShort
  BY <1>14 DEF CutShort
<1>15. CASE UNCHANGED vars
  BY <1>15 DEF vars
<1> HIDE DEF SnapshotIsPicture, BeforeClear, JobsHangTogether
<1> QED
  BY <1>1, <1>2, <1>3, <1>4, <1>5, <1>6, <1>7, <1>8, <1>9, <1>10, <1>11, <1>12, <1>13, <1>14,
     <1>15 DEF Next

LEMMA NextNothingLost == RunInv /\ UncutInv /\ NeverCut' /\ [Next]_vars => NothingLost'
<1> SUFFICES ASSUME RunInv, UncutInv, NeverCut', [Next]_vars PROVE NothingLost'
  OBVIOUS
<1> USE DEF RunInv, TypeOK, JobsInOrder, UncutInv, NeverCut, Live, Flagged, Goto, tables,
           snapshotTable, history, NoCall, SnapshotIsPicture, BeforeClear, NothingLost
<1>1. CASE StartRun
  BY <1>1 DEF StartRun
<1>2. ASSUME NEW records \in SUBSET Keys, NEW softDelete \in BOOLEAN, Batch(records, softDelete)
      PROVE  NothingLost'
  BY <1>2 DEF Batch
<1>3. CASE SelectOldJob
  BY <1>3 DEF SelectOldJob
<1>4. CASE MarkRecordsForDeletion
  BY <1>4 DEF MarkRecordsForDeletion
<1>5. CASE Upsert
  BY <1>5 DEF Upsert, StoreRecords
<1>6. CASE ScriptReturnsVoid
  BY <1>6 DEF ScriptReturnsVoid
<1>7. ASSUME NEW records \in SUBSET Keys, ScriptReturnsRecords(records)
      PROVE  NothingLost'
  BY <1>7 DEF ScriptReturnsRecords
<1>8. CASE StoreResults
  BY <1>8 DEF StoreResults, StoreRecords
<1>9. CASE ClearOldRecords
  BY <1>9 DEF ClearOldRecords
<1>10. CASE FindDeletedKeys
  BY <1>10 DEF FindDeletedKeys
<1>11. CASE InsertDeletedRecords
  BY <1>11 DEF InsertDeletedRecords
<1>12. CASE DropSnapshot
  BY <1>12 DEF DropSnapshot
<1>13. CASE TakeSnapshot
  BY <1>13 DEF TakeSnapshot
<1>14. CASE CutShort
  BY <1>14 DEF CutShort
<1>15. CASE UNCHANGED vars
  BY <1>15 DEF vars
<1> QED
  BY <1>1, <1>2, <1>3, <1>4, <1>5, <1>6, <1>7, <1>8, <1>9, <1>10, <1>11, <1>12, <1>13, <1>14,
     <1>15 DEF Next

LEMMA NextNoSoftDelete == RunInv /\ UncutInv /\ NeverCut' /\ [Next]_vars => ~call'.softDelete
<1> SUFFICES ASSUME RunInv, UncutInv, NeverCut', [Next]_vars PROVE ~call'.softDelete
  OBVIOUS
<1> USE DEF RunInv, TypeOK, JobsInOrder, UncutInv, NeverCut, Live, Flagged, Goto, tables,
           snapshotTable, history, NoCall
<1>1. CASE StartRun
  BY <1>1 DEF StartRun
<1>2. ASSUME NEW records \in SUBSET Keys, NEW softDelete \in BOOLEAN, Batch(records, softDelete)
      PROVE  ~call'.softDelete
  BY <1>2 DEF Batch
<1>3. CASE SelectOldJob
  BY <1>3 DEF SelectOldJob
<1>4. CASE MarkRecordsForDeletion
  BY <1>4 DEF MarkRecordsForDeletion
<1>5. CASE Upsert
  BY <1>5 DEF Upsert, StoreRecords
<1>6. CASE ScriptReturnsVoid
  BY <1>6 DEF ScriptReturnsVoid
<1>7. ASSUME NEW records \in SUBSET Keys, ScriptReturnsRecords(records)
      PROVE  ~call'.softDelete
  BY <1>7 DEF ScriptReturnsRecords
<1>8. CASE StoreResults
  BY <1>8 DEF StoreResults, StoreRecords
<1>9. CASE ClearOldRecords
  BY <1>9 DEF ClearOldRecords
<1>10. CASE FindDeletedKeys
  BY <1>10 DEF FindDeletedKeys
<1>11. CASE InsertDeletedRecords
  BY <1>11 DEF InsertDeletedRecords
<1>12. CASE DropSnapshot
  BY <1>12 DEF DropSnapshot
<1>13. CASE TakeSnapshot
  BY <1>13 DEF TakeSnapshot
<1>14. CASE CutShort
  BY <1>14 DEF CutShort
<1>15. CASE UNCHANGED vars
  BY <1>15 DEF vars
<1> QED
  BY <1>1, <1>2, <1>3, <1>4, <1>5, <1>6, <1>7, <1>8, <1>9, <1>10, <1>11, <1>12, <1>13, <1>14,
     <1>15 DEF Next

LEMMA UncutInvariant == Spec => []UncutInv
<1>1. Init => UncutInv
  BY DEF Init, UncutInv, NoCall, JobsHangTogether, SnapshotIsPicture, BeforeClear,
         NothingLost, Live, Flagged
<1>2. RunInv /\ UncutInv /\ [Next]_vars => UncutInv'
  BY NextJobsHangTogether, NextSnapshotIsPicture, NextNothingLost, NextNoSoftDelete
     DEF UncutInv
<1> QED
  BY <1>1, <1>2, RunInvariant, PTL DEF Spec

LEMMA NextRowsAccounted == RunInv /\ UncutInv /\ RegularInv /\ Regular' /\ [Next]_vars => RowsAccounted'
<1> SUFFICES ASSUME RunInv, UncutInv, RegularInv, Regular', [Next]_vars PROVE RowsAccounted'
  OBVIOUS
<1> USE DEF RunInv, TypeOK, JobsInOrder, UncutInv, NeverCut, Live, Flagged, Goto, tables,
           snapshotTable, history, NoCall, Regular, RegularInv, SnapshotIsPicture, BeforeClear,
           TouchedIsCurrent, Current, RowsAccounted, MarkedAreMissing
<1>1. CASE StartRun
  BY <1>1 DEF StartRun
<1>2. ASSUME NEW records \in SUBSET Keys, NEW softDelete \in BOOLEAN, Batch(records, softDelete)
      PROVE  RowsAccounted'
  BY <1>2 DEF Batch
<1>3. CASE SelectOldJob
  BY <1>3 DEF SelectOldJob
<1>4. CASE MarkRecordsForDeletion
  BY <1>4 DEF MarkRecordsForDeletion
<1>5. CASE Upsert
  BY <1>5 DEF Upsert, StoreRecords
<1>6. CASE ScriptReturnsVoid
  BY <1>6 DEF ScriptReturnsVoid
<1>7. ASSUME NEW records \in SUBSET Keys, ScriptReturnsRecords(records)
      PROVE  RowsAccounted'
  BY <1>7 DEF ScriptReturnsRecords
<1>8. CASE StoreResults
  BY <1>8 DEF StoreResults, StoreRecords
<1>9. CASE ClearOldRecords
  BY <1>9 DEF ClearOldRecords
<1>10. CASE FindDeletedKeys
  BY SMTT(60), <1>10 DEF FindDeletedKeys
<1>11. CASE InsertDeletedRecords
  BY <1>11 DEF InsertDeletedRecords
<1>12. CASE DropSnapshot
  BY <1>12 DEF DropSnapshot
<1>13. CASE TakeSnapshot
  BY <1>13 DEF TakeSnapshot
<1>14. CASE CutShort
  BY <1>14 DEF CutShort
<1>15. CASE UNCHANGED vars
  BY <1>15 DEF vars
<1> HIDE DEF RowsAccounted, MarkedAreMissing, SnapshotIsPicture, BeforeClear
<1> QED
  BY <1>1, <1>2, <1>3, <1>4, <1>5, <1>6, <1>7, <1>8, <1>9, <1>10, <1>11, <1>12, <1>13, <1>14,
     <1>15 DEF Next

LEMMA NextMarkedAreMissing == RunInv /\ UncutInv /\ RegularInv /\ Regular' /\ [Next]_vars => MarkedAreMissing'
<1> SUFFICES ASSUME RunInv, UncutInv, RegularInv, Regular', [Next]_vars PROVE MarkedAreMissing'
  OBVIOUS
<1> USE DEF RunInv, TypeOK, JobsInOrder, UncutInv, NeverCut, Live, Flagged, Goto, tables,
           snapshotTable, history, NoCall, Regular, RegularInv, SnapshotIsPicture, BeforeClear,
           TouchedIsCurrent, Current, RowsAccounted, MarkedAreMissing
<1>1. CASE StartRun
  BY <1>1 DEF StartRun
<1>2. ASSUME NEW records \in SUBSET Keys, NEW softDelete \in BOOLEAN, Batch(records, softDelete)
      PROVE  MarkedAreMissing'
  BY <1>2 DEF Batch
<1>3. CASE SelectOldJob
  BY <1>3 DEF SelectOldJob
<1>4. CASE MarkRecordsForDeletion
  BY <1>4 DEF MarkRecordsForDeletion
<1>5. CASE Upsert
  BY <1>5 DEF Upsert, StoreRecords
<1>6. CASE ScriptReturnsVoid
  BY <1>6 DEF ScriptReturnsVoid
<1>7. ASSUME NEW records \in SUBSET Keys, ScriptReturnsRecords(records)
      PROVE  MarkedAreMissing'
  BY <1>7 DEF ScriptReturnsRecords
<1>8. CASE StoreResults
  BY <1>8 DEF StoreResults, StoreRecords
<1>9. CASE ClearOldRecords
  BY <1>9 DEF ClearOldRecords
<1>10. CASE FindDeletedKeys
  BY <1>10 DEF FindDeletedKeys
<1>11. CASE InsertDeletedRecords
  BY <1>11 DEF InsertDeletedRecords
<1>12. CASE DropSnapshot
  BY <1>12 DEF DropSnapshot
<1>13. CASE TakeSnapshot
  BY <1>13 DEF TakeSnapshot
<1>14. CASE CutShort
  BY <1>14 DEF CutShort
<1>15. CASE UNCHANGED vars
  BY <1>15 DEF vars
<1> HIDE DEF RowsAccounted, MarkedAreMissing, SnapshotIsPicture, BeforeClear
<1> QED
  BY <1>1, <1>2, <1>3, <1>4, <1>5, <1>6, <1>7, <1>8, <1>9, <1>10, <1>11, <1>12, <1>13, <1>14,
     <1>15 DEF Next

LEMMA RegularInvariant == Spec => []RegularInv
<1>1. Init => RegularInv
  BY DEF Init, RegularInv, Regular, BeforeClear, RowsAccounted, MarkedAreMissing, Live
<1>2. RunInv /\ UncutInv /\ RegularInv /\ [Next]_vars => RegularInv'
  BY NextRowsAccounted, NextMarkedAreMissing DEF RegularInv
<1> QED
  BY <1>1, <1>2, RunInvariant, UncutInvariant, PTL DEF Spec

\* As long as every run saves something and comes to its end, the live records are
\* exactly those that the latest run returned and the flagged ones all the others that
\* any run ever did; and while no run is cut short, no statement of finishSync loses a
\* record for good, not even when runs are empty or return their records.
THEOREM DeletionsAreExact == Spec => []DeletionsExact
<1>1. UncutInv /\ RegularInv => DeletionsExact
  BY DEF UncutInv, NeverCut, NothingLost, RegularInv, Regular, RowsAccounted, BeforeClear,
         DeletionsExact, Live, Flagged
<1> QED
  BY <1>1, UncutInvariant, RegularInvariant, PTL

(***************************************************************************)
(* Records adds columns, stamps, a webhook and a customer to the           *)
(* statements of DeleteTracking, and changes none of them: every step of   *)
(* it is a step of DeleteTracking or leaves its variables alone.           *)
(***************************************************************************)

LEMMA KeyedType == ASSUME NEW list \in Lists PROVE Keyed(list) \in SUBSET Keys
<1>1. PICK m \in 0..MaxSaved : list \in [1..m -> Records]
  BY DEF Lists, SeqOf
<1>2. DOMAIN list = 1..m /\ \A i \in 1..m : list[i] \in Records
  BY <1>1
<1>3. \A i \in 1..m : list[i].key \in Keys
  BY <1>2 DEF Records
<1> QED
  BY <1>2, <1>3 DEF Keyed

LEMMA NextRefines == [RecordsNext]_<<vars, recordVars>> => [Next]_vars
<1> SUFFICES ASSUME [RecordsNext]_<<vars, recordVars>> PROVE [Next]_vars
  OBVIOUS
<1>1. CASE Start
  BY <1>1 DEF Start, Next
<1>2. ASSUME NEW list \in Lists, NEW softDelete \in BOOLEAN, Save(list, softDelete)
      PROVE  Next
  <2>1. Batch(Keyed(list), softDelete)
    BY <1>2 DEF Save
  <2> QED
    BY <2>1, KeyedType DEF Next
<1>3. CASE UpsertRows
  BY <1>3 DEF UpsertRows, Next
<1>4. CASE SyncUpdateAtForChangedRecords \/ SyncCreatedAtForAddedRecords \/ UpdateSyncJobResult
  BY <1>4 DEF SyncUpdateAtForChangedRecords, SyncCreatedAtForAddedRecords, UpdateSyncJobResult
<1>5. CASE Finish
  BY <1>5 DEF Finish, Next
<1>6. CASE ClearOldRows
  BY <1>6 DEF ClearOldRows, Next
<1>7. CASE InsertDeletedRows
  BY <1>7 DEF InsertDeletedRows, Next
<1>8. CASE SyncUpdateAtForDeletedRecords
  BY <1>8 DEF SyncUpdateAtForDeletedRecords
<1>9. CASE DropSnapshotRows
  BY <1>9 DEF DropSnapshotRows, Next
<1>10. CASE TakeSnapshotRows
  BY <1>10 DEF TakeSnapshotRows, Next
<1>11. ASSUME NEW list \in Lists, ReturnResults(list) PROVE Next
  <2>1. ScriptReturnsRecords(Keyed(list))
    BY <1>11 DEF ReturnResults
  <2> QED
    BY <2>1, KeyedType DEF Next
<1>12. CASE StoreResultRows
  BY <1>12 DEF StoreResultRows, Next
<1>13. CASE Report \/ LoseReport
  BY <1>13 DEF Report, LoseReport
<1>14. CASE FailSnapshot \/ CutRun
  BY <1>14 DEF FailSnapshot, CutRun, Next
<1>15. CASE StartReading \/ ReadPage
  BY <1>15 DEF StartReading, ReadPage
<1>16. CASE UNCHANGED <<vars, recordVars>>
  BY <1>16
<1> QED
  BY <1>1, <1>2, <1>3, <1>4, <1>5, <1>6, <1>7, <1>8, <1>9, <1>10, <1>11, <1>12, <1>13, <1>14,
     <1>15, <1>16 DEF RecordsNext

\* The statements on the columns and stamps, the webhook and the reader change the
\* records and the snapshot in no way that DeleteTracking does not.
THEOREM RecordsRefineDeleteTracking == RecordsSpec => Spec
<1>1. RecordsInit => Init
  BY DEF RecordsInit
<1> QED
  BY <1>1, NextRefines, PTL DEF RecordsSpec, Spec

\* So the deletions come out right with the rest of upsert and reportResults around
\* them, whatever the customer reads in between.
THEOREM RecordsDeletionsAreExact ==
    RecordsSpec => [](DeletionsExact /\ ReturnedRecordsStayLive /\ FlaggedRecordsStayFlagged)
<1> QED
  BY RecordsRefineDeleteTracking, DeletionsAreExact, ReturnedStayLive, FlaggedStayFlagged, PTL

(***************************************************************************)
(* The columns that Records adds: their types, and what each of its steps  *)
(* does to them.                                                           *)
(***************************************************************************)

Row == [content : Contents \union {Gone}, created : Nat, updated : Nat]

ColumnTypes ==
    /\ row \in [Keys -> Row] /\ snapRow \in [Keys -> Row]
    /\ cursor \in Nat
    /\ batch \in [Keys -> Contents \union {Gone}]
    /\ summary \in [added : SUBSET Keys, updated : SUBSET Keys, deleted : SUBSET Keys]
    /\ step \in {"none", "changed", "added", "count", "deleted", "report"}
    /\ result \in [added : Nat, updated : Nat, deleted : Nat]
    /\ due \in Int
    /\ page \in [delta : Int, offset : Nat, quiet : BOOLEAN]
    /\ mirror \in [Keys -> Contents \union {Gone}]

LEMMA KeysAreFinite ==
    ASSUME NEW S \in SUBSET Keys
    PROVE  IsFiniteSet(S) /\ Cardinality(S) \in Nat /\ (Cardinality(S) = 0 <=> S = {})
<1>1. IsFiniteSet(S)
  BY KeysAssumption, FS_Subset
<1> QED BY <1>1, FS_CardinalityType, FS_EmptySet

LEMMA NoRowType ==
    /\ NoRow \in Row
    /\ NoSummary \in [added : SUBSET Keys, updated : SUBSET Keys, deleted : SUBSET Keys]
    /\ NoResult \in [added : Nat, updated : Nat, deleted : Nat] /\ NoBatch \in [Keys -> Contents \union {Gone}]
    /\ NoPage \in [delta : Int, offset : Nat, quiet : BOOLEAN] /\ NoDelta \in Int
BY DEF NoRow, Row, Gone, NoSummary, NoResult, NoBatch, NoPage, NoDelta

\* removeDuplicateKey keeps one of the records of each key.
LEMMA WithoutDuplicatesIs ==
    ASSUME NEW list \in Lists
    PROVE  /\ WithoutDuplicates(list) \in [Keys -> Contents \union {Gone}]
           /\ \A k \in Keyed(list) : WithoutDuplicates(list)[k] \in Contents
<1>1. PICK m \in 0..MaxSaved : list \in [1..m -> Records]
  BY DEF Lists, SeqOf
<1>2. DOMAIN list = 1..m /\ \A i \in 1..m : list[i].key \in Keys /\ list[i].content \in Contents
  BY <1>1 DEF Records
<1>3. ASSUME NEW k \in Keys, k \in Keyed(list)
      PROVE  WithoutDuplicates(list)[k] \in Contents
  <2> DEFINE I == {i \in 1..m : list[i].key = k}
             P(i) == list[i].key = k /\ \A j \in 1..(i - 1) : list[j].key # k
  <2>1. I \subseteq Nat /\ I # {}
    BY <1>2, <1>3 DEF Keyed
  <2>2. PICK i \in I : \A j \in I : ~(<<j, i>> \in OpToRel(<, Nat))
    <3> HIDE DEF I
    <3> QED BY <2>1, WFMin, NatLessThanWellFounded
  <2>3. \A j \in I : ~(j < i)
    <3>1. \A j \in I : j \in Nat /\ i \in Nat
      BY <2>1
    <3> HIDE DEF I
    <3> QED BY <2>2, <3>1 DEF OpToRel
  <2>4. \A j \in 1..(i - 1) : list[j].key # k
    <3> SUFFICES ASSUME NEW j \in 1..(i - 1), list[j].key = k PROVE FALSE
      OBVIOUS
    <3>1. i \in 1..m /\ i \in Nat
      BY <2>1, <2>2
    <3>2. m \in Int
      BY <1>1
    <3>3. j \in 1..m /\ j < i
      BY <3>1, <3>2
    <3> QED BY <2>3, <3>3
  <2>5. \E n \in DOMAIN list : P(n)
    BY <1>2, <2>2, <2>4
  <2>6. (CHOOSE n \in DOMAIN list : P(n)) \in DOMAIN list
    <3> HIDE DEF P
    <3> QED BY <2>5, Zenon
  <2>7. list[CHOOSE n \in DOMAIN list : P(n)].content \in Contents
    <3> HIDE DEF P
    <3> QED BY <1>2, <2>6
  <2>9. WithoutDuplicates(list)[k] = list[CHOOSE n \in DOMAIN list : P(n)].content
    BY <1>3 DEF WithoutDuplicates
  <2> QED BY <2>7, <2>9
<1>4. \A k \in Keys : WithoutDuplicates(list)[k] \in Contents \union {Gone}
  BY <1>3 DEF WithoutDuplicates
<1>5. WithoutDuplicates(list) \in [Keys -> Contents \union {Gone}]
  BY <1>4 DEF WithoutDuplicates
<1> QED BY <1>3, <1>5, KeyedType

LEMMA StartDoes ==
    ASSUME TypeOK, ColumnTypes, Start
    PROVE  /\ pc = "idle" /\ step = "none" /\ pc' = "script" /\ job' = job + 1
           /\ returned' = {} /\ flagged' = {}
           /\ result' = NoResult /\ summary' = NoSummary
           /\ odd \subseteq odd' /\ ("late" \in odd' => "late" \in odd \/ due # NoDelta \/ page # NoPage)
           /\ odd' = {} => due = NoDelta /\ page = NoPage
           /\ "late" \notin odd' => due = NoDelta /\ page = NoPage
           /\ page' \in [delta : Int, offset : Nat, quiet : BOOLEAN]
           /\ page'.delta = page.delta /\ page'.offset = page.offset
           /\ page'.quiet = (page.quiet /\ page = NoPage)
           /\ page = NoPage => page' = page
           /\ UNCHANGED <<present, pending, deleted, snapshot, call, gone, irregular, row, snapRow,
                          cursor, batch, step, due, mirror>>
<1>1. page' = [page EXCEPT !.quiet = (page.quiet /\ page = NoPage)]
  BY DEF Start
<1>2. page' \in [delta : Int, offset : Nat, quiet : BOOLEAN] /\ page'.delta = page.delta
      /\ page'.offset = page.offset /\ page'.quiet = (page.quiet /\ page = NoPage)
  BY <1>1 DEF ColumnTypes
<1>3. ASSUME page = NoPage PROVE page' = page
  <2>1. page.quiet = TRUE
    BY <1>3 DEF NoPage
  <2>2. page' = [page EXCEPT !.quiet = TRUE]
    BY <1>1, <1>3, <2>1
  <2> QED BY <2>1, <2>2 DEF ColumnTypes
<1> QED BY <1>2, <1>3 DEF Start, StartRun, Goto, columns, tables, snapshotTable

LEMMA ComparedIs ==
    ASSUME NEW keys \in SUBSET Keys, NEW contents, NEW table, NEW rows, Compare(keys, contents, table, rows)
    PROVE  /\ summary' \in [added : SUBSET Keys, updated : SUBSET Keys, deleted : SUBSET Keys]
           /\ summary'.added = keys \ table
           /\ summary'.updated = {k \in keys \cap table : rows[k].content # contents[k]}
           /\ summary'.deleted = {}
BY DEF Compare, AddedKeys, UpdatedKeys

LEMMA SaveDoes ==
    ASSUME TypeOK, ColumnTypes, NEW list \in Lists, NEW softDelete \in BOOLEAN, Save(list, softDelete)
    PROVE  /\ pc = "script" /\ step = "none" /\ pc' = "select"
           /\ call'.records \in SUBSET Keys /\ (call'.softDelete <=> softDelete)
           /\ batch' \in [Keys -> Contents \union {Gone}] /\ \A k \in call'.records : batch'[k] \in Contents
           /\ summary' \in [added : SUBSET Keys, updated : SUBSET Keys, deleted : SUBSET Keys]
           /\ summary'.added = call'.records \ snapshot
           /\ summary'.updated = {k \in call'.records \cap snapshot : snapRow[k].content # batch'[k]}
           /\ summary'.deleted = {}
           /\ irregular \subseteq irregular' /\ (softDelete => "batchDelete" \in irregular')
           /\ odd \subseteq odd' /\ ("late" \in odd' => "late" \in odd)
           /\ "again" \notin odd' => call'.records \cap (returned \union flagged) = {}
           /\ UNCHANGED <<present, pending, deleted, snapshot, job, gone, returned, flagged, row, snapRow,
                          cursor, step, result, due, page, mirror>>
<1>1. Keyed(list) \in SUBSET Keys
  BY KeyedType
<1>2. batch' = WithoutDuplicates(list) /\ Compare(Keyed(list), batch', snapshot, snapRow)
  BY DEF Save
<1>3. call' = [records |-> Keyed(list), softDelete |-> softDelete]
  BY DEF Save, Batch
<1>4. call'.records = Keyed(list) /\ call'.softDelete = softDelete
  BY <1>3
<1>5. /\ summary' \in [added : SUBSET Keys, updated : SUBSET Keys, deleted : SUBSET Keys]
      /\ summary'.added = call'.records \ snapshot
      /\ summary'.updated = {k \in call'.records \cap snapshot : snapRow[k].content # batch'[k]}
      /\ summary'.deleted = {}
  BY <1>1, <1>2, <1>4, ComparedIs
<1>6. batch' \in [Keys -> Contents \union {Gone}] /\ \A k \in call'.records : batch'[k] \in Contents
  BY <1>2, <1>4, WithoutDuplicatesIs
<1>7. /\ pc = "script" /\ step = "none" /\ pc' = "select"
      /\ irregular \subseteq irregular' /\ (softDelete => "batchDelete" \in irregular')
      /\ UNCHANGED <<present, pending, deleted, snapshot, job, gone, returned, flagged, row, snapRow,
                     cursor, step, result, due, page, mirror>>
  BY DEF Save, Batch, Goto, columns, customer, tables, snapshotTable
<1>8. /\ odd \subseteq odd' /\ ("late" \in odd' => "late" \in odd)
      /\ "again" \notin odd' => call'.records \cap (returned \union flagged) = {}
  BY <1>4 DEF Save
<1> QED BY <1>1, <1>4, <1>5, <1>6, <1>7, <1>8

LEMMA UpsertDoes ==
    ASSUME TypeOK, ColumnTypes, UpsertRows
    PROVE  /\ pc = "upsert" /\ pc' = "script"
           /\ present' = present \union call.records /\ pending' = pending \ call.records
           /\ deleted' = IF call.softDelete THEN deleted \union call.records ELSE deleted \ call.records
           /\ returned' = IF call.softDelete THEN returned \ call.records ELSE returned \union call.records
           /\ flagged' = IF call.softDelete THEN flagged \union call.records ELSE flagged \ call.records
           /\ row' \in [Keys -> Row]
           /\ \A k \in Keys \ call.records : row'[k] = row[k]
           /\ \A k \in call.records :
                /\ row'[k].content = batch[k] /\ row'[k].created = FormatStamp
                /\ row'[k].updated = IF k \in present /\ row[k].content # batch[k] THEN job ELSE FormatStamp
           /\ batch' \in [Keys -> Contents \union {Gone}]
           /\ summary' \in [added : SUBSET Keys, updated : SUBSET Keys, deleted : SUBSET Keys]
           /\ call.softDelete => /\ step' = "count"
                                 /\ summary'.added = {} /\ summary'.updated = {}
                                 /\ "unstamped" \notin odd' => \A k \in call.records : row'[k].updated = job
                                 /\ "unstamped" \notin odd' /\ call.records # {} => summary'.deleted # {}
           /\ ~call.softDelete =>
                 /\ step' = IF summary.updated # {} THEN "changed"
                            ELSE IF summary.added # {} THEN "added" ELSE "count"
                 /\ summary' = summary /\ odd' = odd
           /\ odd \subseteq odd' /\ ("late" \in odd' => "late" \in odd) /\ ("again" \in odd' => "again" \in odd)
           /\ UNCHANGED <<snapshot, job, gone, irregular, snapRow, cursor, result, due, page, mirror>>
<1>1. /\ pc = "upsert" /\ pc' = "script"
      /\ present' = present \union call.records /\ pending' = pending \ call.records
      /\ deleted' = IF call.softDelete THEN deleted \union call.records ELSE deleted \ call.records
      /\ returned' = IF call.softDelete THEN returned \ call.records ELSE returned \union call.records
      /\ flagged' = IF call.softDelete THEN flagged \union call.records ELSE flagged \ call.records
      /\ UNCHANGED <<snapshot, job, gone, irregular>>
  BY DEF UpsertRows, Upsert, StoreRecords, Goto, snapshotTable
<1>2. FormatStamp \in Nat /\ job \in Nat /\ call.records \in SUBSET Keys
  BY DEF FormatStamp, TypeOK, ColumnTypes
<1>3. \A k \in Keys : MergedRow(k) \in Row /\ MergedRow(k).content = batch[k] /\ MergedRow(k).created = FormatStamp
        /\ MergedRow(k).updated = IF k \in present /\ row[k].content # batch[k] THEN job ELSE FormatStamp
  BY <1>2 DEF MergedRow, ColumnTypes, Row
<1>4. row' = [k \in Keys |-> IF k \in call.records THEN MergedRow(k) ELSE row[k]]
  BY DEF UpsertRows, MergeRows
<1>5. row' \in [Keys -> Row] /\ \A k \in Keys : row'[k] = IF k \in call.records THEN MergedRow(k) ELSE row[k]
  BY <1>3, <1>4 DEF ColumnTypes
<1>6. ASSUME call.softDelete
      PROVE  /\ step' = "count" /\ summary'.added = {} /\ summary'.updated = {}
             /\ summary' \in [added : SUBSET Keys, updated : SUBSET Keys, deleted : SUBSET Keys]
  <2>1. step' = "count"
    BY <1>6 DEF UpsertRows
  <2>2. summary' = [added |-> {}, updated |-> {}, deleted |-> summary.added \union summary.updated]
    BY <1>6 DEF UpsertRows
  <2> QED BY <2>1, <2>2 DEF ColumnTypes
<1>7. ASSUME ~call.softDelete
      PROVE  /\ step' = IF summary.updated # {} THEN "changed" ELSE IF summary.added # {} THEN "added" ELSE "count"
             /\ summary' = summary /\ odd' = odd
  <2>1. step' = IF summary.updated # {} THEN "changed" ELSE IF summary.added # {} THEN "added" ELSE "count"
    BY <1>7 DEF UpsertRows, AfterChanged
  <2>2. summary' = summary
    BY <1>7 DEF UpsertRows
  <2>3. odd' = odd
    BY <1>7 DEF UpsertRows
  <2> QED BY <2>1, <2>2, <2>3
<1>8. /\ call.softDelete /\ "unstamped" \notin odd' => \A k \in call.records : row'[k].updated = job
      /\ call.softDelete /\ "unstamped" \notin odd' /\ call.records # {} => summary'.deleted # {}
      /\ odd \subseteq odd' /\ ("late" \in odd' => "late" \in odd) /\ ("again" \in odd' => "again" \in odd)
  BY DEF UpsertRows
<1>9. batch' \in [Keys -> Contents \union {Gone}] /\ UNCHANGED <<snapRow, cursor, result, due, page, mirror>>
  BY NoRowType DEF UpsertRows, customer
<1>10. /\ \A k \in Keys \ call.records : row'[k] = row[k]
       /\ \A k \in call.records :
            /\ row'[k].content = batch[k] /\ row'[k].created = FormatStamp
            /\ row'[k].updated = IF k \in present /\ row[k].content # batch[k] THEN job ELSE FormatStamp
  BY <1>2, <1>3, <1>5
<1>11. summary' \in [added : SUBSET Keys, updated : SUBSET Keys, deleted : SUBSET Keys]
  BY <1>6, <1>7 DEF ColumnTypes
<1>12. row' \in [Keys -> Row]
  BY <1>5
<1>13. call.softDelete => /\ step' = "count"
                          /\ summary'.added = {} /\ summary'.updated = {}
                          /\ "unstamped" \notin odd' => \A k \in call.records : row'[k].updated = job
                          /\ "unstamped" \notin odd' /\ call.records # {} => summary'.deleted # {}
  <2> SUFFICES ASSUME call.softDelete
               PROVE  /\ step' = "count"
                      /\ summary'.added = {} /\ summary'.updated = {}
                      /\ "unstamped" \notin odd' => \A k \in call.records : row'[k].updated = job
                      /\ "unstamped" \notin odd' /\ call.records # {} => summary'.deleted # {}
    OBVIOUS
  <2>1. step' = "count" /\ summary'.added = {} /\ summary'.updated = {}
    BY <1>6
  <2>2. /\ "unstamped" \notin odd' => \A k \in call.records : row'[k].updated = job
        /\ "unstamped" \notin odd' /\ call.records # {} => summary'.deleted # {}
    BY <1>8
  <2> QED BY <2>1, <2>2
<1>14. ~call.softDelete =>
          /\ step' = IF summary.updated # {} THEN "changed"
                     ELSE IF summary.added # {} THEN "added" ELSE "count"
          /\ summary' = summary /\ odd' = odd
  BY <1>7
<1>15. odd \subseteq odd' /\ ("late" \in odd' => "late" \in odd) /\ ("again" \in odd' => "again" \in odd)
  BY <1>8
<1> QED BY <1>1, <1>9, <1>10, <1>11, <1>12, <1>13, <1>14, <1>15

LEMMA StampedIs ==
    ASSUME TypeOK, ColumnTypes, NEW S
    PROVE  /\ Stamped(S) \in [Keys -> Row]
           /\ \A k \in Keys : /\ Stamped(S)[k].content = row[k].content
                              /\ Stamped(S)[k].created = row[k].created
                              /\ Stamped(S)[k].updated = IF k \in S THEN job ELSE row[k].updated
<1>1. \A k \in Keys : row[k] \in Row /\ job \in Nat
  BY DEF TypeOK, ColumnTypes
<1> QED BY <1>1 DEF Stamped, Row

LEMMA ChangedDoes ==
    ASSUME TypeOK, ColumnTypes, SyncUpdateAtForChangedRecords
    PROVE  /\ pc = "script" /\ step = "changed" /\ step' = IF summary.added # {} THEN "added" ELSE "count"
           /\ row' \in [Keys -> Row]
           /\ \A k \in Keys : /\ row'[k].content = row[k].content /\ row'[k].created = row[k].created
                              /\ row'[k].updated = IF k \in summary.updated THEN job ELSE row[k].updated
           /\ UNCHANGED <<present, pending, deleted, snapshot, pc, job, call, gone, returned, flagged, irregular,
                          snapRow, cursor, batch, summary, result, due, page, mirror, odd>>
BY StampedIs DEF SyncUpdateAtForChangedRecords, Then, AfterChanged, vars, tables, snapshotTable,
   history, customer

LEMMA AddedDoes ==
    ASSUME TypeOK, ColumnTypes, SyncCreatedAtForAddedRecords
    PROVE  /\ pc = "script" /\ step = "added" /\ step' = "count"
           /\ row' \in [Keys -> Row]
           /\ \A k \in Keys : /\ row'[k].content = row[k].content
                              /\ row'[k].created = IF k \in summary.added THEN job ELSE row[k].created
                              /\ row'[k].updated = IF k \in summary.added THEN job ELSE row[k].updated
           /\ UNCHANGED <<present, pending, deleted, snapshot, pc, job, call, gone, returned, flagged, irregular,
                          snapRow, cursor, batch, summary, result, due, page, mirror, odd>>
<1>1. \A k \in Keys : row[k] \in Row /\ job \in Nat
  BY DEF TypeOK, ColumnTypes
<1>2. row' = [k \in Keys |-> IF k \in summary.added THEN [row[k] EXCEPT !.created = job, !.updated = job]
                             ELSE row[k]]
  BY DEF SyncCreatedAtForAddedRecords
<1>3. /\ row' \in [Keys -> Row]
      /\ \A k \in Keys : /\ row'[k].content = row[k].content
                         /\ row'[k].created = IF k \in summary.added THEN job ELSE row[k].created
                         /\ row'[k].updated = IF k \in summary.added THEN job ELSE row[k].updated
  BY <1>1, <1>2 DEF Row
<1> QED BY <1>3 DEF SyncCreatedAtForAddedRecords, Then, vars, tables, snapshotTable, history,
           customer

LEMMA IncreasedIs ==
    ASSUME ColumnTypes
    PROVE  /\ Increased \in [added : Nat, updated : Nat, deleted : Nat]
           /\ Increased.added = result.added + Cardinality(summary.added)
           /\ Increased.updated = result.updated + Cardinality(summary.updated)
           /\ Increased.deleted = result.deleted + Cardinality(summary.deleted)
           /\ Increased = NoResult => result = NoResult /\ summary = NoSummary
<1>1. /\ summary \in [added : SUBSET Keys, updated : SUBSET Keys, deleted : SUBSET Keys]
      /\ result \in [added : Nat, updated : Nat, deleted : Nat]
  BY DEF ColumnTypes
<1>2. \A S \in {summary.added, summary.updated, summary.deleted} :
         Cardinality(S) \in Nat /\ (Cardinality(S) = 0 <=> S = {})
  BY <1>1, KeysAreFinite
<1>3. Increased = NoResult =>
         /\ result.added + Cardinality(summary.added) = 0
         /\ result.updated + Cardinality(summary.updated) = 0
         /\ result.deleted + Cardinality(summary.deleted) = 0
  BY DEF Increased, NoResult
<1>4. ASSUME Increased = NoResult PROVE result = NoResult /\ summary = NoSummary
  <2>1. result.added = 0 /\ result.updated = 0 /\ result.deleted = 0
        /\ summary.added = {} /\ summary.updated = {} /\ summary.deleted = {}
    BY <1>1, <1>2, <1>3, <1>4
  <2> QED BY <1>1, <2>1 DEF NoResult, NoSummary
<1> QED BY <1>1, <1>2, <1>4 DEF Increased

LEMMA CountDoes ==
    ASSUME TypeOK, ColumnTypes, UpdateSyncJobResult
    PROVE  /\ pc = "script" /\ step = "count" /\ step' = "none"
           /\ result' = Increased /\ summary' = NoSummary
           /\ UNCHANGED <<present, pending, deleted, snapshot, pc, job, call, gone, returned, flagged, irregular,
                          row, snapRow, cursor, batch, due, page, mirror, odd>>
BY DEF UpdateSyncJobResult, Then, vars, tables, snapshotTable, history, customer, columns

LEMMA FinishDoes ==
    ASSUME TypeOK, ColumnTypes, Finish
    PROVE  /\ step = "none"
           /\ \/ pc = "script" /\ pc' = "clear" /\ irregular \subseteq irregular' /\ gone' = gone
              \/ pc = "select" /\ pc' \in {"mark", "upsert"} /\ irregular' = irregular /\ gone' = gone
              \/ pc = "mark" /\ pc' = "upsert" /\ irregular' = irregular /\ gone' = gone
              \/ pc = "find" /\ pc' = "drop" /\ snapshot \subseteq present /\ irregular' = irregular
              \/ pc = "find" /\ pc' = "insert" /\ gone' = snapshot \ present /\ irregular' = irregular
           /\ irregular \subseteq irregular' /\ irregular' \subseteq irregular \union {"empty"}
           /\ UNCHANGED <<present, deleted, snapshot, job, call, returned, flagged, row, snapRow,
                          cursor, batch, summary, step, result, due, page, mirror, odd>>
<1>1. step = "none"
      /\ UNCHANGED <<row, snapRow, cursor, batch, summary, step, result, due, page, mirror, odd>>
  BY DEF Finish, recordVars, columns, customer
<1> USE DEF Goto, tables, snapshotTable, history
<1>2. CASE ScriptReturnsVoid
  BY <1>1, <1>2 DEF ScriptReturnsVoid
<1>3. CASE SelectOldJob
  BY <1>1, <1>3 DEF SelectOldJob
<1>4. CASE MarkRecordsForDeletion
  BY <1>1, <1>4 DEF MarkRecordsForDeletion
<1>5. CASE FindDeletedKeys
  BY <1>1, <1>5 DEF FindDeletedKeys
<1> QED BY <1>2, <1>3, <1>4, <1>5 DEF Finish

LEMMA ClearDoes ==
    ASSUME TypeOK, ColumnTypes, ClearOldRows
    PROVE  /\ pc = "clear" /\ pc' = "find" /\ step = "none"
           /\ present' = present \ pending /\ deleted' = deleted \ pending
           /\ row' \in [Keys -> Row]
           /\ \A k \in Keys : row'[k] = IF k \in present' THEN row[k] ELSE NoRow
           /\ UNCHANGED <<snapshot, job, call, gone, returned, flagged, irregular, snapRow,
                          cursor, batch, summary, step, result, due, page, mirror, odd>>
<1>1. row' = [k \in Keys |-> IF k \in present' THEN row[k] ELSE NoRow]
  BY DEF ClearOldRows
<1>2. row' \in [Keys -> Row] /\ \A k \in Keys : row'[k] = IF k \in present' THEN row[k] ELSE NoRow
  BY <1>1, NoRowType DEF ColumnTypes
<1> QED BY <1>2 DEF ClearOldRows, ClearOldRecords, Goto, snapshotTable, history, customer

LEMMA InsertDoes ==
    ASSUME TypeOK, ColumnTypes, InsertDeletedRows
    PROVE  /\ pc = "insert" /\ pc' = "drop" /\ step = "none" /\ step' = "deleted"
           /\ present' = present \union gone /\ deleted' = deleted \union gone
           /\ row' \in [Keys -> Row]
           /\ \A k \in Keys : row'[k] = IF k \in gone THEN snapRow[k] ELSE row[k]
           /\ summary' = [NoSummary EXCEPT !.deleted = gone] /\ summary'.deleted = gone
           /\ summary'.added = {} /\ summary'.updated = {}
           /\ summary' \in [added : SUBSET Keys, updated : SUBSET Keys, deleted : SUBSET Keys]
           /\ UNCHANGED <<snapshot, job, call, returned, flagged, irregular, snapRow,
                          cursor, batch, result, due, page, mirror, odd>>
<1>1. row' = [k \in Keys |-> IF k \in gone THEN snapRow[k] ELSE row[k]]
  BY DEF InsertDeletedRows
<1>2. row' \in [Keys -> Row] /\ \A k \in Keys : row'[k] = IF k \in gone THEN snapRow[k] ELSE row[k]
  BY <1>1 DEF ColumnTypes
<1>3. summary' = [NoSummary EXCEPT !.deleted = gone]
  BY DEF InsertDeletedRows
<1>4. /\ summary'.deleted = gone /\ summary'.added = {} /\ summary'.updated = {}
      /\ summary' \in [added : SUBSET Keys, updated : SUBSET Keys, deleted : SUBSET Keys]
  BY <1>3 DEF NoSummary, TypeOK
<1> QED BY <1>2, <1>3, <1>4 DEF InsertDeletedRows, InsertDeletedRecords, Goto, snapshotTable,
           history, customer

LEMMA DeletedDoes ==
    ASSUME TypeOK, ColumnTypes, SyncUpdateAtForDeletedRecords
    PROVE  /\ pc = "drop" /\ step = "deleted" /\ step' = "none"
           /\ row' \in [Keys -> Row]
           /\ \A k \in Keys : /\ row'[k].content = row[k].content /\ row'[k].created = row[k].created
                              /\ row'[k].updated = IF k \in summary.deleted THEN job ELSE row[k].updated
           /\ UNCHANGED <<present, pending, deleted, snapshot, pc, job, call, gone, returned, flagged, irregular,
                          snapRow, cursor, batch, summary, result, due, page, mirror, odd>>
BY StampedIs DEF SyncUpdateAtForDeletedRecords, Then, vars, tables, snapshotTable, history,
   customer

LEMMA DropDoes ==
    ASSUME TypeOK, ColumnTypes, DropSnapshotRows
    PROVE  /\ pc = "drop" /\ pc' = "take" /\ step = "none" /\ snapshot' = {} /\ cursor' = job
           /\ snapRow' \in [Keys -> Row] /\ \A k \in Keys : snapRow'[k] = NoRow
           /\ UNCHANGED <<present, deleted, job, call, gone, returned, flagged, irregular, row,
                          batch, summary, step, result, due, page, mirror, odd>>
BY NoRowType DEF DropSnapshotRows, DropSnapshot, Goto, tables, history, customer

LEMMA TakeDoes ==
    ASSUME TypeOK, ColumnTypes, TakeSnapshotRows
    PROVE  /\ pc = "take" /\ pc' = "idle" /\ step = "none" /\ step' = "report" /\ snapshot' = present \ deleted
           /\ snapRow' \in [Keys -> Row]
           /\ \A k \in Keys : snapRow'[k] = IF k \in snapshot' THEN row[k] ELSE NoRow
           /\ UNCHANGED <<present, deleted, job, call, gone, returned, flagged, irregular, row,
                          cursor, batch, summary, result, due, page, mirror, odd>>
<1>1. snapRow' = [k \in Keys |-> IF k \in snapshot' THEN row[k] ELSE NoRow]
  BY DEF TakeSnapshotRows
<1>2. snapRow' \in [Keys -> Row] /\ \A k \in Keys : snapRow'[k] = IF k \in snapshot' THEN row[k] ELSE NoRow
  BY <1>1, NoRowType DEF ColumnTypes
<1> QED BY <1>2 DEF TakeSnapshotRows, TakeSnapshot, Goto, tables, customer

LEMMA ReturnDoes ==
    ASSUME TypeOK, ColumnTypes, NEW list \in Lists, ReturnResults(list)
    PROVE  /\ pc = "script" /\ step = "none" /\ pc' = "store"
           /\ "results" \in irregular' /\ irregular \subseteq irregular'
           /\ batch' \in [Keys -> Contents \union {Gone}] /\ \A k \in call'.records : batch'[k] \in Contents
           /\ summary' \in [added : SUBSET Keys, updated : SUBSET Keys, deleted : SUBSET Keys]
           /\ UNCHANGED <<present, deleted, snapshot, job, gone, returned, flagged, row, snapRow,
                          cursor, step, result, due, page, mirror, odd>>
<1>1. Keyed(list) \in SUBSET Keys
  BY KeyedType
<1>2. batch' = WithoutDuplicates(list) /\ Compare(Keyed(list), batch', present, row)
  BY DEF ReturnResults
<1>3. /\ summary' \in [added : SUBSET Keys, updated : SUBSET Keys, deleted : SUBSET Keys]
      /\ batch' \in [Keys -> Contents \union {Gone}] /\ \A k \in Keyed(list) : batch'[k] \in Contents
  BY <1>1, <1>2, ComparedIs, WithoutDuplicatesIs
<1>4. call'.records = Keyed(list)
  BY DEF ReturnResults, ScriptReturnsRecords
<1> QED BY <1>3, <1>4 DEF ReturnResults, ScriptReturnsRecords, Goto, tables, snapshotTable,
           columns, customer

LEMMA StoreDoes ==
    ASSUME TypeOK, ColumnTypes, StoreResultRows
    PROVE  /\ pc = "store" /\ step = "none" /\ present' = present \union call.records
           /\ row' \in [Keys -> Row]
           /\ \A k \in Keys : /\ k \notin call.records => row'[k] = row[k]
                              /\ k \in call.records => /\ row'[k].content = batch[k]
                                                       /\ row'[k].created = FormatStamp
                                                       /\ row'[k].updated \in {job, FormatStamp}
           /\ \/ pc' = "drop" /\ step' = "none" /\ cursor' = cursor
              \/ pc' = "idle" /\ step' = "report" /\ cursor' = job
           /\ batch' \in [Keys -> Contents \union {Gone}]
           /\ UNCHANGED <<snapshot, job, gone, irregular, snapRow, summary, result, due, page, mirror, odd>>
<1>1. FormatStamp \in Nat /\ job \in Nat /\ call.records \in SUBSET Keys
  BY DEF FormatStamp, TypeOK, ColumnTypes
<1>2. \A k \in Keys : /\ MergedRow(k) \in Row
                      /\ MergedRow(k).content = batch[k] /\ MergedRow(k).created = FormatStamp
                      /\ MergedRow(k).updated \in {job, FormatStamp}
  BY <1>1 DEF MergedRow, ColumnTypes, Row
<1>3. row' = [k \in Keys |-> IF k \in call.records THEN MergedRow(k) ELSE row[k]]
  BY DEF StoreResultRows, MergeRows
<1>4. row' \in [Keys -> Row] /\ \A k \in Keys : row'[k] = IF k \in call.records THEN MergedRow(k) ELSE row[k]
  BY <1>2, <1>3 DEF ColumnTypes
<1>5. /\ \/ pc' = "drop" /\ step' = "none" /\ cursor' = cursor
         \/ pc' = "idle" /\ step' = "report" /\ cursor' = job
      /\ pc = "store" /\ step = "none" /\ present' = present \union call.records
      /\ batch' \in [Keys -> Contents \union {Gone}]
      /\ UNCHANGED <<snapshot, job, gone, irregular, snapRow, summary, result, due, page, mirror, odd>>
  BY NoRowType DEF StoreResultRows, StoreResults, StoreRecords, Goto, snapshotTable, customer
<1> QED BY <1>2, <1>4, <1>5

LEMMA ReportDoes ==
    ASSUME TypeOK, ColumnTypes, Report
    PROVE  /\ pc = "idle" /\ step = "report" /\ step' = "none"
           /\ result' = Increased /\ summary' = NoSummary
           /\ due' = IF result' = NoResult \/ due \in 0..QueryTimeStamp THEN due ELSE QueryTimeStamp
           /\ UNCHANGED <<present, deleted, snapshot, pc, job, call, gone, returned, flagged, irregular,
                          row, snapRow, cursor, batch, page, mirror, odd>>
BY DEF Report, Then, vars, tables, snapshotTable, history, columns

LEMMA LoseReportDoes ==
    ASSUME TypeOK, ColumnTypes, LoseReport
    PROVE  /\ pc = "idle" /\ step = "report" /\ step' = "none"
           /\ summary' = NoSummary /\ "unsent" \in odd'
           /\ odd \subseteq odd' /\ ("late" \in odd' => "late" \in odd)
           /\ UNCHANGED <<present, deleted, snapshot, pc, job, call, gone, returned, flagged, irregular,
                          row, snapRow, cursor, batch, result, due, page, mirror>>
BY DEF LoseReport, Then, vars, tables, snapshotTable, history, columns, customer

LEMMA CutDoes ==
    ASSUME TypeOK, ColumnTypes, FailSnapshot \/ CutRun
    PROVE  /\ pc # "idle" /\ "cut" \in irregular' /\ irregular \subseteq irregular'
           /\ \/ pc' = "idle"
              \/ pc \in {"script", "upsert"} /\ pc' = "script" /\ step' = "none"
           /\ \/ step' = "report" /\ cursor' = job /\ UNCHANGED <<batch, summary>>
              \/ step' = "none" /\ cursor' = cursor /\ batch' = NoBatch /\ summary' = NoSummary
           /\ UNCHANGED <<present, deleted, snapshot, job, returned, flagged,
                          row, snapRow, result, due, page, mirror, odd>>
BY DEF FailSnapshot, CutRun, CutShort, tables, snapshotTable, columns, customer

\* The places of the rows of an answer are 0 and on, one for each.
LEMMA PlaceNat ==
    ASSUME NEW S \in SUBSET Keys, NEW k
    PROVE  Place(S, k) \in Nat
<1>1. {j \in S : j > k} \in SUBSET Keys
  OBVIOUS
<1> QED BY <1>1, KeysAreFinite DEF Place

LEMMA PlaceLater ==
    ASSUME NEW S \in SUBSET Keys, NEW i \in S, NEW k \in S, i > k
    PROVE  Place(S, i) < Place(S, k)
<1> DEFINE A == {j \in S : j > i}
           B == {j \in S : j > k}
<1>1. S \subseteq Int /\ i \in Int /\ k \in Int
  BY KeysAssumption
<1>2. A \subseteq B /\ i \in B /\ i \notin A
  <2>1. \A j \in S : j > i => j > k
    BY <1>1
  <2>2. ~(i > i)
    BY <1>1
  <2> QED BY <2>1, <2>2
<1>3. A \in SUBSET Keys /\ B \in SUBSET Keys /\ A # B
  BY <1>2
<1>4. IsFiniteSet(B) /\ Cardinality(A) \in Nat /\ Cardinality(B) \in Nat
  BY <1>3, KeysAreFinite
<1>5. Cardinality(A) < Cardinality(B)
  BY <1>2, <1>3, <1>4, FS_Subset
<1> QED BY <1>5 DEF Place

LEMMA PlacesFit ==
    ASSUME NEW S \in SUBSET Keys, NEW T \in SUBSET S, NEW n \in Nat, \A k \in T : Place(S, k) < n
    PROVE  Cardinality(T) <= n
<1> DEFINE f == [k \in T |-> Place(S, k)]
<1>1. \A k \in T : k \in Int /\ Place(S, k) \in Nat
  BY PlaceNat, KeysAssumption
<1>2. f \in [T -> 0..(n - 1)]
  BY <1>1
<1>3. \A i, k \in T : Place(S, i) = Place(S, k) => i = k
  <2> SUFFICES ASSUME NEW i \in T, NEW k \in T, Place(S, i) = Place(S, k), i # k
               PROVE  FALSE
    OBVIOUS
  <2>1. i \in Int /\ k \in Int /\ i \in S /\ k \in S /\ Place(S, i) \in Nat
    BY <1>1
  <2>2. CASE i > k
    BY <2>1, <2>2, PlaceLater
  <2>3. CASE k > i
    BY <2>1, <2>3, PlaceLater
  <2> QED BY <2>1, <2>2, <2>3
<1>4. f \in Injection(T, 0..(n - 1))
  BY <1>2, <1>3 DEF Injection, IsInjective
<1>5. IsFiniteSet(0..(n - 1)) /\ Cardinality(0..(n - 1)) = n
  <2>1. 0 \in Int /\ n - 1 \in Int /\ (IF 0 > n - 1 THEN 0 ELSE (n - 1) - 0 + 1) = n
    OBVIOUS
  <2> QED BY <2>1, FS_Interval
<1> HIDE DEF f
<1> QED BY <1>4, <1>5, FS_Injection

\* getDataRecords: a page that is not full is the last one.
LEMMA LastPage ==
    ASSUME NEW S \in SUBSET Keys, NEW offset \in Nat, Cardinality(Page(S, offset)) < PageSize,
           NEW k \in S
    PROVE  Place(S, k) < offset + PageSize
<1> DEFINE n == offset + PageSize
           L == {Place(S, j) : j \in {i \in S : ~(Place(S, i) < n)}}
<1>1. PageSize \in Nat /\ n \in Nat
  BY PageSizeAssumption
<1>2. \A j \in S : Place(S, j) \in Nat /\ j \in Int
  BY PlaceNat, KeysAssumption
<1> SUFFICES ASSUME ~(Place(S, k) < n) PROVE FALSE
  OBVIOUS
<1>3. L \subseteq Nat /\ L # {}
  BY <1>2
<1>4. PICK l \in L : \A m \in L : ~(<<m, l>> \in OpToRel(<, Nat))
  <2> HIDE DEF L
  <2> QED BY <1>3, WFMin, NatLessThanWellFounded
<1>5. \A m \in L : ~(m < l)
  <2>1. \A m \in L : m \in Nat /\ l \in Nat
    BY <1>3
  <2> HIDE DEF L
  <2> QED BY <1>4, <2>1 DEF OpToRel
<1>6. PICK j \in S : l = Place(S, j) /\ ~(Place(S, j) < n)
  OBVIOUS
<1> DEFINE F == {i \in S : i > j}
           A == {i \in S : Place(S, i) < offset}
           B == Page(S, offset)
<1>7. \A i \in F : Place(S, i) < n
  <2> SUFFICES ASSUME NEW i \in F, ~(Place(S, i) < n) PROVE FALSE
    OBVIOUS
  <2>1. Place(S, i) \in L
    OBVIOUS
  <2>2. Place(S, i) < Place(S, j)
    BY PlaceLater
  <2> QED BY <1>5, <1>6, <2>1, <2>2
<1>8. F \subseteq A \union B
  <2> SUFFICES ASSUME NEW i \in F, i \notin A PROVE i \in B
    OBVIOUS
  <2>1. i \in S /\ Place(S, i) \in Nat /\ ~(Place(S, i) < offset) /\ Place(S, i) < offset + PageSize
    BY <1>2, <1>7
  <2>2. Place(S, i) \in offset..(offset + PageSize - 1)
    BY <1>1, <2>1
  <2> QED BY <2>1, <2>2 DEF Page
<1>9. A \in SUBSET Keys /\ B \in SUBSET Keys /\ A \union B \in SUBSET Keys /\ A \in SUBSET S
  BY DEF Page
<1>10. Cardinality(A) <= offset
  <2>1. \A i \in A : Place(S, i) < offset
    OBVIOUS
  <2> HIDE DEF A
  <2> QED BY <1>9, <2>1, PlacesFit
<1> HIDE DEF A, B, F, L, n
<1>11. /\ Cardinality(F) <= Cardinality(A \union B)
       /\ Cardinality(A \union B) <= Cardinality(A) + Cardinality(B)
  <2>1. IsFiniteSet(A) /\ IsFiniteSet(B) /\ IsFiniteSet(A \union B) /\ IsFiniteSet(A \cap B)
    <3>1. A \cap B \in SUBSET Keys
      BY <1>9
    <3> QED BY <1>9, <3>1, KeysAreFinite
  <2>2. Cardinality(A \union B) = Cardinality(A) + Cardinality(B) - Cardinality(A \cap B)
    BY <2>1, FS_Union
  <2>3. Cardinality(A \cap B) \in Nat /\ Cardinality(A) \in Nat /\ Cardinality(B) \in Nat
    BY <2>1, FS_CardinalityType
  <2>4. Cardinality(F) <= Cardinality(A \union B)
    BY <1>8, <2>1, FS_Subset
  <2> QED BY <2>2, <2>3, <2>4
<1>12. Cardinality(B) < PageSize
  BY DEF B
<1>13. Cardinality(F) = Place(S, j)
  BY DEF F, Place
<1>14. Cardinality(A) \in Nat /\ Cardinality(B) \in Nat /\ Cardinality(A \union B) \in Nat
  BY <1>9, KeysAreFinite
<1> QED BY <1>1, <1>2, <1>6, <1>10, <1>11, <1>12, <1>13, <1>14 DEF n

LEMMA SinceIs ==
    ASSUME TypeOK, ColumnTypes, NEW d
    PROVE  Since(d) \in SUBSET Keys /\ Since(d) \subseteq present
BY DEF Since, TypeOK

\* What the records say of k.
Shown(k) == IF k \in Live THEN row[k].content ELSE Gone

LEMMA ApplyDoes ==
    ASSUME TypeOK, ColumnTypes, NEW d \in Int, NEW offset \in Nat,
           NEW next \in [delta : Int, offset : Nat, quiet : BOOLEAN], Apply(d, offset, next)
    PROVE  /\ mirror' \in [Keys -> Contents \union {Gone}]
           /\ \A k \in Keys : mirror'[k] = IF k \in Page(Since(d), offset) THEN Shown(k) ELSE mirror[k]
           /\ page' = next \/ (page' = NoPage /\ \A k \in Since(d) : Place(Since(d), k) < offset + PageSize)
<1> DEFINE keys == Page(Since(d), offset)
<1>1. Since(d) \in SUBSET Keys /\ keys \subseteq Since(d) /\ Since(d) \subseteq present
  BY SinceIs DEF Page
<1>2. /\ mirror' = [k \in Keys |-> IF k \notin keys THEN mirror[k]
                                   ELSE IF k \in deleted THEN Gone ELSE row[k].content]
      /\ page' = IF Cardinality(keys) < PageSize THEN NoPage ELSE next
  BY DEF Apply
<1>3. \A k \in Keys : mirror'[k] = IF k \in keys THEN Shown(k) ELSE mirror[k]
  <2> HIDE DEF keys
  <2> QED BY <1>1, <1>2 DEF Shown, Live
<1>4. \A k \in Keys : row[k] \in Row
  BY DEF ColumnTypes
<1>5. mirror' \in [Keys -> Contents \union {Gone}]
  <2> HIDE DEF keys
  <2> QED BY <1>2, <1>4 DEF Row, ColumnTypes
<1>6. CASE Cardinality(keys) < PageSize
  <2>1. page' = NoPage
    BY <1>2, <1>6
  <2>2. \A k \in Since(d) : Place(Since(d), k) < offset + PageSize
    BY <1>1, <1>6, LastPage
  <2> QED BY <1>3, <1>5, <2>1, <2>2
<1>7. CASE ~(Cardinality(keys) < PageSize)
  <2>1. page' = next
    BY <1>2, <1>7
  <2> QED BY <1>3, <1>5, <2>1
<1> QED BY <1>6, <1>7

LEMMA StartReadingDoes ==
    ASSUME TypeOK, ColumnTypes, StartReading
    PROVE  /\ due # NoDelta /\ page = NoPage /\ due' = NoDelta
           /\ mirror' \in [Keys -> Contents \union {Gone}]
           /\ \A k \in Keys : mirror'[k] = IF k \in Page(Since(due), 0) THEN Shown(k) ELSE mirror[k]
           /\ page' \in [delta : Int, offset : Nat, quiet : BOOLEAN]
           /\ \/ page' # NoPage /\ page'.delta = due /\ page'.offset = PageSize /\ (page'.quiet <=> ~Active)
              \/ page' = NoPage /\ \A k \in Since(due) : Place(Since(due), k) < PageSize
           /\ UNCHANGED <<present, deleted, snapshot, pc, job, call, gone, returned, flagged, irregular,
                          row, snapRow, cursor, batch, summary, step, result, odd>>
<1> DEFINE next == [delta |-> due, offset |-> PageSize, quiet |-> ~Active]
<1>1. due \in Int /\ PageSize \in Nat /\ 0 + PageSize = PageSize /\ (~Active) \in BOOLEAN
  BY PageSizeAssumption DEF ColumnTypes
<1>2. /\ next \in [delta : Int, offset : Nat, quiet : BOOLEAN] /\ next.delta = due
      /\ next.offset = PageSize /\ (next.quiet <=> ~Active)
  BY <1>1
<1>3. /\ due # NoDelta /\ page = NoPage /\ due' = NoDelta /\ Apply(due, 0, next)
      /\ UNCHANGED <<present, deleted, snapshot, pc, job, call, gone, returned, flagged, irregular,
                     row, snapRow, cursor, batch, summary, step, result, odd>>
  BY DEF StartReading, vars, tables, snapshotTable, history, columns
<1>4. next # NoPage
  <2>1. NoPage.delta = NoDelta
    BY DEF NoPage
  <2> QED BY <1>2, <1>3, <2>1
<1> HIDE DEF next
<1>5. 0 \in Nat
  OBVIOUS
<1>6. /\ mirror' \in [Keys -> Contents \union {Gone}]
      /\ \A k \in Keys : mirror'[k] = IF k \in Page(Since(due), 0) THEN Shown(k) ELSE mirror[k]
      /\ page' = next \/ (page' = NoPage /\ \A k \in Since(due) : Place(Since(due), k) < 0 + PageSize)
  BY <1>1, <1>2, <1>3, <1>5, ApplyDoes
<1> QED BY <1>1, <1>2, <1>3, <1>4, <1>6, NoRowType

LEMMA ReadPageDoes ==
    ASSUME TypeOK, ColumnTypes, ReadPage
    PROVE  /\ page # NoPage
           /\ mirror' \in [Keys -> Contents \union {Gone}]
           /\ \A k \in Keys : mirror'[k] = IF k \in Page(Since(page.delta), page.offset) THEN Shown(k) ELSE mirror[k]
           /\ page' \in [delta : Int, offset : Nat, quiet : BOOLEAN]
           /\ \/ page'.delta = page.delta /\ page'.offset = page.offset + PageSize /\ page'.quiet = page.quiet
              \/ /\ page' = NoPage
                 /\ \A k \in Since(page.delta) : Place(Since(page.delta), k) < page.offset + PageSize
           /\ odd \subseteq odd' /\ ("late" \in odd' => "late" \in odd)
           /\ "torn" \notin odd' => ~Active /\ page.quiet
           /\ UNCHANGED <<present, deleted, snapshot, pc, job, call, gone, returned, flagged, irregular,
                          row, snapRow, cursor, batch, summary, step, result, due>>
<1> DEFINE next == [page EXCEPT !.offset = page.offset + PageSize]
<1>1. page.delta \in Int /\ page.offset \in Nat /\ PageSize \in Nat
  BY PageSizeAssumption DEF ColumnTypes
<1>2. /\ next \in [delta : Int, offset : Nat, quiet : BOOLEAN] /\ next.delta = page.delta
      /\ next.offset = page.offset + PageSize /\ next.quiet = page.quiet
  BY <1>1 DEF ColumnTypes
<1>3. /\ page # NoPage /\ Apply(page.delta, page.offset, next)
      /\ UNCHANGED <<present, deleted, snapshot, pc, job, call, gone, returned, flagged, irregular,
                     row, snapRow, cursor, batch, summary, step, result, due>>
  BY DEF ReadPage, vars, tables, snapshotTable, history, columns
<1>4. odd' = odd \union IF Active \/ ~page.quiet THEN {"torn"} ELSE {}
  BY DEF ReadPage
<1> HIDE DEF next
<1>6. /\ mirror' \in [Keys -> Contents \union {Gone}]
      /\ \A k \in Keys : mirror'[k] = IF k \in Page(Since(page.delta), page.offset) THEN Shown(k) ELSE mirror[k]
      /\ \/ page' = next
         \/ page' = NoPage /\ \A k \in Since(page.delta) : Place(Since(page.delta), k) < page.offset + PageSize
  BY <1>1, <1>2, <1>3, ApplyDoes
<1> QED BY <1>2, <1>3, <1>4, <1>6, NoRowType

(***************************************************************************)
(* What holds of the stamps and of the customer, whatever happens.         *)
(***************************************************************************)

\* No stamp is later than the run that is under way or the last one; the date of the
\* last run that succeeded is earlier than the one under way; a delta is the time of
\* a run that was reported.
Times ==
    /\ \A k \in Keys : row[k].updated <= job /\ row[k].created <= job
    /\ \A k \in Keys : snapRow[k].updated <= job /\ snapRow[k].created <= job
    /\ cursor <= job /\ (pc = "take" \/ step = "report" => cursor = job)
    /\ pc \notin {"idle", "take"} => cursor < job
    /\ snapshot # {} => cursor > 0
    /\ pc # "idle" => job > 0
    /\ due # NoDelta => due \in 0..cursor
    /\ page # NoPage => page.delta \in 0..cursor

\* Where the steps of Records come between those of DeleteTracking.
Steps ==
    /\ step \in {"changed", "added", "count"} => pc = "script"
    /\ step = "deleted" => pc = "drop"
    /\ step = "report" => pc = "idle"
    /\ pc \in {"idle", "script", "clear", "find", "insert"} /\ step = "none" => summary = NoSummary

\* Unless a run began before the customer was done, none is reading during one.
Punctual ==
    "late" \notin odd => page.quiet /\ (Active => due = NoDelta /\ page = NoPage)

ColumnsInv == TypeOK /\ ColumnTypes /\ Times /\ Steps /\ Punctual

\* No row is without contents.
Filled ==
    /\ \A k \in present : row[k].content \in Contents
    /\ \A k \in snapshot : snapRow[k].content \in Contents
    /\ pc \in {"select", "mark", "upsert", "store"} => \A k \in call.records : batch[k] \in Contents

LEMMA NextColumnTypes ==
    ASSUME TypeOK, ColumnTypes, [RecordsNext]_<<vars, recordVars>>
    PROVE  ColumnTypes'
<1> USE DEF ColumnTypes
<1>1. CASE Start
  BY <1>1, StartDoes, NoRowType
<1>2. ASSUME NEW list \in Lists, NEW softDelete \in BOOLEAN, Save(list, softDelete)
      PROVE  ColumnTypes'
  BY <1>2, SaveDoes
<1>3. CASE UpsertRows
  BY <1>3, UpsertDoes
<1>4. CASE SyncUpdateAtForChangedRecords
  BY <1>4, ChangedDoes
<1>5. CASE SyncCreatedAtForAddedRecords
  BY <1>5, AddedDoes
<1>6. CASE UpdateSyncJobResult
  BY <1>6, CountDoes, IncreasedIs, NoRowType
<1>7. CASE Finish
  BY <1>7, FinishDoes
<1>8. CASE ClearOldRows
  BY <1>8, ClearDoes
<1>9. CASE InsertDeletedRows
  BY <1>9, InsertDoes
<1>10. CASE SyncUpdateAtForDeletedRecords
  BY <1>10, DeletedDoes
<1>11. CASE DropSnapshotRows
  BY <1>11, DropDoes DEF TypeOK
<1>12. CASE TakeSnapshotRows
  BY <1>12, TakeDoes
<1>13. ASSUME NEW list \in Lists, ReturnResults(list)
      PROVE  ColumnTypes'
  BY <1>13, ReturnDoes
<1>14. CASE StoreResultRows
  BY <1>14, StoreDoes DEF TypeOK
<1>15. CASE Report
  BY <1>15, ReportDoes, IncreasedIs, NoRowType DEF QueryTimeStamp, TypeOK
<1>16. CASE LoseReport
  BY <1>16, LoseReportDoes, NoRowType
<1>17. CASE FailSnapshot \/ CutRun
  BY <1>17, CutDoes, NoRowType DEF TypeOK
<1>18. CASE StartReading
  BY <1>18, StartReadingDoes, NoRowType
<1>19. CASE ReadPage
  BY <1>19, ReadPageDoes
<1>20. CASE UNCHANGED <<vars, recordVars>>
  BY <1>20 DEF vars, tables, snapshotTable, history, recordVars, columns, customer
<1> QED BY <1>1, <1>2, <1>3, <1>4, <1>5, <1>6, <1>7, <1>8, <1>9, <1>10, <1>11, <1>12, <1>13,
       <1>14, <1>15, <1>16, <1>17, <1>18, <1>19, <1>20 DEF RecordsNext

LEMMA NextTimes ==
    ASSUME ColumnsInv, TypeOK', [RecordsNext]_<<vars, recordVars>>
    PROVE  Times'
<1> USE DEF Times
<1> USE DEF ColumnsInv
<1>1. CASE Start
  BY <1>1, StartDoes DEF TypeOK, NoPage, ColumnTypes, Row
<1>2. ASSUME NEW list \in Lists, NEW softDelete \in BOOLEAN, Save(list, softDelete)
      PROVE  Times'
  BY <1>2, SaveDoes
<1>3. CASE UpsertRows
  <2>1. FormatStamp <= job
    BY DEF FormatStamp, TypeOK, ColumnTypes
  <2>2. \A k \in Keys : row'[k].updated <= job /\ row'[k].created <= job
    BY <1>3, <2>1, UpsertDoes DEF TypeOK
  <2> QED BY <1>3, <2>2, UpsertDoes
<1>4. CASE SyncUpdateAtForChangedRecords
  BY <1>4, ChangedDoes DEF TypeOK
<1>5. CASE SyncCreatedAtForAddedRecords
  BY <1>5, AddedDoes DEF TypeOK
<1>6. CASE UpdateSyncJobResult
  BY <1>6, CountDoes
<1>7. CASE Finish
  BY <1>7, FinishDoes
<1>8. CASE ClearOldRows
  BY <1>8, ClearDoes DEF NoRow, TypeOK, ColumnTypes, Row
<1>9. CASE InsertDeletedRows
  BY <1>9, InsertDoes
<1>10. CASE SyncUpdateAtForDeletedRecords
  BY <1>10, DeletedDoes DEF TypeOK
<1>11. CASE DropSnapshotRows
  BY <1>11, DropDoes DEF NoRow, TypeOK, ColumnTypes
<1>12. CASE TakeSnapshotRows
  BY <1>12, TakeDoes DEF NoRow, TypeOK, ColumnTypes
<1>13. ASSUME NEW list \in Lists, ReturnResults(list)
      PROVE  Times'
  BY <1>13, ReturnDoes
<1>14. CASE StoreResultRows
  BY <1>14, StoreDoes DEF FormatStamp, TypeOK, ColumnTypes
<1>15. CASE Report
  BY <1>15, ReportDoes DEF QueryTimeStamp, TypeOK, ColumnTypes
<1>16. CASE LoseReport
  BY <1>16, LoseReportDoes
<1>17. CASE FailSnapshot \/ CutRun
  BY <1>17, CutDoes DEF TypeOK, ColumnTypes
<1>18. CASE StartReading
  BY <1>18, StartReadingDoes
<1>19. CASE ReadPage
  BY <1>19, ReadPageDoes DEF NoPage
<1>20. CASE UNCHANGED <<vars, recordVars>>
  BY <1>20 DEF vars, tables, snapshotTable, history, recordVars, columns, customer
<1> QED BY <1>1, <1>2, <1>3, <1>4, <1>5, <1>6, <1>7, <1>8, <1>9, <1>10, <1>11, <1>12, <1>13,
       <1>14, <1>15, <1>16, <1>17, <1>18, <1>19, <1>20 DEF RecordsNext

LEMMA NextSteps ==
    ASSUME ColumnsInv, TypeOK', [RecordsNext]_<<vars, recordVars>>
    PROVE  Steps'
<1> USE DEF Steps
<1> USE DEF ColumnsInv
<1>1. CASE Start
  BY <1>1, StartDoes
<1>2. ASSUME NEW list \in Lists, NEW softDelete \in BOOLEAN, Save(list, softDelete)
      PROVE  Steps'
  BY <1>2, SaveDoes
<1>3. CASE UpsertRows
  BY <1>3, UpsertDoes
<1>4. CASE SyncUpdateAtForChangedRecords
  BY <1>4, ChangedDoes
<1>5. CASE SyncCreatedAtForAddedRecords
  BY <1>5, AddedDoes
<1>6. CASE UpdateSyncJobResult
  BY <1>6, CountDoes
<1>7. CASE Finish
  BY <1>7, FinishDoes
<1>8. CASE ClearOldRows
  BY <1>8, ClearDoes
<1>9. CASE InsertDeletedRows
  BY <1>9, InsertDoes
<1>10. CASE SyncUpdateAtForDeletedRecords
  BY <1>10, DeletedDoes
<1>11. CASE DropSnapshotRows
  BY <1>11, DropDoes
<1>12. CASE TakeSnapshotRows
  BY <1>12, TakeDoes
<1>13. ASSUME NEW list \in Lists, ReturnResults(list)
      PROVE  Steps'
  BY <1>13, ReturnDoes
<1>14. CASE StoreResultRows
  BY <1>14, StoreDoes
<1>15. CASE Report
  BY <1>15, ReportDoes
<1>16. CASE LoseReport
  BY <1>16, LoseReportDoes
<1>17. CASE FailSnapshot \/ CutRun
  BY <1>17, CutDoes
<1>18. CASE StartReading
  BY <1>18, StartReadingDoes
<1>19. CASE ReadPage
  BY <1>19, ReadPageDoes
<1>20. CASE UNCHANGED <<vars, recordVars>>
  BY <1>20 DEF vars, tables, snapshotTable, history, recordVars, columns, customer
<1> QED BY <1>1, <1>2, <1>3, <1>4, <1>5, <1>6, <1>7, <1>8, <1>9, <1>10, <1>11, <1>12, <1>13,
       <1>14, <1>15, <1>16, <1>17, <1>18, <1>19, <1>20 DEF RecordsNext

LEMMA NextPunctual ==
    ASSUME ColumnsInv, TypeOK', [RecordsNext]_<<vars, recordVars>>
    PROVE  Punctual'
<1> USE DEF Active, Punctual
<1> USE DEF ColumnsInv
<1>1. CASE Start
  BY <1>1, StartDoes
<1>2. ASSUME NEW list \in Lists, NEW softDelete \in BOOLEAN, Save(list, softDelete)
      PROVE  Punctual'
  BY <1>2, SaveDoes
<1>3. CASE UpsertRows
  BY <1>3, UpsertDoes
<1>4. CASE SyncUpdateAtForChangedRecords
  BY <1>4, ChangedDoes
<1>5. CASE SyncCreatedAtForAddedRecords
  BY <1>5, AddedDoes
<1>6. CASE UpdateSyncJobResult
  BY <1>6, CountDoes
<1>7. CASE Finish
  BY <1>7, FinishDoes
<1>8. CASE ClearOldRows
  BY <1>8, ClearDoes
<1>9. CASE InsertDeletedRows
  BY <1>9, InsertDoes
<1>10. CASE SyncUpdateAtForDeletedRecords
  BY <1>10, DeletedDoes
<1>11. CASE DropSnapshotRows
  BY <1>11, DropDoes
<1>12. CASE TakeSnapshotRows
  BY <1>12, TakeDoes DEF Steps
<1>13. ASSUME NEW list \in Lists, ReturnResults(list)
      PROVE  Punctual'
  BY <1>13, ReturnDoes
<1>14. CASE StoreResultRows
  BY <1>14, StoreDoes
<1>15. CASE Report
  BY <1>15, ReportDoes DEF Steps
<1>16. CASE LoseReport
  BY <1>16, LoseReportDoes DEF Steps
<1>17. CASE FailSnapshot \/ CutRun
  BY <1>17, CutDoes DEF Steps
<1>18. CASE StartReading
  BY <1>18, StartReadingDoes DEF NoPage
<1>19. CASE ReadPage
  BY <1>19, ReadPageDoes DEF NoPage
<1>20. CASE UNCHANGED <<vars, recordVars>>
  BY <1>20 DEF vars, tables, snapshotTable, history, recordVars, columns, customer
<1> QED BY <1>1, <1>2, <1>3, <1>4, <1>5, <1>6, <1>7, <1>8, <1>9, <1>10, <1>11, <1>12, <1>13,
       <1>14, <1>15, <1>16, <1>17, <1>18, <1>19, <1>20 DEF RecordsNext

LEMMA NextFilled ==
    ASSUME RunInv, ColumnsInv, Filled, [RecordsNext]_<<vars, recordVars>>
    PROVE  Filled'
<1> USE DEF Filled, TypeOK
<1> USE DEF ColumnsInv
<1>1. CASE Start
  BY <1>1, StartDoes
<1>2. ASSUME NEW list \in Lists, NEW softDelete \in BOOLEAN, Save(list, softDelete)
      PROVE  Filled'
  BY <1>2, SaveDoes
<1>3. CASE UpsertRows
  BY <1>3, UpsertDoes
<1>4. CASE SyncUpdateAtForChangedRecords
  BY <1>4, ChangedDoes
<1>5. CASE SyncCreatedAtForAddedRecords
  BY <1>5, AddedDoes
<1>6. CASE UpdateSyncJobResult
  BY <1>6, CountDoes
<1>7. CASE Finish
  BY <1>7, FinishDoes DEF Steps
<1>8. CASE ClearOldRows
  BY <1>8, ClearDoes
<1>9. CASE InsertDeletedRows
  BY <1>9, InsertDoes DEF RunInv, TouchedIsCurrent
<1>10. CASE SyncUpdateAtForDeletedRecords
  BY <1>10, DeletedDoes
<1>11. CASE DropSnapshotRows
  BY <1>11, DropDoes
<1>12. CASE TakeSnapshotRows
  BY <1>12, TakeDoes
<1>13. ASSUME NEW list \in Lists, ReturnResults(list)
      PROVE  Filled'
  BY <1>13, ReturnDoes
<1>14. CASE StoreResultRows
  BY <1>14, StoreDoes
<1>15. CASE Report
  BY <1>15, ReportDoes
<1>16. CASE LoseReport
  BY <1>16, LoseReportDoes
<1>17. CASE FailSnapshot \/ CutRun
  BY <1>17, CutDoes
<1>18. CASE StartReading
  BY <1>18, StartReadingDoes
<1>19. CASE ReadPage
  BY <1>19, ReadPageDoes
<1>20. CASE UNCHANGED <<vars, recordVars>>
  BY <1>20 DEF vars, tables, snapshotTable, history, recordVars, columns, customer
<1> QED BY <1>1, <1>2, <1>3, <1>4, <1>5, <1>6, <1>7, <1>8, <1>9, <1>10, <1>11, <1>12, <1>13,
       <1>14, <1>15, <1>16, <1>17, <1>18, <1>19, <1>20 DEF RecordsNext

LEMMA ColumnsInvariant == RecordsSpec => []ColumnsInv
<1>1. RecordsInit => ColumnsInv
  <2> SUFFICES ASSUME RecordsInit PROVE ColumnsInv
    OBVIOUS
  <2>1. TypeOK
    BY InitTypeOK DEF RecordsInit
  <2>2. ColumnTypes
    BY NoRowType DEF RecordsInit, ColumnTypes
  <2>3. Times /\ Steps /\ Punctual
    BY DEF RecordsInit, Init, Times, Steps, Punctual, Active, NoRow, NoPage
  <2> QED BY <2>1, <2>2, <2>3 DEF ColumnsInv
<1>2. ColumnsInv /\ [RecordsNext]_<<vars, recordVars>> => ColumnsInv'
  <2> SUFFICES ASSUME ColumnsInv, [RecordsNext]_<<vars, recordVars>> PROVE ColumnsInv'
    OBVIOUS
  <2>1. TypeOK'
    BY NextTypeOK, NextRefines DEF ColumnsInv
  <2>2. ColumnTypes'
    BY NextColumnTypes DEF ColumnsInv
  <2> QED BY <2>1, <2>2, NextTimes, NextSteps, NextPunctual DEF ColumnsInv
<1> QED BY <1>1, <1>2, PTL DEF RecordsSpec

LEMMA FilledInvariant == RecordsSpec => []Filled
<1>1. RecordsInit => Filled
  BY DEF RecordsInit, Init, Filled
<1>2. RunInv /\ ColumnsInv /\ Filled /\ [RecordsNext]_<<vars, recordVars>> => Filled'
  BY NextFilled
<1>3. RecordsSpec => []RunInv
  BY RecordsRefineDeleteTracking, RunInvariant, PTL
<1> QED BY <1>1, <1>2, <1>3, ColumnsInvariant, PTL DEF RecordsSpec

(***************************************************************************)
(* The customer is up to date.  The snapshot is what the customer had when *)
(* the run began; what the run changes is stamped with the time of the run *)
(* and counted, so that the webhook is sent and the delta brings it; and   *)
(* what a page has not brought, a later one will.                          *)
(***************************************************************************)

\* What the snapshot says of k.
Was(k) == IF k \in snapshot THEN snapRow[k].content ELSE Gone

\* The histories that CustomerIsUpToDate is about.
Fair ==
    /\ irregular \cap {"cut", "results"} = {}
    /\ odd \cap {"unsent", "unstamped", "torn"} = {}
    /\ "late" \in odd => "batchDelete" \notin irregular /\ "again" \notin odd
    /\ page.quiet

BeforeClearing == {"script", "select", "mark", "upsert", "clear"}
BeforeDropping == BeforeClearing \union {"find", "insert", "drop"}

\* The snapshot is a picture of the records when a run begins.
Pictured ==
    /\ pc # "store"
    /\ pc = "idle" => \A k \in Keys : Shown(k) = Was(k)
    /\ pc = "insert" => gone = snapshot \ present

\* A call of upsert has been compared with the snapshot.
CallFits ==
    pc \in {"select", "mark", "upsert"} =>
        /\ summary.added = call.records \ snapshot
        /\ summary.updated = {k \in call.records \cap snapshot : snapRow[k].content # batch[k]}
        /\ "again" \notin odd => call.records \cap (returned \union flagged) = {}

\* What the run has not touched is as it was.
Untouched ==
    \A k \in Keys \ (returned \union flagged) :
        pc \in BeforeClearing \/ (pc \in {"find", "insert"} /\ k \in present) => Shown(k) = Was(k)

\* What it has changed is stamped, or will be, and counted.
ToBeStamped(k) ==
    \/ step = "changed" /\ k \in summary.updated \union summary.added
    \/ step = "added" /\ k \in summary.added
    \/ step = "deleted" /\ k \in summary.deleted
Counted == result # NoResult \/ (pc \notin {"select", "mark", "upsert"} /\ summary # NoSummary)
Marked(k) == k \in present /\ (row[k].updated = job \/ ToBeStamped(k)) /\ Counted
ToBePutBack(k) == pc \in {"find", "insert"} /\ k \in snapshot \ present
ChangesMarked ==
    pc \in BeforeDropping => \A k \in Keys : Shown(k) # Was(k) => Marked(k) \/ ToBePutBack(k)

\* What the customer lacks is among the rows that the delta, or the rest of the page,
\* will bring, or it is a change of this run.
Behind(k) == mirror[k] # Shown(k)
Awaited(k) == due # NoDelta /\ k \in present /\ row[k].updated >= due
OnPage(k) == page # NoPage /\ k \in Since(page.delta) /\ Place(Since(page.delta), k) >= page.offset
Alone == page # NoPage => ~Active /\ due = NoDelta
AtRest == ~Active => \A k \in Keys : Behind(k) => Awaited(k) \/ OnPage(k)
InRun == pc \in BeforeDropping => \A k \in Keys : Behind(k) => Awaited(k) \/ Shown(k) # Was(k)
OnTime == pc \in BeforeDropping /\ "late" \notin odd => \A k \in Keys : mirror[k] = Was(k)
AtEnd == pc = "take" \/ step = "report" => \A k \in Keys : Behind(k) => Awaited(k) \/ Marked(k)

FairInv == Fair => /\ Pictured /\ CallFits /\ Untouched /\ ChangesMarked
                   /\ Alone /\ AtRest /\ InRun /\ OnTime /\ AtEnd

\* A history once unfair stays so.
LEMMA FairBefore ==
    ASSUME ColumnsInv, Fair', [RecordsNext]_<<vars, recordVars>>
    PROVE  Fair
<1> USE DEF ColumnsInv
<1>1. CASE Start
  BY <1>1, StartDoes DEF Fair
<1>2. ASSUME NEW list \in Lists, NEW softDelete \in BOOLEAN, Save(list, softDelete)
      PROVE  Fair
  BY <1>2, SaveDoes DEF Fair
<1>3. CASE UpsertRows
  BY <1>3, UpsertDoes DEF Fair
<1>4. CASE SyncUpdateAtForChangedRecords
  BY <1>4, ChangedDoes DEF Fair
<1>5. CASE SyncCreatedAtForAddedRecords
  BY <1>5, AddedDoes DEF Fair
<1>6. CASE UpdateSyncJobResult
  BY <1>6, CountDoes DEF Fair
<1>7. CASE Finish
  BY <1>7, FinishDoes DEF Fair
<1>8. CASE ClearOldRows
  BY <1>8, ClearDoes DEF Fair
<1>9. CASE InsertDeletedRows
  BY <1>9, InsertDoes DEF Fair
<1>10. CASE SyncUpdateAtForDeletedRecords
  BY <1>10, DeletedDoes DEF Fair
<1>11. CASE DropSnapshotRows
  BY <1>11, DropDoes DEF Fair
<1>12. CASE TakeSnapshotRows
  BY <1>12, TakeDoes DEF Fair
<1>13. ASSUME NEW list \in Lists, ReturnResults(list)
      PROVE  Fair
  BY <1>13, ReturnDoes DEF Fair
<1>14. CASE StoreResultRows
  BY <1>14, StoreDoes DEF Fair
<1>15. CASE Report
  BY <1>15, ReportDoes DEF Fair
<1>16. CASE LoseReport
  BY <1>16, LoseReportDoes DEF Fair
<1>17. CASE FailSnapshot \/ CutRun
  BY <1>17, CutDoes DEF Fair
<1>18. CASE StartReading
  BY <1>18, StartReadingDoes DEF Fair, NoPage
<1>19. CASE ReadPage
  BY <1>19, ReadPageDoes DEF Fair
<1>20. CASE UNCHANGED <<vars, recordVars>>
  BY <1>20 DEF Fair, vars, tables, snapshotTable, history, recordVars, columns, customer
<1> QED BY <1>1, <1>2, <1>3, <1>4, <1>5, <1>6, <1>7, <1>8, <1>9, <1>10, <1>11, <1>12, <1>13,
       <1>14, <1>15, <1>16, <1>17, <1>18, <1>19, <1>20 DEF RecordsNext

LEMMA NextPictured ==
    ASSUME RunInv, UncutInv, ColumnsInv, ColumnsInv', Filled, Filled', FairInv, Fair',
           [RecordsNext]_<<vars, recordVars>>
    PROVE  Pictured'
<1> USE DEF Shown, Pictured, Live, Was
<1> USE DEF ColumnsInv
<1>0. Fair /\ Pictured /\ CallFits /\ Untouched /\ ChangesMarked /\ Alone /\ AtRest /\ InRun /\ OnTime /\ AtEnd
  BY FairBefore DEF FairInv
<1>1. CASE Start
  BY <1>1, StartDoes, <1>0
<1>2. ASSUME NEW list \in Lists, NEW softDelete \in BOOLEAN, Save(list, softDelete)
      PROVE  Pictured'
  BY <1>2, SaveDoes, <1>0
<1>3. CASE UpsertRows
  BY <1>3, UpsertDoes, <1>0
<1>4. CASE SyncUpdateAtForChangedRecords
  BY <1>4, ChangedDoes, <1>0
<1>5. CASE SyncCreatedAtForAddedRecords
  BY <1>5, AddedDoes, <1>0
<1>6. CASE UpdateSyncJobResult
  BY <1>6, CountDoes, <1>0
<1>7. CASE Finish
  BY <1>7, FinishDoes, <1>0
<1>8. CASE ClearOldRows
  BY <1>8, ClearDoes, <1>0
<1>9. CASE InsertDeletedRows
  BY <1>9, InsertDoes, <1>0
<1>10. CASE SyncUpdateAtForDeletedRecords
  BY <1>10, DeletedDoes, <1>0
<1>11. CASE DropSnapshotRows
  BY <1>11, DropDoes, <1>0
<1>12. CASE TakeSnapshotRows
  BY <1>12, TakeDoes, <1>0 DEF TypeOK
<1>13. ASSUME NEW list \in Lists, ReturnResults(list)
      PROVE  Pictured'
  BY <1>13, ReturnDoes, <1>0 DEF Fair
<1>14. CASE StoreResultRows
  BY <1>14, StoreDoes, <1>0
<1>15. CASE Report
  BY <1>15, ReportDoes, <1>0
<1>16. CASE LoseReport
  BY <1>16, LoseReportDoes, <1>0
<1>17. CASE FailSnapshot \/ CutRun
  BY <1>17, CutDoes, <1>0 DEF Fair
<1>18. CASE StartReading
  BY <1>18, StartReadingDoes, <1>0
<1>19. CASE ReadPage
  BY <1>19, ReadPageDoes, <1>0
<1>20. CASE UNCHANGED <<vars, recordVars>>
  BY <1>20, <1>0 DEF vars, tables, snapshotTable, history, recordVars, columns, customer
<1> QED BY <1>1, <1>2, <1>3, <1>4, <1>5, <1>6, <1>7, <1>8, <1>9, <1>10, <1>11, <1>12, <1>13,
       <1>14, <1>15, <1>16, <1>17, <1>18, <1>19, <1>20 DEF RecordsNext

LEMMA NextCallFits ==
    ASSUME RunInv, UncutInv, ColumnsInv, ColumnsInv', Filled, Filled', FairInv, Fair',
           [RecordsNext]_<<vars, recordVars>>
    PROVE  CallFits'
<1> USE DEF CallFits
<1> USE DEF ColumnsInv
<1>0. Fair /\ Pictured /\ CallFits /\ Untouched /\ ChangesMarked /\ Alone /\ AtRest /\ InRun /\ OnTime /\ AtEnd
  BY FairBefore DEF FairInv
<1>1. CASE Start
  BY <1>1, StartDoes, <1>0
<1>2. ASSUME NEW list \in Lists, NEW softDelete \in BOOLEAN, Save(list, softDelete)
      PROVE  CallFits'
  BY <1>2, SaveDoes, <1>0
<1>3. CASE UpsertRows
  BY <1>3, UpsertDoes, <1>0
<1>4. CASE SyncUpdateAtForChangedRecords
  BY <1>4, ChangedDoes, <1>0
<1>5. CASE SyncCreatedAtForAddedRecords
  BY <1>5, AddedDoes, <1>0
<1>6. CASE UpdateSyncJobResult
  BY <1>6, CountDoes, <1>0
<1>7. CASE Finish
  BY <1>7, FinishDoes, <1>0
<1>8. CASE ClearOldRows
  BY <1>8, ClearDoes, <1>0
<1>9. CASE InsertDeletedRows
  BY <1>9, InsertDoes, <1>0
<1>10. CASE SyncUpdateAtForDeletedRecords
  BY <1>10, DeletedDoes, <1>0
<1>11. CASE DropSnapshotRows
  BY <1>11, DropDoes, <1>0
<1>12. CASE TakeSnapshotRows
  BY <1>12, TakeDoes, <1>0
<1>13. ASSUME NEW list \in Lists, ReturnResults(list)
      PROVE  CallFits'
  BY <1>13, ReturnDoes, <1>0
<1>14. CASE StoreResultRows
  BY <1>14, StoreDoes, <1>0
<1>15. CASE Report
  BY <1>15, ReportDoes, <1>0
<1>16. CASE LoseReport
  BY <1>16, LoseReportDoes, <1>0
<1>17. CASE FailSnapshot \/ CutRun
  BY <1>17, CutDoes, <1>0
<1>18. CASE StartReading
  BY <1>18, StartReadingDoes, <1>0
<1>19. CASE ReadPage
  BY <1>19, ReadPageDoes, <1>0
<1>20. CASE UNCHANGED <<vars, recordVars>>
  BY <1>20, <1>0 DEF vars, tables, snapshotTable, history, recordVars, columns, customer
<1> QED BY <1>1, <1>2, <1>3, <1>4, <1>5, <1>6, <1>7, <1>8, <1>9, <1>10, <1>11, <1>12, <1>13,
       <1>14, <1>15, <1>16, <1>17, <1>18, <1>19, <1>20 DEF RecordsNext

LEMMA NextUntouched ==
    ASSUME RunInv, UncutInv, ColumnsInv, ColumnsInv', Filled, Filled', FairInv, Fair',
           [RecordsNext]_<<vars, recordVars>>
    PROVE  Untouched'
<1> USE DEF Shown, BeforeClearing, Was, Untouched, Live
<1> USE DEF ColumnsInv
<1>0. Fair /\ Pictured /\ CallFits /\ Untouched /\ ChangesMarked /\ Alone /\ AtRest /\ InRun /\ OnTime /\ AtEnd
  BY FairBefore DEF FairInv
<1>1. CASE Start
  BY <1>1, StartDoes, <1>0 DEF Pictured
<1>2. ASSUME NEW list \in Lists, NEW softDelete \in BOOLEAN, Save(list, softDelete)
      PROVE  Untouched'
  BY <1>2, SaveDoes, <1>0
<1>3. CASE UpsertRows
  BY <1>3, UpsertDoes, <1>0
<1>4. CASE SyncUpdateAtForChangedRecords
  BY <1>4, ChangedDoes, <1>0
<1>5. CASE SyncCreatedAtForAddedRecords
  BY <1>5, AddedDoes, <1>0
<1>6. CASE UpdateSyncJobResult
  BY <1>6, CountDoes, <1>0
<1>7. CASE Finish
  BY <1>7, FinishDoes, <1>0
<1>8. CASE ClearOldRows
  BY <1>8, ClearDoes, <1>0
<1>9. CASE InsertDeletedRows
  BY <1>9, InsertDoes, <1>0
<1>10. CASE SyncUpdateAtForDeletedRecords
  BY <1>10, DeletedDoes, <1>0
<1>11. CASE DropSnapshotRows
  BY <1>11, DropDoes, <1>0
<1>12. CASE TakeSnapshotRows
  BY <1>12, TakeDoes, <1>0
<1>13. ASSUME NEW list \in Lists, ReturnResults(list)
      PROVE  Untouched'
  BY <1>13, ReturnDoes, <1>0 DEF Fair
<1>14. CASE StoreResultRows
  BY <1>14, StoreDoes, <1>0 DEF Pictured
<1>15. CASE Report
  BY <1>15, ReportDoes, <1>0
<1>16. CASE LoseReport
  BY <1>16, LoseReportDoes, <1>0
<1>17. CASE FailSnapshot \/ CutRun
  BY <1>17, CutDoes, <1>0 DEF Fair
<1>18. CASE StartReading
  BY <1>18, StartReadingDoes, <1>0
<1>19. CASE ReadPage
  BY <1>19, ReadPageDoes, <1>0
<1>20. CASE UNCHANGED <<vars, recordVars>>
  BY <1>20, <1>0 DEF vars, tables, snapshotTable, history, recordVars, columns, customer
<1> QED BY <1>1, <1>2, <1>3, <1>4, <1>5, <1>6, <1>7, <1>8, <1>9, <1>10, <1>11, <1>12, <1>13,
       <1>14, <1>15, <1>16, <1>17, <1>18, <1>19, <1>20 DEF RecordsNext

LEMMA NextChangesMarked ==
    ASSUME RunInv, UncutInv, ColumnsInv, ColumnsInv', Filled, Filled', FairInv, Fair',
           [RecordsNext]_<<vars, recordVars>>
    PROVE  ChangesMarked'
<1> USE DEF Counted, Shown, BeforeClearing, ChangesMarked, ToBePutBack, Was, Marked,
        BeforeDropping, ToBeStamped, Live
<1> USE DEF ColumnsInv
<1>0. Fair /\ Pictured /\ CallFits /\ Untouched /\ ChangesMarked /\ Alone /\ AtRest /\ InRun /\ OnTime /\ AtEnd
  BY FairBefore DEF FairInv
<1>1. CASE Start
  BY <1>1, StartDoes, <1>0 DEF Pictured
<1>2. ASSUME NEW list \in Lists, NEW softDelete \in BOOLEAN, Save(list, softDelete)
      PROVE  ChangesMarked'
  BY <1>2, SaveDoes, <1>0 DEF Steps
<1>3. CASE UpsertRows
  BY <1>3, UpsertDoes, <1>0 DEF CallFits, NoSummary, Fair, ColumnTypes, TypeOK, Steps
<1>4. CASE SyncUpdateAtForChangedRecords
  BY <1>4, ChangedDoes, <1>0
<1>5. CASE SyncCreatedAtForAddedRecords
  BY <1>5, AddedDoes, <1>0
<1>6. CASE UpdateSyncJobResult
  BY <1>6, CountDoes, <1>0, IncreasedIs
<1>7. CASE Finish
  BY <1>7, FinishDoes, <1>0 DEF Steps
<1>8. CASE ClearOldRows
  BY <1>8, ClearDoes, <1>0 DEF RunInv, TouchedIsCurrent, Current, Untouched, TypeOK
<1>9. CASE InsertDeletedRows
  BY <1>9, InsertDoes, <1>0 DEF Pictured, Steps, NoSummary, TypeOK
<1>10. CASE SyncUpdateAtForDeletedRecords
  BY <1>10, DeletedDoes, <1>0
<1>11. CASE DropSnapshotRows
  BY <1>11, DropDoes, <1>0
<1>12. CASE TakeSnapshotRows
  BY <1>12, TakeDoes, <1>0
<1>13. ASSUME NEW list \in Lists, ReturnResults(list)
      PROVE  ChangesMarked'
  BY <1>13, ReturnDoes, <1>0 DEF Fair
<1>14. CASE StoreResultRows
  BY <1>14, StoreDoes, <1>0 DEF Pictured
<1>15. CASE Report
  BY <1>15, ReportDoes, <1>0
<1>16. CASE LoseReport
  BY <1>16, LoseReportDoes, <1>0
<1>17. CASE FailSnapshot \/ CutRun
  BY <1>17, CutDoes, <1>0 DEF Fair
<1>18. CASE StartReading
  BY <1>18, StartReadingDoes, <1>0
<1>19. CASE ReadPage
  BY <1>19, ReadPageDoes, <1>0
<1>20. CASE UNCHANGED <<vars, recordVars>>
  BY <1>20, <1>0 DEF vars, tables, snapshotTable, history, recordVars, columns, customer
<1> QED BY <1>1, <1>2, <1>3, <1>4, <1>5, <1>6, <1>7, <1>8, <1>9, <1>10, <1>11, <1>12, <1>13,
       <1>14, <1>15, <1>16, <1>17, <1>18, <1>19, <1>20 DEF RecordsNext

LEMMA NextAlone ==
    ASSUME RunInv, UncutInv, ColumnsInv, ColumnsInv', Filled, Filled', FairInv, Fair',
           [RecordsNext]_<<vars, recordVars>>
    PROVE  Alone'
<1> USE DEF Active, Alone
<1> USE DEF ColumnsInv
<1>0. Fair /\ Pictured /\ CallFits /\ Untouched /\ ChangesMarked /\ Alone /\ AtRest /\ InRun /\ OnTime /\ AtEnd
  BY FairBefore DEF FairInv
<1>1. CASE Start
  BY <1>1, StartDoes, <1>0 DEF Fair, NoPage
<1>2. ASSUME NEW list \in Lists, NEW softDelete \in BOOLEAN, Save(list, softDelete)
      PROVE  Alone'
  BY <1>2, SaveDoes, <1>0
<1>3. CASE UpsertRows
  BY <1>3, UpsertDoes, <1>0
<1>4. CASE SyncUpdateAtForChangedRecords
  BY <1>4, ChangedDoes, <1>0
<1>5. CASE SyncCreatedAtForAddedRecords
  BY <1>5, AddedDoes, <1>0
<1>6. CASE UpdateSyncJobResult
  BY <1>6, CountDoes, <1>0
<1>7. CASE Finish
  BY <1>7, FinishDoes, <1>0
<1>8. CASE ClearOldRows
  BY <1>8, ClearDoes, <1>0
<1>9. CASE InsertDeletedRows
  BY <1>9, InsertDoes, <1>0
<1>10. CASE SyncUpdateAtForDeletedRecords
  BY <1>10, DeletedDoes, <1>0
<1>11. CASE DropSnapshotRows
  BY <1>11, DropDoes, <1>0
<1>12. CASE TakeSnapshotRows
  BY <1>12, TakeDoes, <1>0
<1>13. ASSUME NEW list \in Lists, ReturnResults(list)
      PROVE  Alone'
  BY <1>13, ReturnDoes, <1>0 DEF Fair
<1>14. CASE StoreResultRows
  BY <1>14, StoreDoes, <1>0 DEF Pictured
<1>15. CASE Report
  BY <1>15, ReportDoes, <1>0
<1>16. CASE LoseReport
  BY <1>16, LoseReportDoes, <1>0 DEF Fair
<1>17. CASE FailSnapshot \/ CutRun
  BY <1>17, CutDoes, <1>0
<1>18. CASE StartReading
  BY <1>18, StartReadingDoes, <1>0 DEF Fair
<1>19. CASE ReadPage
  BY <1>19, ReadPageDoes, <1>0 DEF Fair
<1>20. CASE UNCHANGED <<vars, recordVars>>
  BY <1>20, <1>0 DEF vars, tables, snapshotTable, history, recordVars, columns, customer
<1> QED BY <1>1, <1>2, <1>3, <1>4, <1>5, <1>6, <1>7, <1>8, <1>9, <1>10, <1>11, <1>12, <1>13,
       <1>14, <1>15, <1>16, <1>17, <1>18, <1>19, <1>20 DEF RecordsNext

LEMMA NextOnTime ==
    ASSUME RunInv, UncutInv, ColumnsInv, ColumnsInv', Filled, Filled', FairInv, Fair',
           [RecordsNext]_<<vars, recordVars>>
    PROVE  OnTime'
<1> USE DEF Shown, BeforeClearing, Was, OnTime, BeforeDropping, Live
<1> USE DEF ColumnsInv
<1>0. Fair /\ Pictured /\ CallFits /\ Untouched /\ ChangesMarked /\ Alone /\ AtRest /\ InRun /\ OnTime /\ AtEnd
  BY FairBefore DEF FairInv
<1>1. CASE Start
  BY <1>1, StartDoes, <1>0 DEF AtRest, Behind, Awaited, OnPage, Active, Pictured, ColumnTypes
<1>2. ASSUME NEW list \in Lists, NEW softDelete \in BOOLEAN, Save(list, softDelete)
      PROVE  OnTime'
  BY <1>2, SaveDoes, <1>0
<1>3. CASE UpsertRows
  BY <1>3, UpsertDoes, <1>0
<1>4. CASE SyncUpdateAtForChangedRecords
  BY <1>4, ChangedDoes, <1>0
<1>5. CASE SyncCreatedAtForAddedRecords
  BY <1>5, AddedDoes, <1>0
<1>6. CASE UpdateSyncJobResult
  BY <1>6, CountDoes, <1>0
<1>7. CASE Finish
  BY <1>7, FinishDoes, <1>0
<1>8. CASE ClearOldRows
  BY <1>8, ClearDoes, <1>0
<1>9. CASE InsertDeletedRows
  BY <1>9, InsertDoes, <1>0
<1>10. CASE SyncUpdateAtForDeletedRecords
  BY <1>10, DeletedDoes, <1>0
<1>11. CASE DropSnapshotRows
  BY <1>11, DropDoes, <1>0
<1>12. CASE TakeSnapshotRows
  BY <1>12, TakeDoes, <1>0
<1>13. ASSUME NEW list \in Lists, ReturnResults(list)
      PROVE  OnTime'
  BY <1>13, ReturnDoes, <1>0 DEF Fair
<1>14. CASE StoreResultRows
  BY <1>14, StoreDoes, <1>0 DEF Pictured
<1>15. CASE Report
  BY <1>15, ReportDoes, <1>0
<1>16. CASE LoseReport
  BY <1>16, LoseReportDoes, <1>0 DEF Fair
<1>17. CASE FailSnapshot \/ CutRun
  BY <1>17, CutDoes, <1>0 DEF Fair
<1>18. CASE StartReading
  BY <1>18, StartReadingDoes, <1>0 DEF Punctual, Active
<1>19. CASE ReadPage
  BY <1>19, ReadPageDoes, <1>0 DEF Fair, Active
<1>20. CASE UNCHANGED <<vars, recordVars>>
  BY <1>20, <1>0 DEF vars, tables, snapshotTable, history, recordVars, columns, customer
<1> QED BY <1>1, <1>2, <1>3, <1>4, <1>5, <1>6, <1>7, <1>8, <1>9, <1>10, <1>11, <1>12, <1>13,
       <1>14, <1>15, <1>16, <1>17, <1>18, <1>19, <1>20 DEF RecordsNext

LEMMA AwaitedStays ==
    ASSUME ColumnsInv, ColumnsInv', NEW k \in Keys, Awaited(k), due' = due, k \in present',
           row'[k].updated \in {row[k].updated, job, FormatStamp}
    PROVE  Awaited(k)'
<1>1. due \in Int /\ cursor \in Nat /\ job \in Nat /\ due <= cursor /\ cursor <= job
  BY DEF ColumnsInv, ColumnTypes, TypeOK, Times, Awaited
<1>2. row[k].updated >= due /\ job >= due /\ FormatStamp >= due
  BY <1>1 DEF Awaited, FormatStamp
<1> QED BY <1>2 DEF Awaited

\* A customer who reads during a run and remains fair has read everything.
LEMMA ReadAtOnce ==
    ASSUME ColumnsInv, StartReading, Active, Fair'
    PROVE  \A k \in Keys : mirror'[k] = IF Awaited(k) THEN Shown(k) ELSE mirror[k]
<1> USE DEF ColumnsInv
<1>1. due # NoDelta /\ \A k \in Since(due) : Place(Since(due), k) < PageSize
  BY StartReadingDoes DEF Fair
<1>2. Since(due) \in SUBSET Keys /\ \A k \in Keys : k \in Since(due) <=> Awaited(k)
  BY <1>1 DEF Since, Awaited, TypeOK
<1>3. \A k \in Since(due) : Place(Since(due), k) \in 0..(0 + PageSize - 1)
  BY <1>1, <1>2, PlaceNat, PageSizeAssumption
<1>4. \A k \in Keys : k \in Page(Since(due), 0) <=> Awaited(k)
  BY <1>2, <1>3 DEF Page
<1> QED BY <1>4, StartReadingDoes

LEMMA NextInRun ==
    ASSUME RunInv, UncutInv, ColumnsInv, ColumnsInv', Filled, Filled', FairInv, Fair',
           [RecordsNext]_<<vars, recordVars>>
    PROVE  InRun'
<1> USE DEF ColumnsInv
<1>0. Fair /\ Pictured /\ CallFits /\ Untouched /\ ChangesMarked /\ Alone /\ AtRest /\ InRun /\ OnTime /\ AtEnd
  BY FairBefore DEF FairInv
<1>1. CASE Start
  <2>1. page = NoPage /\ due' = due
    BY <1>1, StartDoes DEF Fair
  <2>2. \A k \in Keys : Shown(k)' = Shown(k) /\ Awaited(k)' = Awaited(k) /\ mirror'[k] = mirror[k]
    BY <1>1, StartDoes DEF Shown, Live, Awaited
  <2>3. ~Active
    BY <1>1, StartDoes DEF Active
  <2> QED BY <1>0, <2>1, <2>2, <2>3 DEF InRun, AtRest, OnPage, Behind
<1>2. ASSUME NEW list \in Lists, NEW softDelete \in BOOLEAN, Save(list, softDelete)
      PROVE  InRun'
  BY <1>2, SaveDoes, <1>0 DEF InRun, BeforeDropping, BeforeClearing, Behind, Awaited, Shown, Live,
     Was
<1>3. CASE UpsertRows
  <2> SUFFICES ASSUME NEW k \in Keys, Behind(k)', ~(Shown(k) # Was(k))'
               PROVE  Awaited(k)'
    BY DEF InRun
  <2>1. /\ k \in present => k \in present'
        /\ row'[k].updated \in {row[k].updated, job, FormatStamp}
        /\ Was(k)' = Was(k) /\ due' = due /\ mirror' = mirror /\ pc \in BeforeDropping
    BY <1>3, UpsertDoes DEF Was, BeforeDropping, BeforeClearing
  <2>2. Awaited(k) => Awaited(k)'
    <3>1. Awaited(k) => k \in present'
      BY <2>1 DEF Awaited
    <3> QED BY <2>1, <3>1, AwaitedStays
  <2>3. CASE k \notin call.records
    <3>1. Shown(k)' = Shown(k)
      BY <1>3, UpsertDoes, <2>3 DEF Shown, Live
    <3> QED BY <1>0, <2>1, <2>2, <3>1 DEF InRun, Behind
  <2>4. CASE k \in call.records /\ "late" \notin odd
    BY <1>0, <2>1, <2>4 DEF OnTime, Behind
  <2>5. CASE k \in call.records /\ "late" \in odd
    <3>1. k \notin returned \union flagged
      BY <1>3, UpsertDoes, <1>0, <2>5 DEF Fair, CallFits
    <3>2. Shown(k) = Was(k)
      BY <1>3, UpsertDoes, <1>0, <3>1 DEF Untouched, BeforeClearing
    <3> QED BY <1>0, <2>1, <2>2, <3>2 DEF InRun, Behind
  <2> QED BY <2>3, <2>4, <2>5
<1>4. CASE SyncUpdateAtForChangedRecords
  <2> SUFFICES ASSUME pc' \in BeforeDropping, NEW k \in Keys, Behind(k)'
               PROVE  Awaited(k)' \/ (Shown(k) # Was(k))'
    BY DEF InRun
  <2>1. /\ k \in present' <=> k \in present
        /\ row'[k].updated \in {row[k].updated, job}
        /\ Shown(k)' = Shown(k) /\ Was(k)' = Was(k) /\ due' = due /\ pc' = pc /\ mirror' = mirror
    BY <1>4, ChangedDoes DEF Shown, Live, Was
  <2>2. Awaited(k) \/ Shown(k) # Was(k)
    BY <2>1, <1>0 DEF InRun, Behind
  <2>3. Awaited(k) => k \in present'
    BY <2>1 DEF Awaited
  <2> QED BY <2>1, <2>2, <2>3, AwaitedStays
<1>5. CASE SyncCreatedAtForAddedRecords
  <2> SUFFICES ASSUME pc' \in BeforeDropping, NEW k \in Keys, Behind(k)'
               PROVE  Awaited(k)' \/ (Shown(k) # Was(k))'
    BY DEF InRun
  <2>1. /\ k \in present' <=> k \in present
        /\ row'[k].updated \in {row[k].updated, job}
        /\ Shown(k)' = Shown(k) /\ Was(k)' = Was(k) /\ due' = due /\ pc' = pc /\ mirror' = mirror
    BY <1>5, AddedDoes DEF Shown, Live, Was
  <2>2. Awaited(k) \/ Shown(k) # Was(k)
    BY <2>1, <1>0 DEF InRun, Behind
  <2>3. Awaited(k) => k \in present'
    BY <2>1 DEF Awaited
  <2> QED BY <2>1, <2>2, <2>3, AwaitedStays
<1>6. CASE UpdateSyncJobResult
  BY <1>6, CountDoes, <1>0 DEF InRun, BeforeDropping, BeforeClearing, Behind, Awaited, Shown,
     Live, Was
<1>7. CASE Finish
  BY <1>7, FinishDoes, <1>0 DEF InRun, BeforeDropping, BeforeClearing, Behind, Awaited, Shown,
     Live, Was
<1>8. CASE ClearOldRows
  <2> SUFFICES ASSUME NEW k \in Keys, Behind(k)', ~(Shown(k) # Was(k))'
               PROVE  Awaited(k)'
    BY DEF InRun
  <2>1. /\ k \in present' <=> k \in present /\ k \notin pending
        /\ k \in present' => row'[k] = row[k] /\ Shown(k)' = Shown(k)
        /\ k \notin present' => Shown(k)' = Gone
        /\ Was(k)' = Was(k) /\ due' = due /\ mirror' = mirror /\ pc = "clear"
    BY <1>8, ClearDoes DEF Was, Shown, Live
  <2>2. CASE "late" \notin odd
    BY <1>0, <2>1, <2>2 DEF OnTime, Behind, BeforeDropping, BeforeClearing
  <2>3. CASE k \notin pending
    <3>1. Shown(k)' = Shown(k)
      BY <2>1, <2>3 DEF Shown, Live
    <3>2. Awaited(k)
      BY <1>0, <2>1, <3>1 DEF InRun, Behind, BeforeDropping, BeforeClearing
    <3> QED BY <2>1, <2>3, <3>2 DEF Awaited
  <2>4. CASE "late" \in odd /\ k \in pending
    <3>1. NeverCut
      BY <1>0, <2>4 DEF Fair, NeverCut, TypeOK, Irregularities
    <3>2. k \in snapshot /\ snapRow[k].content \in Contents
      BY <2>1, <2>4, <3>1 DEF UncutInv, SnapshotIsPicture, BeforeClear, Filled
    <3>3. Was(k) \in Contents
      BY <3>2 DEF Was
    <3> QED BY <2>1, <2>4, <3>3, ContentsAssumption DEF Gone
  <2> QED BY <2>2, <2>3, <2>4
<1>9. CASE InsertDeletedRows
  BY <1>9, InsertDoes, <1>0 DEF InRun, BeforeDropping, BeforeClearing, Behind, Awaited, Shown,
     Live, Was, Pictured, TypeOK
<1>10. CASE SyncUpdateAtForDeletedRecords
  <2> SUFFICES ASSUME pc' \in BeforeDropping, NEW k \in Keys, Behind(k)'
               PROVE  Awaited(k)' \/ (Shown(k) # Was(k))'
    BY DEF InRun
  <2>1. /\ k \in present' <=> k \in present
        /\ row'[k].updated \in {row[k].updated, job}
        /\ Shown(k)' = Shown(k) /\ Was(k)' = Was(k) /\ due' = due /\ pc' = pc /\ mirror' = mirror
    BY <1>10, DeletedDoes DEF Shown, Live, Was
  <2>2. Awaited(k) \/ Shown(k) # Was(k)
    BY <2>1, <1>0 DEF InRun, Behind
  <2>3. Awaited(k) => k \in present'
    BY <2>1 DEF Awaited
  <2> QED BY <2>1, <2>2, <2>3, AwaitedStays
<1>11. CASE DropSnapshotRows
  BY <1>11, DropDoes, <1>0 DEF InRun, BeforeDropping, BeforeClearing, Behind, Awaited, Shown,
     Live, Was
<1>12. CASE TakeSnapshotRows
  BY <1>12, TakeDoes, <1>0 DEF InRun, BeforeDropping, BeforeClearing, Behind, Awaited, Shown,
     Live, Was
<1>13. ASSUME NEW list \in Lists, ReturnResults(list)
      PROVE  InRun'
  BY <1>13, ReturnDoes, <1>0 DEF InRun, BeforeDropping, BeforeClearing, Behind, Awaited, Shown,
     Live, Was, Fair
<1>14. CASE StoreResultRows
  BY <1>14, StoreDoes, <1>0 DEF InRun, BeforeDropping, BeforeClearing, Behind, Awaited, Shown,
     Live, Was, Pictured
<1>15. CASE Report
  BY <1>15, ReportDoes, <1>0 DEF InRun, BeforeDropping, BeforeClearing, Behind, Awaited, Shown,
     Live, Was
<1>16. CASE LoseReport
  BY <1>16, LoseReportDoes, <1>0 DEF InRun, BeforeDropping, BeforeClearing, Behind, Awaited,
     Shown, Live, Was, Fair
<1>17. CASE FailSnapshot \/ CutRun
  BY <1>17, CutDoes, <1>0 DEF InRun, BeforeDropping, BeforeClearing, Behind, Awaited, Shown, Live,
     Was, Fair
<1>18. CASE StartReading
  <2>1. CASE pc \in BeforeDropping
    <3>1. Active
      BY <2>1 DEF Active, BeforeDropping, BeforeClearing
    <3>2. \A k \in Keys : Shown(k)' = Shown(k) /\ Was(k)' = Was(k)
      BY <1>18, StartReadingDoes DEF Shown, Was, Live
    <3>3. \A k \in Keys : mirror'[k] = IF Awaited(k) THEN Shown(k) ELSE mirror[k]
      <4> HIDE DEF ColumnsInv
      <4> QED BY <1>18, <3>1, ReadAtOnce
    <3> QED BY <1>0, <2>1, <3>2, <3>3 DEF InRun, Behind
  <2>2. CASE pc \notin BeforeDropping
    BY <1>18, StartReadingDoes, <2>2 DEF InRun
  <2> QED BY <2>1, <2>2
<1>19. CASE ReadPage
  BY <1>19, ReadPageDoes, <1>0 DEF InRun, BeforeDropping, BeforeClearing, Behind, Awaited, Shown,
     Live, Was, Fair, Active
<1>20. CASE UNCHANGED <<vars, recordVars>>
  BY <1>20, <1>0 DEF InRun, BeforeDropping, BeforeClearing, Behind, Awaited, Shown, Live, Was,
     vars, tables, snapshotTable, history, recordVars, columns, customer
<1> QED BY <1>1, <1>2, <1>3, <1>4, <1>5, <1>6, <1>7, <1>8, <1>9, <1>10, <1>11, <1>12, <1>13,
       <1>14, <1>15, <1>16, <1>17, <1>18, <1>19, <1>20 DEF RecordsNext

LEMMA NextAtRest ==
    ASSUME RunInv, UncutInv, ColumnsInv, ColumnsInv', Filled, Filled', FairInv, Fair',
           [RecordsNext]_<<vars, recordVars>>
    PROVE  AtRest'
<1> USE DEF ColumnsInv
<1>0. Fair /\ Pictured /\ CallFits /\ Untouched /\ ChangesMarked /\ Alone /\ AtRest /\ InRun /\ OnTime /\ AtEnd
  BY FairBefore DEF FairInv
<1>1. CASE Start
  BY <1>1, StartDoes, <1>0 DEF AtRest, Active, Behind, Awaited, Shown, Live, Was
<1>2. ASSUME NEW list \in Lists, NEW softDelete \in BOOLEAN, Save(list, softDelete)
      PROVE  AtRest'
  BY <1>2, SaveDoes, <1>0 DEF AtRest, Active, Behind, Awaited, Shown, Live, Was
<1>3. CASE UpsertRows
  BY <1>3, UpsertDoes, <1>0 DEF AtRest, Active, Behind, Awaited, Shown, Live, Was
<1>4. CASE SyncUpdateAtForChangedRecords
  BY <1>4, ChangedDoes, <1>0 DEF AtRest, Active, Behind, Awaited, Shown, Live, Was
<1>5. CASE SyncCreatedAtForAddedRecords
  BY <1>5, AddedDoes, <1>0 DEF AtRest, Active, Behind, Awaited, Shown, Live, Was
<1>6. CASE UpdateSyncJobResult
  BY <1>6, CountDoes, <1>0 DEF AtRest, Active, Behind, Awaited, Shown, Live, Was
<1>7. CASE Finish
  BY <1>7, FinishDoes, <1>0 DEF AtRest, Active, Behind, Awaited, Shown, Live, Was
<1>8. CASE ClearOldRows
  BY <1>8, ClearDoes, <1>0 DEF AtRest, Active, Behind, Awaited, Shown, Live, Was
<1>9. CASE InsertDeletedRows
  BY <1>9, InsertDoes, <1>0 DEF AtRest, Active, Behind, Awaited, Shown, Live, Was
<1>10. CASE SyncUpdateAtForDeletedRecords
  BY <1>10, DeletedDoes, <1>0 DEF AtRest, Active, Behind, Awaited, Shown, Live, Was
<1>11. CASE DropSnapshotRows
  BY <1>11, DropDoes, <1>0 DEF AtRest, Active, Behind, Awaited, Shown, Live, Was
<1>12. CASE TakeSnapshotRows
  BY <1>12, TakeDoes, <1>0 DEF AtRest, Active, Behind, Awaited, Shown, Live, Was
<1>13. ASSUME NEW list \in Lists, ReturnResults(list)
      PROVE  AtRest'
  BY <1>13, ReturnDoes, <1>0 DEF AtRest, Active, Behind, Awaited, Shown, Live, Was, Fair
<1>14. CASE StoreResultRows
  BY <1>14, StoreDoes, <1>0 DEF AtRest, Active, Behind, Awaited, Shown, Live, Was, Pictured
<1>15. CASE Report
  <2> SUFFICES ASSUME NEW k \in Keys, Behind(k)'
               PROVE  Awaited(k)'
    BY DEF AtRest
  <2>1. /\ k \in present' <=> k \in present
        /\ row' = row /\ Shown(k)' = Shown(k) /\ mirror' = mirror
        /\ due' = IF Increased = NoResult \/ due \in 0..QueryTimeStamp THEN due ELSE QueryTimeStamp
    BY <1>15, ReportDoes DEF Shown, Live
  <2>2. job \in Nat /\ QueryTimeStamp \in 0..job /\ due \in Int /\ row[k].updated \in Nat
    BY DEF TypeOK, QueryTimeStamp, ColumnTypes, Row
  <2>3. Awaited(k) \/ Marked(k)
    BY <1>15, <1>0, ReportDoes, <2>1 DEF AtEnd, Behind
  <2>4. CASE Awaited(k)
    <3>1. due \in Nat /\ due # NoDelta
      BY <2>4 DEF Awaited, Times
    <3>2. due' \in Nat /\ due' <= due
      BY <2>1, <2>2, <3>1
    <3> QED BY <2>1, <2>2, <2>4, <3>1, <3>2 DEF Awaited, NoDelta
  <2>5. CASE Marked(k)
    <3>1. row[k].updated = job /\ k \in present /\ Increased # NoResult
      BY <1>15, ReportDoes, <2>5, IncreasedIs DEF Marked, ToBeStamped, Counted
    <3>2. due' \in 0..job
      BY <2>1, <2>2, <3>1
    <3> QED BY <2>1, <2>2, <3>1, <3>2 DEF Awaited, NoDelta
  <2> QED BY <2>3, <2>4, <2>5
<1>16. CASE LoseReport
  BY <1>16, LoseReportDoes, <1>0 DEF AtRest, Active, Behind, Awaited, Shown, Live, Was, Fair
<1>17. CASE FailSnapshot \/ CutRun
  BY <1>17, CutDoes, <1>0 DEF AtRest, Active, Behind, Awaited, Shown, Live, Was, Fair
<1>18. CASE StartReading
  <2> SUFFICES ASSUME ~Active', NEW k \in Keys, Behind(k)'
               PROVE  OnPage(k)'
    BY DEF AtRest
  <2>1. /\ ~Active /\ Shown(k)' = Shown(k) /\ due # NoDelta /\ page = NoPage
        /\ mirror'[k] = IF k \in Page(Since(due), 0) THEN Shown(k) ELSE mirror[k]
    BY <1>18, StartReadingDoes DEF Active, Shown, Live
  <2>2. k \notin Page(Since(due), 0) /\ Behind(k)
    BY <2>1 DEF Behind
  <2>3. k \in Since(due) /\ Since(due) \in SUBSET Keys
    BY <1>0, <2>1, <2>2, SinceIs DEF AtRest, OnPage, Awaited, Since
  <2>4. Place(Since(due), k) >= PageSize
    <3>1. Place(Since(due), k) \notin 0..(0 + PageSize - 1)
      BY <2>2, <2>3 DEF Page
    <3> QED BY <2>3, <3>1, PlaceNat, PageSizeAssumption
  <2>5. page' # NoPage /\ page'.delta = due /\ page'.offset = PageSize
    BY <1>18, StartReadingDoes, <2>3, <2>4, PlaceNat, PageSizeAssumption
  <2>6. Since(page.delta)' = Since(due)
    BY <1>18, StartReadingDoes, <2>5 DEF Since
  <2> QED BY <2>3, <2>4, <2>5, <2>6 DEF OnPage, Place
<1>19. CASE ReadPage
  <2> SUFFICES ASSUME ~Active', NEW k \in Keys, Behind(k)'
               PROVE  OnPage(k)'
    BY DEF AtRest
  <2> DEFINE S == Since(page.delta)
  <2>1. /\ ~Active /\ Shown(k)' = Shown(k) /\ page # NoPage
        /\ mirror'[k] = IF k \in Page(S, page.offset) THEN Shown(k) ELSE mirror[k]
    BY <1>19, ReadPageDoes DEF Active, Shown, Live
  <2>2. k \notin Page(S, page.offset) /\ Behind(k)
    BY <2>1 DEF Behind
  <2>3. k \in S /\ S \in SUBSET Keys /\ Place(S, k) >= page.offset
    BY <1>0, <2>1, <2>2, SinceIs DEF AtRest, Alone, OnPage, Awaited
  <2>4. page.offset \in Nat /\ PageSize \in Nat /\ Place(S, k) \in Nat
    BY <2>3, PlaceNat, PageSizeAssumption DEF ColumnTypes
  <2>5. Place(S, k) >= page.offset + PageSize
    <3>1. Place(S, k) \notin page.offset..(page.offset + PageSize - 1)
      BY <2>2, <2>3 DEF Page
    <3> QED BY <2>3, <2>4, <3>1
  <2>6. page'.delta = page.delta /\ page'.offset = page.offset + PageSize
    BY <1>19, ReadPageDoes, <2>3, <2>4, <2>5
  <2>7. Since(page.delta)' = S
    BY <1>19, ReadPageDoes, <2>6 DEF Since
  <2>8. page' # NoPage
    BY <2>1, <2>6 DEF NoPage, NoDelta, Times
  <2> QED BY <2>3, <2>5, <2>6, <2>7, <2>8 DEF OnPage, Place
<1>20. CASE UNCHANGED <<vars, recordVars>>
  <2>1. UNCHANGED <<present, deleted, pc, step, row, due, page, mirror>>
    BY <1>20 DEF vars, tables, recordVars, columns, customer
  <2> QED BY <1>0, <2>1 DEF AtRest, Active, Behind, Shown, Live, Awaited, OnPage, Since
<1> QED BY <1>1, <1>2, <1>3, <1>4, <1>5, <1>6, <1>7, <1>8, <1>9, <1>10, <1>11, <1>12, <1>13,
       <1>14, <1>15, <1>16, <1>17, <1>18, <1>19, <1>20 DEF RecordsNext

LEMMA NextAtEnd ==
    ASSUME RunInv, UncutInv, ColumnsInv, ColumnsInv', Filled, Filled', FairInv, Fair',
           [RecordsNext]_<<vars, recordVars>>
    PROVE  AtEnd'
<1> USE DEF Counted, Shown, AtEnd, Awaited, Was, Marked, Behind, ToBeStamped, Live
<1> USE DEF ColumnsInv
<1>0. Fair /\ Pictured /\ CallFits /\ Untouched /\ ChangesMarked /\ Alone /\ AtRest /\ InRun /\ OnTime /\ AtEnd
  BY FairBefore DEF FairInv
<1>1. CASE Start
  BY <1>1, StartDoes, <1>0
<1>2. ASSUME NEW list \in Lists, NEW softDelete \in BOOLEAN, Save(list, softDelete)
      PROVE  AtEnd'
  BY <1>2, SaveDoes, <1>0
<1>3. CASE UpsertRows
  BY <1>3, UpsertDoes, <1>0
<1>4. CASE SyncUpdateAtForChangedRecords
  BY <1>4, ChangedDoes, <1>0
<1>5. CASE SyncCreatedAtForAddedRecords
  BY <1>5, AddedDoes, <1>0
<1>6. CASE UpdateSyncJobResult
  BY <1>6, CountDoes, <1>0
<1>7. CASE Finish
  BY <1>7, FinishDoes, <1>0
<1>8. CASE ClearOldRows
  BY <1>8, ClearDoes, <1>0
<1>9. CASE InsertDeletedRows
  BY <1>9, InsertDoes, <1>0
<1>10. CASE SyncUpdateAtForDeletedRecords
  BY <1>10, DeletedDoes, <1>0
<1>11. CASE DropSnapshotRows
  BY <1>11, DropDoes, <1>0 DEF InRun, ChangesMarked, BeforeDropping, ToBePutBack
<1>12. CASE TakeSnapshotRows
  BY <1>12, TakeDoes, <1>0
<1>13. ASSUME NEW list \in Lists, ReturnResults(list)
      PROVE  AtEnd'
  BY <1>13, ReturnDoes, <1>0 DEF Fair
<1>14. CASE StoreResultRows
  BY <1>14, StoreDoes, <1>0 DEF Pictured
<1>15. CASE Report
  BY <1>15, ReportDoes, <1>0
<1>16. CASE LoseReport
  BY <1>16, LoseReportDoes, <1>0 DEF Fair
<1>17. CASE FailSnapshot \/ CutRun
  BY <1>17, CutDoes, <1>0 DEF Fair
<1>18. CASE StartReading
  <2>1. CASE pc = "take" \/ step = "report"
    <3>1. Active
      BY <2>1 DEF Active
    <3>2. \A k \in Keys : Shown(k)' = Shown(k) /\ Marked(k)' = Marked(k)
      BY <1>18, StartReadingDoes
    <3>3. \A k \in Keys : mirror'[k] = IF Awaited(k) THEN Shown(k) ELSE mirror[k]
      <4> HIDE DEF ColumnsInv
      <4> QED BY <1>18, <3>1, ReadAtOnce
    <3> QED BY <1>0, <2>1, <3>2, <3>3
  <2>2. CASE ~(pc = "take" \/ step = "report")
    BY <1>18, StartReadingDoes, <2>2
  <2> QED BY <2>1, <2>2
<1>19. CASE ReadPage
  BY <1>19, ReadPageDoes, <1>0 DEF Fair, Active
<1>20. CASE UNCHANGED <<vars, recordVars>>
  BY <1>20, <1>0 DEF vars, tables, snapshotTable, history, recordVars, columns, customer
<1> QED BY <1>1, <1>2, <1>3, <1>4, <1>5, <1>6, <1>7, <1>8, <1>9, <1>10, <1>11, <1>12, <1>13,
       <1>14, <1>15, <1>16, <1>17, <1>18, <1>19, <1>20 DEF RecordsNext

LEMMA RecordsKeepRunInvs == RecordsSpec => [](RunInv /\ UncutInv)
BY RecordsRefineDeleteTracking, RunInvariant, UncutInvariant, PTL

LEMMA FairInvariant == RecordsSpec => []FairInv
<1>1. RecordsInit => FairInv
  BY DEF RecordsInit, Init, FairInv, Pictured, CallFits, Untouched, ChangesMarked, Alone, AtRest,
     InRun,
         OnTime, AtEnd, BeforeDropping, BeforeClearing, Behind, Shown, Was, Live, NoBatch, Gone,
         NoPage
<1>2. RunInv /\ UncutInv /\ ColumnsInv /\ ColumnsInv' /\ Filled /\ Filled' /\ FairInv
        /\ [RecordsNext]_<<vars, recordVars>> => FairInv'
  BY NextPictured, NextCallFits, NextUntouched, NextChangesMarked, NextAlone, NextAtRest,
     NextInRun,
     NextOnTime, NextAtEnd DEF FairInv
<1> QED BY <1>1, <1>2, RecordsKeepRunInvs, ColumnsInvariant, FilledInvariant, PTL DEF RecordsSpec

\* A customer who has acted on the last webhook has the records as they are, even if
\* runs began before it was done, as long as none was cut short, none returned its
\* records, and no webhook got lost: what a run changed carries its time, and its
\* count is not zero (upsert, finishSync, reportResults, getDataRecords).
THEOREM UpToDate == RecordsSpec => []CustomerIsUpToDate
<1>1. ColumnsInv /\ FairInv => CustomerIsUpToDate
  <2> SUFFICES ASSUME ColumnsInv, FairInv, ~Active, due = NoDelta, page = NoPage,
                      irregular \cap {"cut", "results"} = {},
                      odd \cap {"unsent", "unstamped", "torn"} = {},
                      "late" \in odd => "batchDelete" \notin irregular /\ "again" \notin odd
               PROVE  mirror = [k \in Keys |-> Shown(k)]
    BY DEF CustomerIsUpToDate, Shown
  <2>1. Fair
    BY DEF Fair, NoPage
  <2>2. \A k \in Keys : mirror[k] = Shown(k)
    BY <2>1 DEF FairInv, AtRest, Behind, Awaited, OnPage
  <2> QED BY <2>2 DEF ColumnsInv, ColumnTypes
<1> QED BY <1>1, ColumnsInvariant, FairInvariant, PTL

(***************************************************************************)
(* The answers tell what changed.  In a history with nothing out of the    *)
(* way, the rows stamped by a run are those that it changed in the         *)
(* customer's copy, the two stamps tell a new row from an altered one, and *)
(* the result counts each of them once.                                    *)
(***************************************************************************)

\* The histories that AnswersTellWhatChanged is about.
Exact == irregular \subseteq {"empty"} /\ odd = {}

\* What the run does to the customer's copy.
New(k) == k \in Live /\ mirror[k] = Gone
Altered(k) == k \in Live /\ mirror[k] \notin {Gone, row[k].content}
Lost(k) == k \notin Live /\ mirror[k] # Gone
NewOnes == {k \in Keys : New(k)}
AlteredOnes == {k \in Keys : Altered(k)}
LostOnes == {k \in Keys : Lost(k)}
Count(a, u, d) == [added |-> Cardinality(a), updated |-> Cardinality(u), deleted |-> Cardinality(d)]

\* Until the customer reads with the time of this run.
Telling ==
    \/ pc \in BeforeDropping \union {"take"} \/ step = "report"
    \/ ~Active /\ due = job /\ page = NoPage

\* A record of the run is stamped so that LastAction says what it did to the copy.
StampTells(k) ==
    /\ New(k) => \/ row[k].created = job /\ row[k].updated = job
                 \/ pc = "script" /\ step \in {"changed", "added"} /\ k \in summary.added
    /\ Altered(k) => row[k].created < job /\ row[k].updated = job
    /\ k \in Live => New(k) \/ Altered(k) \/ row[k].updated < job

\* So is a flagged one, and none that the customer has is gone for good.
FlagTells(k) ==
    /\ k \in Flagged => IF mirror[k] = Gone THEN row[k].updated < job
                        ELSE row[k].updated = job \/ (step = "deleted" /\ k \in summary.deleted)
    /\ k \notin present => mirror[k] = Gone \/ ToBePutBack(k)
    /\ pc \in BeforeClearing => ~Lost(k)

RowsTell == \A k \in Keys : StampTells(k) /\ FlagTells(k)

\* What the summary holds has yet to be counted.
CountsTell ==
    /\ pc = "script" /\ step # "none" =>
         /\ summary.added \subseteq NewOnes /\ summary.updated \subseteq AlteredOnes /\ summary.deleted = {}
         /\ result = Count(NewOnes \ summary.added, AlteredOnes \ summary.updated, {})
    /\ (pc = "script" /\ step = "none") \/ pc \in {"select", "mark", "upsert", "clear", "find", "insert"} =>
         result = Count(NewOnes, AlteredOnes, {})
    /\ pc \in {"select", "mark", "upsert"} => summary.deleted = {}
    /\ pc \in {"drop", "take"} \/ step = "report" =>
         /\ result = Count(NewOnes, AlteredOnes, {})
         /\ summary.added = {} /\ summary.updated = {} /\ summary.deleted = LostOnes
    /\ ~Active /\ due = job /\ page = NoPage => result = Count(NewOnes, AlteredOnes, LostOnes)

ExactInv == Exact => flagged = {} /\ (Telling => RowsTell /\ CountsTell)

LEMMA ExactIsFair ==
    ASSUME ColumnsInv, Exact
    PROVE  Fair /\ NeverCut /\ (Active => due = NoDelta /\ page = NoPage)
BY DEF ColumnsInv, Exact, Fair, NeverCut, Punctual

LEMMA ExactBefore ==
    ASSUME ColumnsInv, Exact', [RecordsNext]_<<vars, recordVars>>
    PROVE  Exact
<1> USE DEF Exact
<1> USE DEF ColumnsInv
<1>1. CASE Start
  BY <1>1, StartDoes
<1>2. ASSUME NEW list \in Lists, NEW softDelete \in BOOLEAN, Save(list, softDelete)
      PROVE  Exact
  BY <1>2, SaveDoes
<1>3. CASE UpsertRows
  BY <1>3, UpsertDoes
<1>4. CASE SyncUpdateAtForChangedRecords
  BY <1>4, ChangedDoes
<1>5. CASE SyncCreatedAtForAddedRecords
  BY <1>5, AddedDoes
<1>6. CASE UpdateSyncJobResult
  BY <1>6, CountDoes
<1>7. CASE Finish
  BY <1>7, FinishDoes
<1>8. CASE ClearOldRows
  BY <1>8, ClearDoes
<1>9. CASE InsertDeletedRows
  BY <1>9, InsertDoes
<1>10. CASE SyncUpdateAtForDeletedRecords
  BY <1>10, DeletedDoes
<1>11. CASE DropSnapshotRows
  BY <1>11, DropDoes
<1>12. CASE TakeSnapshotRows
  BY <1>12, TakeDoes
<1>13. ASSUME NEW list \in Lists, ReturnResults(list)
      PROVE  Exact
  BY <1>13, ReturnDoes
<1>14. CASE StoreResultRows
  BY <1>14, StoreDoes
<1>15. CASE Report
  BY <1>15, ReportDoes
<1>16. CASE LoseReport
  BY <1>16, LoseReportDoes
<1>17. CASE FailSnapshot \/ CutRun
  BY <1>17, CutDoes
<1>18. CASE StartReading
  BY <1>18, StartReadingDoes
<1>19. CASE ReadPage
  BY <1>19, ReadPageDoes
<1>20. CASE UNCHANGED <<vars, recordVars>>
  BY <1>20 DEF vars, tables, snapshotTable, history, recordVars, columns, customer
<1> QED BY <1>1, <1>2, <1>3, <1>4, <1>5, <1>6, <1>7, <1>8, <1>9, <1>10, <1>11, <1>12, <1>13,
       <1>14, <1>15, <1>16, <1>17, <1>18, <1>19, <1>20 DEF RecordsNext

\* What holds before and after a step of an exact history.
ExactFacts ==
    /\ Exact /\ Fair /\ flagged = {} /\ ~call.softDelete
    /\ Active => due = NoDelta /\ page = NoPage
    /\ Pictured /\ CallFits /\ Untouched /\ Alone /\ OnTime
    /\ Telling => RowsTell /\ CountsTell

LEMMA FactsHold ==
    ASSUME UncutInv, ColumnsInv, FairInv, ExactInv, Exact
    PROVE  ExactFacts
BY ExactIsFair DEF UncutInv, FairInv, ExactInv, ExactFacts

LEMMA FactsStay ==
    ASSUME UncutInv, ColumnsInv, FairInv, ExactInv, ColumnsInv', FairInv', Exact',
           [RecordsNext]_<<vars, recordVars>>
    PROVE  /\ ExactFacts /\ Fair'
           /\ Pictured' /\ CallFits' /\ Untouched' /\ Alone' /\ OnTime'
           /\ (Active => due = NoDelta /\ page = NoPage)'
<1>1. ExactFacts
  BY ExactBefore, FactsHold
<1>2. Fair' /\ (Active => due = NoDelta /\ page = NoPage)'
  BY DEF ColumnsInv, Exact, Fair, Punctual
<1> QED BY <1>1, <1>2 DEF FairInv

LEMMA NextUnflagged ==
    ASSUME RunInv, UncutInv, ColumnsInv, ColumnsInv', Filled, Filled', FairInv, FairInv',
           ExactInv, Exact', [RecordsNext]_<<vars, recordVars>>
    PROVE  flagged' = {}
<1> USE DEF ExactFacts
<1>0. /\ ExactFacts /\ Fair'
      /\ Pictured' /\ CallFits' /\ Untouched' /\ Alone' /\ OnTime'
      /\ (Active => due = NoDelta /\ page = NoPage)'
  BY FactsStay
<1> USE DEF ColumnsInv
<1>1. CASE Start
  BY <1>1, StartDoes, <1>0
<1>2. ASSUME NEW list \in Lists, NEW softDelete \in BOOLEAN, Save(list, softDelete)
      PROVE  flagged' = {}
  BY <1>2, SaveDoes, <1>0
<1>3. CASE UpsertRows
  BY <1>3, UpsertDoes, <1>0
<1>4. CASE SyncUpdateAtForChangedRecords
  BY <1>4, ChangedDoes, <1>0
<1>5. CASE SyncCreatedAtForAddedRecords
  BY <1>5, AddedDoes, <1>0
<1>6. CASE UpdateSyncJobResult
  BY <1>6, CountDoes, <1>0
<1>7. CASE Finish
  BY <1>7, FinishDoes, <1>0
<1>8. CASE ClearOldRows
  BY <1>8, ClearDoes, <1>0
<1>9. CASE InsertDeletedRows
  BY <1>9, InsertDoes, <1>0
<1>10. CASE SyncUpdateAtForDeletedRecords
  BY <1>10, DeletedDoes, <1>0
<1>11. CASE DropSnapshotRows
  BY <1>11, DropDoes, <1>0
<1>12. CASE TakeSnapshotRows
  BY <1>12, TakeDoes, <1>0
<1>13. ASSUME NEW list \in Lists, ReturnResults(list)
      PROVE  flagged' = {}
  BY <1>13, ReturnDoes, <1>0 DEF Exact
<1>14. CASE StoreResultRows
  BY <1>14, StoreDoes, <1>0 DEF Pictured
<1>15. CASE Report
  BY <1>15, ReportDoes, <1>0
<1>16. CASE LoseReport
  BY <1>16, LoseReportDoes, <1>0
<1>17. CASE FailSnapshot \/ CutRun
  BY <1>17, CutDoes, <1>0 DEF Exact
<1>18. CASE StartReading
  BY <1>18, StartReadingDoes, <1>0
<1>19. CASE ReadPage
  BY <1>19, ReadPageDoes, <1>0
<1>20. CASE UNCHANGED <<vars, recordVars>>
  BY <1>20, <1>0 DEF vars, tables, snapshotTable, history, recordVars, columns, customer
<1> QED BY <1>1, <1>2, <1>3, <1>4, <1>5, <1>6, <1>7, <1>8, <1>9, <1>10, <1>11, <1>12, <1>13,
       <1>14, <1>15, <1>16, <1>17, <1>18, <1>19, <1>20 DEF RecordsNext

\* A run begins with the customer's copy right.
LEMMA StartsRight ==
    ASSUME UncutInv, ColumnsInv, FairInv, ExactInv, ColumnsInv', FairInv', Exact', Filled,
           [RecordsNext]_<<vars, recordVars>>, Start
    PROVE  \A k \in Keys : ~New(k)' /\ ~Altered(k)' /\ ~Lost(k)' /\ mirror'[k] = Shown(k)
<1> USE DEF ColumnsInv
<1>1. ExactFacts /\ OnTime' /\ pc = "idle" /\ pc' = "script" /\ "late" \notin odd'
  BY FactsStay, StartDoes DEF Exact
<1>2. \A k \in Keys : mirror'[k] = Was(k)' /\ Was(k)' = Was(k) /\ Was(k) = Shown(k)
  BY <1>1, StartDoes DEF OnTime, BeforeDropping, BeforeClearing, ExactFacts, Pictured, Was
<1>3. \A k \in Keys : /\ (k \in Live)' <=> k \in Live
                      /\ k \in Live => row[k].content # Gone
                      /\ row'[k] = row[k]
  BY StartDoes, ContentsAssumption DEF Live, Filled, Gone
<1> QED BY <1>2, <1>3 DEF New, Altered, Lost, Shown

LEMMA KeptSame ==
    ASSUME NEW k, (k \in Live)' <=> k \in Live, k \in Live => row'[k].content = row[k].content,
           mirror'[k] = mirror[k]
    PROVE  (New(k)' <=> New(k)) /\ (Altered(k)' <=> Altered(k)) /\ (Lost(k)' <=> Lost(k))
BY DEF New, Altered, Lost

\* A customer who reads has nothing left to be told of the run.
LEMMA ReadingEndsTelling ==
    ASSUME ColumnsInv, ExactFacts, StartReading \/ ReadPage, Exact', Fair'
    PROVE  ~Telling'
<1> USE DEF ColumnsInv
<1>1. CASE StartReading
  <2>1. /\ due # NoDelta /\ due' = NoDelta /\ pc' = pc /\ step' = step /\ job' = job /\ job \in Nat
    BY <1>1, StartReadingDoes DEF TypeOK
  <2>2. ~Active
    BY <2>1 DEF ExactFacts
  <2> QED BY <2>1, <2>2 DEF Telling, Active, NoDelta, BeforeDropping, BeforeClearing
<1>2. CASE ReadPage
  <2>1. page # NoPage /\ due' = due /\ pc' = pc /\ step' = step /\ job' = job /\ job \in Nat
    BY <1>2, ReadPageDoes DEF TypeOK
  <2>2. ~Active /\ due = NoDelta
    BY <2>1 DEF ExactFacts, Alone
  <2> QED BY <2>1, <2>2 DEF Telling, Active, NoDelta, BeforeDropping, BeforeClearing
<1> QED BY <1>1, <1>2

\* Otherwise, after the start of the run, they are as they were told.
LEMMA TellsBefore ==
    ASSUME ColumnsInv, ExactFacts, Telling', [RecordsNext]_<<vars, recordVars>>, Exact', Fair'
    PROVE  Start \/ (Telling /\ mirror' = mirror)
<1> USE DEF ExactFacts, Telling, BeforeClearing, BeforeDropping
<1> USE DEF ColumnsInv
<1>1. CASE Start
  BY <1>1
<1>2. ASSUME NEW list \in Lists, NEW softDelete \in BOOLEAN, Save(list, softDelete)
      PROVE  Start \/ (Telling /\ mirror' = mirror)
  BY <1>2, SaveDoes
<1>3. CASE UpsertRows
  BY <1>3, UpsertDoes
<1>4. CASE SyncUpdateAtForChangedRecords
  BY <1>4, ChangedDoes
<1>5. CASE SyncCreatedAtForAddedRecords
  BY <1>5, AddedDoes
<1>6. CASE UpdateSyncJobResult
  BY <1>6, CountDoes
<1>7. CASE Finish
  BY <1>7, FinishDoes
<1>8. CASE ClearOldRows
  BY <1>8, ClearDoes
<1>9. CASE InsertDeletedRows
  BY <1>9, InsertDoes
<1>10. CASE SyncUpdateAtForDeletedRecords
  BY <1>10, DeletedDoes
<1>11. CASE DropSnapshotRows
  BY <1>11, DropDoes
<1>12. CASE TakeSnapshotRows
  BY <1>12, TakeDoes
<1>13. ASSUME NEW list \in Lists, ReturnResults(list)
      PROVE  Start \/ (Telling /\ mirror' = mirror)
  BY <1>13, ReturnDoes DEF Exact
<1>14. CASE StoreResultRows
  BY <1>14, StoreDoes DEF Pictured
<1>15. CASE Report
  BY <1>15, ReportDoes DEF Active
<1>16. CASE LoseReport
  BY <1>16, LoseReportDoes DEF Exact
<1>17. CASE FailSnapshot \/ CutRun
  BY <1>17, CutDoes DEF Exact
<1>18. CASE StartReading
  BY <1>18, ReadingEndsTelling
<1>19. CASE ReadPage
  BY <1>19, ReadingEndsTelling
<1>20. CASE UNCHANGED <<vars, recordVars>>
  <2>1. UNCHANGED <<pc, step, due, job, page, mirror>>
    BY <1>20 DEF vars, recordVars, customer
  <2> QED BY <2>1 DEF Active
<1> QED BY <1>1, <1>2, <1>3, <1>4, <1>5, <1>6, <1>7, <1>8, <1>9, <1>10, <1>11, <1>12, <1>13,
       <1>14, <1>15, <1>16, <1>17, <1>18, <1>19, <1>20 DEF RecordsNext

LEMMA NextRowsTell ==
    ASSUME RunInv, UncutInv, ColumnsInv, ColumnsInv', Filled, Filled', FairInv, FairInv',
           ExactInv, Exact', Telling', [RecordsNext]_<<vars, recordVars>>
    PROVE  RowsTell'
<1>0. /\ ExactFacts /\ Fair'
      /\ Pictured' /\ CallFits' /\ Untouched' /\ Alone' /\ OnTime'
      /\ (Active => due = NoDelta /\ page = NoPage)'
  BY FactsStay
<1> USE DEF ColumnsInv
<1>1. CASE Start
  <2> SUFFICES ASSUME NEW k \in Keys PROVE StampTells(k)' /\ FlagTells(k)'
    BY DEF RowsTell
  <2>1. ~New(k)' /\ ~Altered(k)' /\ ~Lost(k)' /\ mirror'[k] = Shown(k)
    BY <1>1, StartsRight
  <2>2. row'[k].updated < job'
    BY <1>1, StartDoes DEF Times, TypeOK, ColumnTypes, Row
  <2>3. (k \in Flagged)' => k \in Flagged /\ mirror'[k] = Gone
    BY <1>1, StartDoes, <2>1 DEF Flagged, Live, Shown
  <2>4. k \notin present' => mirror'[k] = Gone
    BY <1>1, StartDoes, <2>1 DEF Live, Shown
  <2> QED BY <2>1, <2>2, <2>3, <2>4 DEF StampTells, FlagTells
<1>2. ASSUME NEW list \in Lists, NEW softDelete \in BOOLEAN, Save(list, softDelete)
      PROVE  RowsTell'
  <2> SUFFICES ASSUME NEW k \in Keys PROVE StampTells(k)' /\ FlagTells(k)'
    BY DEF RowsTell
  <2>0. ~Start
    BY <1>2, StartDoes, SaveDoes
  <2>1. StampTells(k) /\ FlagTells(k) /\ CountsTell /\ mirror' = mirror
    BY <2>0, <1>0, TellsBefore DEF ExactFacts, RowsTell
  <2>2. job \in Nat /\ row[k] \in Row /\ row[k].updated <= job
    BY DEF TypeOK, ColumnTypes, Times
  <2>3. (k \in Live)' <=> k \in Live
    BY <1>2, SaveDoes DEF Live
  <2>4. row'[k].content = row[k].content
    BY <1>2, SaveDoes
  <2>5. (New(k)' <=> New(k)) /\ (Altered(k)' <=> Altered(k)) /\ (Lost(k)' <=> Lost(k))
    BY <2>1, <2>3, <2>4, KeptSame
  <2>6. StampTells(k)'
    BY <1>2, SaveDoes, <2>1, <2>2, <2>3, <2>5 DEF StampTells
  <2>7. FlagTells(k)'
    BY <1>2, SaveDoes, <2>1, <2>2, <2>3, <2>5 DEF FlagTells, Flagged, ToBePutBack,
       BeforeClearing, Steps
  <2> QED BY <2>6, <2>7
<1>3. CASE UpsertRows
  <2> SUFFICES ASSUME NEW k \in Keys PROVE StampTells(k)' /\ FlagTells(k)'
    BY DEF RowsTell
  <2>0. ~Start
    BY <1>3, StartDoes, UpsertDoes
  <2>1. StampTells(k) /\ FlagTells(k) /\ CountsTell /\ mirror' = mirror
    BY <2>0, <1>0, TellsBefore DEF ExactFacts, RowsTell
  <2>2. job \in Nat /\ row[k] \in Row /\ row[k].updated <= job
    BY DEF TypeOK, ColumnTypes, Times
  <2>3. /\ (k \in Live)' <=> k \in Live \/ k \in call.records
        /\ (k \in Flagged)' <=> k \in Flagged /\ k \notin call.records
        /\ k \in present' <=> k \in present \/ k \in call.records
        /\ pc = "upsert" /\ pc' = "script" /\ summary' = summary /\ job' = job
        /\ step' = IF summary.updated # {} THEN "changed" ELSE IF summary.added # {} THEN "added" ELSE "count"
    BY <1>3, UpsertDoes, <1>0 DEF ExactFacts, Live, Flagged
  <2>4. CASE k \notin call.records
    <3>1. row'[k] = row[k]
      BY <1>3, UpsertDoes, <2>4
    <3>2. (New(k)' <=> New(k)) /\ (Altered(k)' <=> Altered(k)) /\ (Lost(k)' <=> Lost(k))
      BY <2>1, <2>3, <2>4, <3>1, KeptSame
    <3>3. StampTells(k)'
      BY <2>1, <2>3, <2>4, <3>1, <3>2 DEF StampTells
    <3>4. FlagTells(k)'
      BY <2>1, <2>3, <2>4, <3>1, <3>2 DEF FlagTells, ToBePutBack, BeforeClearing, Steps
    <3> QED BY <3>3, <3>4
  <2>5. CASE k \in call.records
    <3>1. mirror[k] = Was(k) /\ Shown(k) = Was(k)
      <4>1. k \notin returned \union flagged /\ "late" \notin odd
        BY <1>0, <2>3, <2>5 DEF ExactFacts, CallFits, Exact
      <4> QED BY <1>0, <2>3, <4>1 DEF ExactFacts, Untouched, OnTime, BeforeDropping,
                 BeforeClearing
    <3>2. /\ row'[k].content = batch[k] /\ row'[k].created = FormatStamp
          /\ row'[k].updated = IF k \in present /\ row[k].content # batch[k] THEN job ELSE FormatStamp
          /\ batch[k] \in Contents /\ batch[k] # Gone
      BY <1>3, UpsertDoes, <2>3, <2>5, ContentsAssumption DEF Filled, Gone
    <3>3. FlagTells(k)'
      BY <2>3, <2>5 DEF FlagTells, Lost
    <3>4. CASE k \notin snapshot
      <4>1. mirror'[k] = Gone
        BY <2>1, <3>1, <3>4 DEF Was
      <4>2. k \in summary.added
        BY <1>0, <2>3, <2>5, <3>4 DEF ExactFacts, CallFits
      <4>3. step' \in {"changed", "added"}
        BY <2>3, <4>2
      <4> QED BY <2>3, <2>5, <3>3, <4>1, <4>2, <4>3 DEF StampTells, New, Altered
    <3>5. CASE k \in snapshot
      <4>1. snapRow[k].content \in Contents /\ snapRow[k].content # Gone
        BY <3>5, ContentsAssumption DEF Filled, Gone
      <4>2. mirror[k] = snapRow[k].content /\ k \in present /\ row[k].content = snapRow[k].content
        BY <3>1, <3>5, <4>1 DEF Was, Shown, Live
      <4>3. FormatStamp < job
        BY <2>3, <3>5 DEF FormatStamp, Times, ColumnTypes
      <4> QED BY <2>1, <2>2, <2>3, <2>5, <3>2, <3>3, <4>1, <4>2, <4>3 DEF StampTells, New, Altered
    <3> QED BY <3>4, <3>5
  <2> QED BY <2>4, <2>5
<1>4. CASE SyncUpdateAtForChangedRecords
  <2> SUFFICES ASSUME NEW k \in Keys PROVE StampTells(k)' /\ FlagTells(k)'
    BY DEF RowsTell
  <2>0. ~Start
    BY <1>4, StartDoes, ChangedDoes
  <2>1. StampTells(k) /\ FlagTells(k) /\ CountsTell /\ mirror' = mirror
    BY <2>0, <1>0, TellsBefore DEF ExactFacts, RowsTell
  <2>2. job \in Nat /\ row[k] \in Row /\ row[k].updated <= job
    BY DEF TypeOK, ColumnTypes, Times
  <2>3. (k \in Live)' <=> k \in Live
    BY <1>4, ChangedDoes DEF Live
  <2>4. row'[k].content = row[k].content
    BY <1>4, ChangedDoes
  <2>5. (New(k)' <=> New(k)) /\ (Altered(k)' <=> Altered(k)) /\ (Lost(k)' <=> Lost(k))
    BY <2>1, <2>3, <2>4, KeptSame
  <2>6. StampTells(k)'
    BY <1>4, ChangedDoes, <2>1, <2>2, <2>3, <2>5 DEF StampTells, CountsTell, NewOnes,
       AlteredOnes, LostOnes, New, Altered, Lost
  <2>7. FlagTells(k)'
    BY <1>4, ChangedDoes, <2>1, <2>2, <2>3, <2>5 DEF FlagTells, Flagged, Live, ToBePutBack,
       BeforeClearing, CountsTell, NewOnes, AlteredOnes, LostOnes, New, Altered, Lost
  <2> QED BY <2>6, <2>7
<1>5. CASE SyncCreatedAtForAddedRecords
  <2> SUFFICES ASSUME NEW k \in Keys PROVE StampTells(k)' /\ FlagTells(k)'
    BY DEF RowsTell
  <2>0. ~Start
    BY <1>5, StartDoes, AddedDoes
  <2>1. StampTells(k) /\ FlagTells(k) /\ CountsTell /\ mirror' = mirror
    BY <2>0, <1>0, TellsBefore DEF ExactFacts, RowsTell
  <2>2. job \in Nat /\ row[k] \in Row /\ row[k].updated <= job
    BY DEF TypeOK, ColumnTypes, Times
  <2>3. (k \in Live)' <=> k \in Live
    BY <1>5, AddedDoes DEF Live
  <2>4. row'[k].content = row[k].content
    BY <1>5, AddedDoes
  <2>5. (New(k)' <=> New(k)) /\ (Altered(k)' <=> Altered(k)) /\ (Lost(k)' <=> Lost(k))
    BY <2>1, <2>3, <2>4, KeptSame
  <2>6. StampTells(k)'
    BY <1>5, AddedDoes, <2>1, <2>2, <2>3, <2>5 DEF StampTells, CountsTell, NewOnes, AlteredOnes,
       LostOnes, New, Altered, Lost
  <2>7. FlagTells(k)'
    BY <1>5, AddedDoes, <2>1, <2>2, <2>3, <2>5 DEF FlagTells, Flagged, Live, ToBePutBack,
       BeforeClearing, CountsTell, NewOnes, AlteredOnes, LostOnes, New, Altered, Lost
  <2> QED BY <2>6, <2>7
<1>6. CASE UpdateSyncJobResult
  <2> SUFFICES ASSUME NEW k \in Keys PROVE StampTells(k)' /\ FlagTells(k)'
    BY DEF RowsTell
  <2>0. ~Start
    BY <1>6, StartDoes, CountDoes
  <2>1. StampTells(k) /\ FlagTells(k) /\ CountsTell /\ mirror' = mirror
    BY <2>0, <1>0, TellsBefore DEF ExactFacts, RowsTell
  <2>2. job \in Nat /\ row[k] \in Row /\ row[k].updated <= job
    BY DEF TypeOK, ColumnTypes, Times
  <2>3. (k \in Live)' <=> k \in Live
    BY <1>6, CountDoes DEF Live
  <2>4. row'[k].content = row[k].content
    BY <1>6, CountDoes
  <2>5. (New(k)' <=> New(k)) /\ (Altered(k)' <=> Altered(k)) /\ (Lost(k)' <=> Lost(k))
    BY <2>1, <2>3, <2>4, KeptSame
  <2>6. StampTells(k)'
    BY <1>6, CountDoes, <2>1, <2>2, <2>3, <2>5 DEF StampTells
  <2>7. FlagTells(k)'
    BY <1>6, CountDoes, <2>1, <2>2, <2>3, <2>5 DEF FlagTells, Flagged, ToBePutBack,
       BeforeClearing, Steps
  <2> QED BY <2>6, <2>7
<1>7. CASE Finish
  <2> SUFFICES ASSUME NEW k \in Keys PROVE StampTells(k)' /\ FlagTells(k)'
    BY DEF RowsTell
  <2>0. ~Start
    BY <1>7, StartDoes, FinishDoes
  <2>1. StampTells(k) /\ FlagTells(k) /\ CountsTell /\ mirror' = mirror
    BY <2>0, <1>0, TellsBefore DEF ExactFacts, RowsTell
  <2>2. job \in Nat /\ row[k] \in Row /\ row[k].updated <= job
    BY DEF TypeOK, ColumnTypes, Times
  <2>3. (k \in Live)' <=> k \in Live
    BY <1>7, FinishDoes DEF Live
  <2>4. row'[k].content = row[k].content
    BY <1>7, FinishDoes
  <2>5. (New(k)' <=> New(k)) /\ (Altered(k)' <=> Altered(k)) /\ (Lost(k)' <=> Lost(k))
    BY <2>1, <2>3, <2>4, KeptSame
  <2>6. StampTells(k)'
    BY <1>7, FinishDoes, <2>1, <2>2, <2>3, <2>5 DEF StampTells
  <2>7. FlagTells(k)'
    BY <1>7, FinishDoes, <2>1, <2>2, <2>3, <2>5 DEF FlagTells, Flagged, ToBePutBack,
       BeforeClearing, Steps
  <2> QED BY <2>6, <2>7
<1>8. CASE ClearOldRows
  <2> SUFFICES ASSUME NEW k \in Keys PROVE StampTells(k)' /\ FlagTells(k)'
    BY DEF RowsTell
  <2>0. ~Start
    BY <1>8, StartDoes, ClearDoes
  <2>1. StampTells(k) /\ FlagTells(k) /\ CountsTell /\ mirror' = mirror
    BY <2>0, <1>0, TellsBefore DEF ExactFacts, RowsTell
  <2>2. job \in Nat /\ row[k] \in Row /\ row[k].updated <= job
    BY DEF TypeOK, ColumnTypes, Times
  <2>3. /\ k \in present' => k \in present /\ row'[k] = row[k]
        /\ k \in present' => ((k \in Live)' <=> k \in Live) /\ ((k \in Flagged)' <=> k \in Flagged)
        /\ k \notin present' => ~(k \in Live)' /\ ~(k \in Flagged)'
        /\ pc = "clear" /\ pc' = "find" /\ step = "none" /\ step' = "none" /\ job' = job /\ snapshot' = snapshot
    BY <1>8, ClearDoes DEF Live, Flagged
  <2>4. CASE k \in present'
    <3>1. (New(k)' <=> New(k)) /\ (Altered(k)' <=> Altered(k)) /\ (Lost(k)' <=> Lost(k))
      BY <2>1, <2>3, <2>4, KeptSame
    <3> QED BY <2>1, <2>3, <2>4, <3>1 DEF StampTells, FlagTells, BeforeClearing
  <2>5. CASE k \notin present'
    <3>1. mirror[k] = Was(k)
      BY <1>0, <2>3 DEF ExactFacts, OnTime, Exact, BeforeDropping, BeforeClearing
    <3>2. mirror'[k] = Gone \/ ToBePutBack(k)'
      BY <2>1, <2>3, <2>5, <3>1 DEF Was, ToBePutBack
    <3> QED BY <2>3, <2>5, <3>2 DEF StampTells, FlagTells, New, Altered, BeforeClearing
  <2> QED BY <2>4, <2>5
<1>9. CASE InsertDeletedRows
  <2> SUFFICES ASSUME NEW k \in Keys PROVE StampTells(k)' /\ FlagTells(k)'
    BY DEF RowsTell
  <2>0. ~Start
    BY <1>9, StartDoes, InsertDoes
  <2>1. StampTells(k) /\ FlagTells(k) /\ CountsTell /\ mirror' = mirror
    BY <2>0, <1>0, TellsBefore DEF ExactFacts, RowsTell
  <2>2. job \in Nat /\ row[k] \in Row /\ row[k].updated <= job
    BY DEF TypeOK, ColumnTypes, Times
  <2>3. /\ k \in gone => k \in snapshot /\ ~(k \in Live)' /\ (k \in Flagged)'
        /\ k \notin gone => /\ row'[k] = row[k] /\ ((k \in Live)' <=> k \in Live)
                            /\ ((k \in Flagged)' <=> k \in Flagged) /\ (k \in present' <=> k \in present)
        /\ k \in present' \/ k \in present \/ k \notin snapshot
        /\ pc = "insert" /\ pc' = "drop" /\ step = "none" /\ step' = "deleted" /\ job' = job
        /\ summary'.deleted = gone
    BY <1>9, InsertDoes, <1>0 DEF Live, Flagged, ExactFacts, Pictured, TypeOK
  <2>4. CASE k \notin gone
    <3>1. (New(k)' <=> New(k)) /\ (Altered(k)' <=> Altered(k)) /\ (Lost(k)' <=> Lost(k))
      BY <2>1, <2>3, <2>4, KeptSame
    <3> QED BY <2>1, <2>3, <2>4, <3>1 DEF StampTells, FlagTells, BeforeClearing, ToBePutBack
  <2>5. CASE k \in gone
    <3>1. mirror[k] = Was(k)
      BY <1>0, <2>3 DEF ExactFacts, OnTime, Exact, BeforeDropping, BeforeClearing
    <3>2. mirror'[k] # Gone
      BY <2>1, <2>3, <2>5, <3>1, ContentsAssumption DEF Was, Filled, Gone
    <3> QED BY <2>3, <2>5, <3>2 DEF StampTells, FlagTells, New, Altered, BeforeClearing, Live,
               Flagged
  <2> QED BY <2>4, <2>5
<1>10. CASE SyncUpdateAtForDeletedRecords
  <2> SUFFICES ASSUME NEW k \in Keys PROVE StampTells(k)' /\ FlagTells(k)'
    BY DEF RowsTell
  <2>0. ~Start
    BY <1>10, StartDoes, DeletedDoes
  <2>1. StampTells(k) /\ FlagTells(k) /\ CountsTell /\ mirror' = mirror
    BY <2>0, <1>0, TellsBefore DEF ExactFacts, RowsTell
  <2>2. job \in Nat /\ row[k] \in Row /\ row[k].updated <= job
    BY DEF TypeOK, ColumnTypes, Times
  <2>3. (k \in Live)' <=> k \in Live
    BY <1>10, DeletedDoes DEF Live
  <2>4. row'[k].content = row[k].content
    BY <1>10, DeletedDoes
  <2>5. (New(k)' <=> New(k)) /\ (Altered(k)' <=> Altered(k)) /\ (Lost(k)' <=> Lost(k))
    BY <2>1, <2>3, <2>4, KeptSame
  <2>6. StampTells(k)'
    BY <1>10, DeletedDoes, <2>1, <2>2, <2>3, <2>5 DEF StampTells, CountsTell, NewOnes,
       AlteredOnes, LostOnes, New, Altered, Lost
  <2>7. FlagTells(k)'
    BY <1>10, DeletedDoes, <2>1, <2>2, <2>3, <2>5 DEF FlagTells, Flagged, Live, ToBePutBack,
       BeforeClearing, CountsTell, NewOnes, AlteredOnes, LostOnes, New, Altered, Lost
  <2> QED BY <2>6, <2>7
<1>11. CASE DropSnapshotRows
  <2> SUFFICES ASSUME NEW k \in Keys PROVE StampTells(k)' /\ FlagTells(k)'
    BY DEF RowsTell
  <2>0. ~Start
    BY <1>11, StartDoes, DropDoes
  <2>1. StampTells(k) /\ FlagTells(k) /\ CountsTell /\ mirror' = mirror
    BY <2>0, <1>0, TellsBefore DEF ExactFacts, RowsTell
  <2>2. job \in Nat /\ row[k] \in Row /\ row[k].updated <= job
    BY DEF TypeOK, ColumnTypes, Times
  <2>3. (k \in Live)' <=> k \in Live
    BY <1>11, DropDoes DEF Live
  <2>4. row'[k].content = row[k].content
    BY <1>11, DropDoes
  <2>5. (New(k)' <=> New(k)) /\ (Altered(k)' <=> Altered(k)) /\ (Lost(k)' <=> Lost(k))
    BY <2>1, <2>3, <2>4, KeptSame
  <2>6. StampTells(k)'
    BY <1>11, DropDoes, <2>1, <2>2, <2>3, <2>5 DEF StampTells
  <2>7. FlagTells(k)'
    BY <1>11, DropDoes, <2>1, <2>2, <2>3, <2>5 DEF FlagTells, Flagged, ToBePutBack,
       BeforeClearing, Steps
  <2> QED BY <2>6, <2>7
<1>12. CASE TakeSnapshotRows
  <2> SUFFICES ASSUME NEW k \in Keys PROVE StampTells(k)' /\ FlagTells(k)'
    BY DEF RowsTell
  <2>0. ~Start
    BY <1>12, StartDoes, TakeDoes
  <2>1. StampTells(k) /\ FlagTells(k) /\ CountsTell /\ mirror' = mirror
    BY <2>0, <1>0, TellsBefore DEF ExactFacts, RowsTell
  <2>2. job \in Nat /\ row[k] \in Row /\ row[k].updated <= job
    BY DEF TypeOK, ColumnTypes, Times
  <2>3. (k \in Live)' <=> k \in Live
    BY <1>12, TakeDoes DEF Live
  <2>4. row'[k].content = row[k].content
    BY <1>12, TakeDoes
  <2>5. (New(k)' <=> New(k)) /\ (Altered(k)' <=> Altered(k)) /\ (Lost(k)' <=> Lost(k))
    BY <2>1, <2>3, <2>4, KeptSame
  <2>6. StampTells(k)'
    BY <1>12, TakeDoes, <2>1, <2>2, <2>3, <2>5 DEF StampTells
  <2>7. FlagTells(k)'
    BY <1>12, TakeDoes, <2>1, <2>2, <2>3, <2>5 DEF FlagTells, Flagged, ToBePutBack,
       BeforeClearing, Steps
  <2> QED BY <2>6, <2>7
<1>13. ASSUME NEW list \in Lists, ReturnResults(list)
      PROVE  RowsTell'
  BY <1>13, ReturnDoes, <1>0 DEF Exact
<1>14. CASE StoreResultRows
  BY <1>14, StoreDoes, <1>0 DEF ExactFacts, Pictured
<1>15. CASE Report
  <2> SUFFICES ASSUME NEW k \in Keys PROVE StampTells(k)' /\ FlagTells(k)'
    BY DEF RowsTell
  <2>0. ~Start
    BY <1>15, StartDoes, ReportDoes
  <2>1. StampTells(k) /\ FlagTells(k) /\ CountsTell /\ mirror' = mirror
    BY <2>0, <1>0, TellsBefore DEF ExactFacts, RowsTell
  <2>2. job \in Nat /\ row[k] \in Row /\ row[k].updated <= job
    BY DEF TypeOK, ColumnTypes, Times
  <2>3. (k \in Live)' <=> k \in Live
    BY <1>15, ReportDoes DEF Live
  <2>4. row'[k].content = row[k].content
    BY <1>15, ReportDoes
  <2>5. (New(k)' <=> New(k)) /\ (Altered(k)' <=> Altered(k)) /\ (Lost(k)' <=> Lost(k))
    BY <2>1, <2>3, <2>4, KeptSame
  <2>6. StampTells(k)'
    BY <1>15, ReportDoes, <2>1, <2>2, <2>3, <2>5 DEF StampTells
  <2>7. FlagTells(k)'
    BY <1>15, ReportDoes, <2>1, <2>2, <2>3, <2>5 DEF FlagTells, Flagged, ToBePutBack,
       BeforeClearing, Steps
  <2> QED BY <2>6, <2>7
<1>16. CASE LoseReport
  BY <1>16, LoseReportDoes, <1>0 DEF Exact
<1>17. CASE FailSnapshot \/ CutRun
  BY <1>17, CutDoes, <1>0 DEF Exact
<1>18. CASE StartReading
  BY <1>0, <1>18, ReadingEndsTelling
<1>19. CASE ReadPage
  BY <1>0, <1>19, ReadingEndsTelling
<1>20. CASE UNCHANGED <<vars, recordVars>>
  <2>1. UNCHANGED <<present, deleted, pc, step, job, due, page, snapshot, row, summary, mirror>>
    BY <1>20 DEF vars, tables, snapshotTable, recordVars, columns, customer
  <2>2. Telling
    BY <2>1 DEF Telling, Active
  <2>3. RowsTell
    BY <1>0, <2>2 DEF ExactFacts
  <2>4. \A k \in Keys : /\ (New(k)' <=> New(k)) /\ (Altered(k)' <=> Altered(k)) /\ (Lost(k)' <=> Lost(k))
                        /\ ((k \in Live)' <=> k \in Live) /\ ((k \in Flagged)' <=> k \in Flagged)
    BY <2>1 DEF New, Altered, Lost, Live, Flagged
  <2> QED BY <2>1, <2>3, <2>4 DEF RowsTell, StampTells, FlagTells, ToBePutBack
<1> QED BY <1>1, <1>2, <1>3, <1>4, <1>5, <1>6, <1>7, <1>8, <1>9, <1>10, <1>11, <1>12, <1>13,
       <1>14, <1>15, <1>16, <1>17, <1>18, <1>19, <1>20 DEF RecordsNext

\* A part and the rest of it count as much as the whole.
LEMMA Parted ==
    ASSUME NEW S \in SUBSET Keys, NEW T \in SUBSET S
    PROVE  Cardinality(S \ T) + Cardinality(T) = Cardinality(S)
<1>1. IsFiniteSet(S) /\ S \cap T = T
  BY KeysAreFinite
<1>2. Cardinality(S \ T) = Cardinality(S) - Cardinality(T)
  BY <1>1, FS_Difference
<1> QED BY <1>2, KeysAreFinite

LEMMA SameOnes ==
    ASSUME \A k \in Keys : (New(k)' <=> New(k)) /\ (Altered(k)' <=> Altered(k)) /\ (Lost(k)' <=> Lost(k))
    PROVE  NewOnes' = NewOnes /\ AlteredOnes' = AlteredOnes /\ LostOnes' = LostOnes
BY DEF NewOnes, AlteredOnes, LostOnes

LEMMA NoneCounted == NoResult = Count({}, {}, {})
BY FS_EmptySet DEF NoResult, Count

\* getDeletedKeys and the insert that follows find no row of the snapshot flagged.
LEMMA FoundNotFlagged ==
    ASSUME UncutInv, ExactFacts, pc \in {"find", "insert"}
    PROVE  snapshot \cap Flagged = {}
BY DEF UncutInv, ExactFacts, Exact, NeverCut, SnapshotIsPicture

LEMMA NextCountsTell ==
    ASSUME RunInv, UncutInv, ColumnsInv, ColumnsInv', Filled, Filled', FairInv, FairInv',
           ExactInv, Exact', Telling', [RecordsNext]_<<vars, recordVars>>
    PROVE  CountsTell'
<1>0. /\ ExactFacts /\ Fair'
      /\ Pictured' /\ CallFits' /\ Untouched' /\ Alone' /\ OnTime'
      /\ (Active => due = NoDelta /\ page = NoPage)'
  BY FactsStay
<1> USE DEF ColumnsInv
<1>1. CASE Start
  <2>1. \A k \in Keys : ~New(k)' /\ ~Altered(k)'
    BY <1>1, StartsRight
  <2>2. NewOnes' = {} /\ AlteredOnes' = {}
    BY <2>1 DEF NewOnes, AlteredOnes
  <2>3. pc' = "script" /\ step' = "none" /\ result' = NoResult
    BY <1>1, StartDoes
  <2> QED BY <2>2, <2>3, NoneCounted DEF CountsTell, Active
<1>2. ASSUME NEW list \in Lists, NEW softDelete \in BOOLEAN, Save(list, softDelete)
      PROVE  CountsTell'
  <2>0. ~Start
    BY <1>2, StartDoes, SaveDoes
  <2>1. CountsTell /\ RowsTell /\ mirror' = mirror
    BY <2>0, <1>0, TellsBefore DEF ExactFacts
  <2>2. \A k \in Keys : ((k \in Live)' <=> k \in Live) /\ row'[k].content = row[k].content
    BY <1>2, SaveDoes DEF Live
  <2>3. NewOnes' = NewOnes /\ AlteredOnes' = AlteredOnes /\ LostOnes' = LostOnes
    BY <2>1, <2>2, KeptSame, SameOnes
  <2> QED BY <1>2, SaveDoes, <2>1, <2>3 DEF CountsTell, Active
<1>3. CASE UpsertRows
  <2>0. ~Start
    BY <1>3, StartDoes, UpsertDoes
  <2>1. CountsTell /\ RowsTell /\ mirror' = mirror
    BY <2>0, <1>0, TellsBefore DEF ExactFacts
  <2>2. /\ pc = "upsert" /\ pc' = "script" /\ step' \in {"changed", "added", "count"} /\ step = "none"
        /\ summary' = summary /\ result' = result
        /\ Live' = Live \union call.records /\ call.records \subseteq Keys
        /\ \A k \in Keys \ call.records : row'[k] = row[k]
        /\ \A k \in call.records : row'[k].content = batch[k] /\ batch[k] # Gone
    <3>1. pc = "upsert" /\ ~call.softDelete /\ call.records \subseteq Keys
      BY <1>3, UpsertDoes, <1>0 DEF ExactFacts, TypeOK
    <3>2. step = "none"
      BY <3>1 DEF Steps, ColumnTypes
    <3>3. \A k \in call.records : batch[k] # Gone
      BY <3>1, ContentsAssumption DEF Filled, Gone
    <3>4. Live' = Live \union call.records
      BY <1>3, UpsertDoes, <3>1 DEF Live
    <3> QED BY <1>3, UpsertDoes, <3>1, <3>2, <3>3, <3>4
  <2>3. \A k \in call.records : mirror[k] = Was(k) /\ Shown(k) = Was(k)
    <3> SUFFICES ASSUME NEW k \in call.records PROVE mirror[k] = Was(k) /\ Shown(k) = Was(k)
      OBVIOUS
    <3>1. k \in Keys /\ k \notin returned \union flagged /\ "late" \notin odd
      BY <1>0, <2>2 DEF ExactFacts, CallFits, Exact
    <3> QED BY <1>0, <2>2, <3>1 DEF ExactFacts, Untouched, OnTime, BeforeDropping, BeforeClearing
  <2>4. /\ summary.added = call.records \ snapshot
        /\ summary.updated = {k \in call.records \cap snapshot : snapRow[k].content # batch[k]}
    BY <1>0, <2>2 DEF ExactFacts, CallFits
  <2>5. \A k \in Keys \ call.records : (New(k)' <=> New(k)) /\ (Altered(k)' <=> Altered(k))
    BY <2>1, <2>2, KeptSame
  <2>6. \A k \in call.records : /\ ~New(k) /\ (New(k)' <=> k \in summary.added)
                                /\ ~Altered(k) /\ (Altered(k)' <=> k \in summary.updated)
    <3> SUFFICES ASSUME NEW k \in call.records
                 PROVE  /\ ~New(k) /\ (New(k)' <=> k \in summary.added)
                        /\ ~Altered(k) /\ (Altered(k)' <=> k \in summary.updated)
      OBVIOUS
    <3>1. mirror[k] = Was(k) /\ Shown(k) = Was(k) /\ k \in Keys /\ mirror'[k] = mirror[k]
      BY <2>1, <2>2, <2>3
    <3>2. /\ k \in Live => row[k].content \in Contents /\ row[k].content # Gone
          /\ k \in snapshot => snapRow[k].content \in Contents /\ snapRow[k].content # Gone
      BY ContentsAssumption DEF Filled, Gone, Live
    <3>3. ~New(k) /\ ~Altered(k)
      BY <3>1, <3>2 DEF New, Altered, Shown
    <3>4. New(k)' <=> k \in summary.added
      BY <2>2, <2>4, <3>1, <3>2 DEF New, Was
    <3>5. Altered(k)' <=> k \in summary.updated
      BY <2>2, <2>4, <3>1, <3>2 DEF Altered, Was
    <3> QED BY <3>3, <3>4, <3>5
  <2>7. /\ summary.added \subseteq NewOnes' /\ NewOnes' \ summary.added = NewOnes
        /\ summary.updated \subseteq AlteredOnes' /\ AlteredOnes' \ summary.updated = AlteredOnes
    <3>1. summary.added \subseteq call.records /\ summary.updated \subseteq call.records
      BY <2>4
    <3> QED BY <2>2, <2>5, <2>6, <3>1 DEF NewOnes, AlteredOnes
  <2>8. summary.deleted = {}
    BY <2>1, <2>2 DEF CountsTell
  <2> QED BY <2>1, <2>2, <2>7, <2>8 DEF CountsTell, Active
<1>4. CASE SyncUpdateAtForChangedRecords
  <2>0. ~Start
    BY <1>4, StartDoes, ChangedDoes
  <2>1. CountsTell /\ RowsTell /\ mirror' = mirror
    BY <2>0, <1>0, TellsBefore DEF ExactFacts
  <2>2. \A k \in Keys : ((k \in Live)' <=> k \in Live) /\ row'[k].content = row[k].content
    BY <1>4, ChangedDoes DEF Live
  <2>3. NewOnes' = NewOnes /\ AlteredOnes' = AlteredOnes /\ LostOnes' = LostOnes
    BY <2>1, <2>2, KeptSame, SameOnes
  <2> QED BY <1>4, ChangedDoes, <2>1, <2>3 DEF CountsTell, Active
<1>5. CASE SyncCreatedAtForAddedRecords
  <2>0. ~Start
    BY <1>5, StartDoes, AddedDoes
  <2>1. CountsTell /\ RowsTell /\ mirror' = mirror
    BY <2>0, <1>0, TellsBefore DEF ExactFacts
  <2>2. \A k \in Keys : ((k \in Live)' <=> k \in Live) /\ row'[k].content = row[k].content
    BY <1>5, AddedDoes DEF Live
  <2>3. NewOnes' = NewOnes /\ AlteredOnes' = AlteredOnes /\ LostOnes' = LostOnes
    BY <2>1, <2>2, KeptSame, SameOnes
  <2> QED BY <1>5, AddedDoes, <2>1, <2>3 DEF CountsTell, Active
<1>6. CASE UpdateSyncJobResult
  <2>0. ~Start
    BY <1>6, StartDoes, CountDoes
  <2>1. CountsTell /\ RowsTell /\ mirror' = mirror
    BY <2>0, <1>0, TellsBefore DEF ExactFacts
  <2>2. \A k \in Keys : ((k \in Live)' <=> k \in Live) /\ row'[k].content = row[k].content
    BY <1>6, CountDoes DEF Live
  <2>3. NewOnes' = NewOnes /\ AlteredOnes' = AlteredOnes
    BY <2>1, <2>2, KeptSame, SameOnes
  <2>4. /\ pc = "script" /\ step = "count" /\ pc' = "script" /\ step' = "none" /\ result' = Increased
    BY <1>6, CountDoes
  <2>5. /\ summary.added \in SUBSET NewOnes /\ summary.updated \in SUBSET AlteredOnes /\ summary.deleted = {}
        /\ result = Count(NewOnes \ summary.added, AlteredOnes \ summary.updated, {})
    BY <2>1, <2>4 DEF CountsTell
  <2>6. NewOnes \in SUBSET Keys /\ AlteredOnes \in SUBSET Keys
    BY DEF NewOnes, AlteredOnes
  <2>7. /\ Cardinality(NewOnes \ summary.added) + Cardinality(summary.added) = Cardinality(NewOnes)
        /\ Cardinality(AlteredOnes \ summary.updated) + Cardinality(summary.updated) = Cardinality(AlteredOnes)
    BY <2>5, <2>6, Parted
  <2>8. Increased = Count(NewOnes, AlteredOnes, {})
    <3>2. /\ result.added = Cardinality(NewOnes \ summary.added)
          /\ result.updated = Cardinality(AlteredOnes \ summary.updated)
          /\ result.deleted = 0 /\ Cardinality(summary.deleted) = 0
      BY <2>5, FS_EmptySet DEF Count
    <3>3. /\ result.added + Cardinality(summary.added) = Cardinality(NewOnes)
          /\ result.updated + Cardinality(summary.updated) = Cardinality(AlteredOnes)
          /\ result.deleted + Cardinality(summary.deleted) = Cardinality({})
      BY <2>7, <3>2, FS_EmptySet
    <3> QED BY <3>3 DEF Increased, Count
  <2> QED BY <2>3, <2>4, <2>8 DEF CountsTell, Active
<1>7. CASE Finish
  <2>0. ~Start
    BY <1>7, StartDoes, FinishDoes
  <2>1. CountsTell /\ RowsTell /\ mirror' = mirror
    BY <2>0, <1>0, TellsBefore DEF ExactFacts
  <2>2. \A k \in Keys : ((k \in Live)' <=> k \in Live) /\ row'[k].content = row[k].content
    BY <1>7, FinishDoes DEF Live
  <2>3. NewOnes' = NewOnes /\ AlteredOnes' = AlteredOnes /\ LostOnes' = LostOnes
    BY <2>1, <2>2, KeptSame, SameOnes
  <2>4. step = "none" /\ step' = "none" /\ result' = result /\ summary' = summary
    BY <1>7, FinishDoes
  <2>5. CASE pc' # "drop"
    BY <1>7, FinishDoes, <2>1, <2>3, <2>4, <2>5 DEF CountsTell, Active
  <2>6. CASE pc' = "drop"
    <3>1. pc = "find" /\ snapshot \subseteq present
      BY <1>7, FinishDoes, <2>6
    <3>2. summary = NoSummary /\ result = Count(NewOnes, AlteredOnes, {})
      BY <2>1, <2>4, <3>1 DEF Steps, CountsTell
    <3>3. snapshot \cap Flagged = {}
      BY <1>0, <3>1, FoundNotFlagged
    <3>4. ASSUME NEW k \in Keys PROVE ~Lost(k)
      <4>1. mirror[k] = Was(k)
        BY <1>0, <3>1 DEF ExactFacts, OnTime, Exact, BeforeDropping, BeforeClearing
      <4>2. k \notin present => mirror[k] = Gone
        BY <3>1, <4>1 DEF Was
      <4>3. k \in Flagged => mirror[k] = Gone
        BY <3>3, <4>1 DEF Was
      <4> QED BY <4>2, <4>3 DEF Lost, Live, Flagged
    <3>5. LostOnes = {}
      BY <3>4 DEF LostOnes
    <3> QED BY <2>3, <2>4, <2>6, <3>2, <3>5 DEF CountsTell, Active, NoSummary
  <2> QED BY <2>5, <2>6
<1>8. CASE ClearOldRows
  <2>0. ~Start
    BY <1>8, StartDoes, ClearDoes
  <2>1. CountsTell /\ RowsTell /\ mirror' = mirror
    BY <2>0, <1>0, TellsBefore DEF ExactFacts
  <2>2. /\ pc = "clear" /\ pc' = "find" /\ step = "none" /\ step' = "none"
        /\ summary' = summary /\ result' = result
        /\ \A k \in Keys : k \in present \ pending => ((k \in Live)' <=> k \in Live) /\ row'[k] = row[k]
        /\ \A k \in Keys : k \notin present \ pending => ~(k \in Live)'
    BY <1>8, ClearDoes DEF Live
  <2>3. ASSUME NEW k \in Keys PROVE (New(k)' <=> New(k)) /\ (Altered(k)' <=> Altered(k))
    <3>1. CASE k \in present \ pending
      BY <2>1, <2>2, <3>1, KeptSame
    <3>2. CASE k \notin present
      BY <2>1, <2>2, <3>2 DEF New, Altered, Live
    <3>3. CASE k \in pending
      <4>1. k \notin returned \union flagged
        BY <1>0, <3>3 DEF RunInv, TouchedIsCurrent, Current, ExactFacts
      <4>2. mirror[k] = Was(k) /\ Shown(k) = Was(k)
        BY <1>0, <2>2, <4>1 DEF ExactFacts, OnTime, Exact, Untouched, BeforeDropping,
           BeforeClearing
      <4>3. ~New(k) /\ ~Altered(k)
        BY <4>2, ContentsAssumption DEF New, Altered, Shown, Filled, Gone, Live
      <4> QED BY <2>2, <3>3, <4>3 DEF New, Altered
    <3> QED BY <3>1, <3>2, <3>3
  <2>4. NewOnes' = NewOnes /\ AlteredOnes' = AlteredOnes
    BY <2>3 DEF NewOnes, AlteredOnes
  <2> QED BY <2>1, <2>2, <2>4 DEF CountsTell, Active
<1>9. CASE InsertDeletedRows
  <2>0. ~Start
    BY <1>9, StartDoes, InsertDoes
  <2>1. CountsTell /\ RowsTell /\ mirror' = mirror
    BY <2>0, <1>0, TellsBefore DEF ExactFacts
  <2>2. /\ pc = "insert" /\ pc' = "drop" /\ step = "none" /\ step' = "deleted"
        /\ summary'.added = {} /\ summary'.updated = {} /\ summary'.deleted = gone /\ result' = result
        /\ gone = snapshot \ present /\ snapshot \subseteq Keys
        /\ \A k \in Keys : k \in gone => ~(k \in Live) /\ ~(k \in Live)'
        /\ \A k \in Keys : k \notin gone => ((k \in Live)' <=> k \in Live) /\ row'[k] = row[k]
    BY <1>9, InsertDoes, <1>0 DEF Live, ExactFacts, Pictured, TypeOK
  <2>3. snapshot \cap Flagged = {}
    BY <1>0, <2>2, FoundNotFlagged
  <2>4. ASSUME NEW k \in Keys
        PROVE  (New(k)' <=> New(k)) /\ (Altered(k)' <=> Altered(k)) /\ (Lost(k)' <=> k \in gone)
    <3>1. mirror[k] = Was(k)
      BY <1>0, <2>2 DEF ExactFacts, OnTime, Exact, BeforeDropping, BeforeClearing
    <3>2. k \in snapshot => mirror[k] # Gone
      BY <3>1, ContentsAssumption DEF Was, Filled, Gone
    <3>3. CASE k \in gone
      BY <2>1, <2>2, <3>2, <3>3 DEF New, Altered, Lost
    <3>4. CASE k \notin gone
      <4>1. ~Lost(k)
        BY <2>2, <2>3, <3>1, <3>4 DEF Lost, Was, Live, Flagged
      <4> QED BY <2>1, <2>2, <3>4, <4>1, KeptSame
    <3> QED BY <3>3, <3>4
  <2>5. NewOnes' = NewOnes /\ AlteredOnes' = AlteredOnes /\ LostOnes' = gone
    BY <2>2, <2>4 DEF NewOnes, AlteredOnes, LostOnes
  <2> QED BY <2>1, <2>2, <2>5 DEF CountsTell, Active
<1>10. CASE SyncUpdateAtForDeletedRecords
  <2>0. ~Start
    BY <1>10, StartDoes, DeletedDoes
  <2>1. CountsTell /\ RowsTell /\ mirror' = mirror
    BY <2>0, <1>0, TellsBefore DEF ExactFacts
  <2>2. \A k \in Keys : ((k \in Live)' <=> k \in Live) /\ row'[k].content = row[k].content
    BY <1>10, DeletedDoes DEF Live
  <2>3. NewOnes' = NewOnes /\ AlteredOnes' = AlteredOnes /\ LostOnes' = LostOnes
    BY <2>1, <2>2, KeptSame, SameOnes
  <2> QED BY <1>10, DeletedDoes, <2>1, <2>3 DEF CountsTell, Active
<1>11. CASE DropSnapshotRows
  <2>0. ~Start
    BY <1>11, StartDoes, DropDoes
  <2>1. CountsTell /\ RowsTell /\ mirror' = mirror
    BY <2>0, <1>0, TellsBefore DEF ExactFacts
  <2>2. \A k \in Keys : ((k \in Live)' <=> k \in Live) /\ row'[k].content = row[k].content
    BY <1>11, DropDoes DEF Live
  <2>3. NewOnes' = NewOnes /\ AlteredOnes' = AlteredOnes /\ LostOnes' = LostOnes
    BY <2>1, <2>2, KeptSame, SameOnes
  <2> QED BY <1>11, DropDoes, <2>1, <2>3 DEF CountsTell, Active
<1>12. CASE TakeSnapshotRows
  <2>0. ~Start
    BY <1>12, StartDoes, TakeDoes
  <2>1. CountsTell /\ RowsTell /\ mirror' = mirror
    BY <2>0, <1>0, TellsBefore DEF ExactFacts
  <2>2. \A k \in Keys : ((k \in Live)' <=> k \in Live) /\ row'[k].content = row[k].content
    BY <1>12, TakeDoes DEF Live
  <2>3. NewOnes' = NewOnes /\ AlteredOnes' = AlteredOnes /\ LostOnes' = LostOnes
    BY <2>1, <2>2, KeptSame, SameOnes
  <2> QED BY <1>12, TakeDoes, <2>1, <2>3 DEF CountsTell, Active
<1>13. ASSUME NEW list \in Lists, ReturnResults(list)
      PROVE  CountsTell'
  BY <1>13, ReturnDoes, <1>0 DEF Exact
<1>14. CASE StoreResultRows
  BY <1>14, StoreDoes, <1>0 DEF ExactFacts, Pictured
<1>15. CASE Report
  <2>0. ~Start
    BY <1>15, StartDoes, ReportDoes
  <2>1. CountsTell /\ RowsTell /\ mirror' = mirror
    BY <2>0, <1>0, TellsBefore DEF ExactFacts
  <2>2. \A k \in Keys : ((k \in Live)' <=> k \in Live) /\ row'[k].content = row[k].content
    BY <1>15, ReportDoes DEF Live
  <2>3. NewOnes' = NewOnes /\ AlteredOnes' = AlteredOnes /\ LostOnes' = LostOnes
    BY <2>1, <2>2, KeptSame, SameOnes
  <2>4. pc = "idle" /\ step = "report" /\ pc' = "idle" /\ step' = "none" /\ result' = Increased
    BY <1>15, ReportDoes
  <2>5. /\ summary.added = {} /\ summary.updated = {} /\ summary.deleted = LostOnes
        /\ result = Count(NewOnes, AlteredOnes, {})
    BY <2>1, <2>4 DEF CountsTell
  <2>6. NewOnes \in SUBSET Keys /\ AlteredOnes \in SUBSET Keys /\ LostOnes \in SUBSET Keys
    BY DEF NewOnes, AlteredOnes, LostOnes
  <2>7. Cardinality(NewOnes) \in Nat /\ Cardinality(AlteredOnes) \in Nat /\ Cardinality(LostOnes) \in Nat
    BY <2>6, KeysAreFinite
  <2>8. Increased = Count(NewOnes, AlteredOnes, LostOnes)
    BY <2>5, <2>7, FS_EmptySet DEF Increased, Count
  <2> QED BY <2>3, <2>4, <2>8 DEF CountsTell, Active
<1>16. CASE LoseReport
  BY <1>16, LoseReportDoes, <1>0 DEF Exact
<1>17. CASE FailSnapshot \/ CutRun
  BY <1>17, CutDoes, <1>0 DEF Exact
<1>18. CASE StartReading
  BY <1>0, <1>18, ReadingEndsTelling
<1>19. CASE ReadPage
  BY <1>0, <1>19, ReadingEndsTelling
<1>20. CASE UNCHANGED <<vars, recordVars>>
  <2>1. UNCHANGED <<present, deleted, pc, step, job, due, page, snapshot, row, summary, mirror, result>>
    BY <1>20 DEF vars, tables, snapshotTable, recordVars, columns, customer
  <2>2. Telling
    BY <2>1 DEF Telling, Active
  <2>3. CountsTell
    BY <1>0, <2>2 DEF ExactFacts
  <2>4. \A k \in Keys : ((k \in Live)' <=> k \in Live) /\ row'[k].content = row[k].content
    BY <2>1 DEF Live
  <2>5. NewOnes' = NewOnes /\ AlteredOnes' = AlteredOnes /\ LostOnes' = LostOnes
    BY <2>1, <2>4, KeptSame, SameOnes
  <2> QED BY <2>1, <2>3, <2>5 DEF CountsTell, Active
<1> QED BY <1>1, <1>2, <1>3, <1>4, <1>5, <1>6, <1>7, <1>8, <1>9, <1>10, <1>11, <1>12, <1>13,
       <1>14, <1>15, <1>16, <1>17, <1>18, <1>19, <1>20 DEF RecordsNext

LEMMA ExactInvariant == RecordsSpec => []ExactInv
<1>1. RecordsInit => ExactInv
  BY DEF RecordsInit, Init, ExactInv, Telling, Active, BeforeDropping, BeforeClearing, NoDelta
<1>2. RunInv /\ UncutInv /\ ColumnsInv /\ ColumnsInv' /\ Filled /\ Filled' /\ FairInv /\ FairInv'
        /\ ExactInv /\ [RecordsNext]_<<vars, recordVars>> => ExactInv'
  BY NextUnflagged, NextRowsTell, NextCountsTell DEF ExactInv
<1> QED BY <1>1, <1>2, RecordsKeepRunInvs, ColumnsInvariant, FilledInvariant, FairInvariant, PTL
        DEF RecordsSpec

\* The rows that the time of the webhook selects are the ones that the run added,
\* updated and deleted in the customer's copy, each under the word that LastAction
\* gives it; the result counts them; and the filters select by these words (upsert,
\* the stamps of delete.service, updateSyncJobResult, getDataRecords).
THEOREM AnswersTell == RecordsSpec => []AnswersTellWhatChanged
<1>1. ColumnsInv /\ Filled /\ ExactInv => AnswersTellWhatChanged
  <2> DEFINE Tell(word) == {k \in Since(due) : LastAction(k) = word}
             Words == {"added", "updated", "deleted"}
  <2> SUFFICES ASSUME ColumnsInv, Filled, ExactInv, ~Active, complete, due = job, page = NoPage,
                      irregular \subseteq {"empty"}, odd = {}
               PROVE  /\ Tell("added") = {k \in Live : mirror[k] = Gone}
                      /\ Tell("updated") = {k \in Live : mirror[k] \notin {Gone, row[k].content}}
                      /\ Tell("deleted") = {k \in Keys \ Live : mirror[k] # Gone}
                      /\ result = [word \in Words |-> Cardinality(Tell(word))]
                      /\ \A words \in (SUBSET Words) \ {{}, Words} :
                           Filtered(words, Since(due)) = UNION {Tell(word) : word \in words}
    BY DEF AnswersTellWhatChanged
  <2>1. RowsTell /\ result = Count(NewOnes, AlteredOnes, LostOnes)
    BY DEF ExactInv, Exact, Telling, CountsTell
  <2>2. present \subseteq Keys /\ Live \subseteq Keys /\ pc = "idle" /\ step = "none" /\ job \in Nat
    BY DEF Active, ColumnsInv, TypeOK, Live
  <2>3. \A k \in Keys : row[k] \in Row /\ row[k].updated <= job
    BY DEF ColumnsInv, ColumnTypes, Times
  <2>4. ASSUME NEW k \in present
        PROVE  /\ k \in Since(due) <=> row[k].updated = job
               /\ LastAction(k) = IF k \in deleted THEN "deleted"
                                  ELSE IF row[k].created = row[k].updated THEN "added" ELSE "updated"
    BY <2>2, <2>3 DEF Since, LastAction, Row
  <2>5. \A k \in Keys : StampTells(k) /\ FlagTells(k)
    BY <2>1 DEF RowsTell
  <2>6. Tell("added") = NewOnes
    <3>1. ASSUME NEW k \in Keys PROVE k \in Tell("added") <=> New(k)
      BY <2>2, <2>3, <2>4, <2>5 DEF Since, StampTells, New, Altered, Live, Row
    <3> QED BY <2>2, <3>1 DEF NewOnes, Since
  <2>7. Tell("updated") = AlteredOnes
    <3>1. ASSUME NEW k \in Keys PROVE k \in Tell("updated") <=> Altered(k)
      BY <2>2, <2>3, <2>4, <2>5 DEF Since, StampTells, New, Altered, Live, Row
    <3> QED BY <2>2, <3>1 DEF AlteredOnes, Since
  <2>8. Tell("deleted") = LostOnes
    <3>1. ASSUME NEW k \in Keys PROVE k \in Tell("deleted") <=> Lost(k)
      BY <2>2, <2>3, <2>4, <2>5 DEF Since, FlagTells, ToBePutBack, Lost, Flagged, Live, Row
    <3> QED BY <2>2, <3>1 DEF LostOnes, Since
  <2>9. /\ NewOnes = {k \in Live : mirror[k] = Gone}
        /\ AlteredOnes = {k \in Live : mirror[k] \notin {Gone, row[k].content}}
        /\ LostOnes = {k \in Keys \ Live : mirror[k] # Gone}
    BY <2>2 DEF NewOnes, AlteredOnes, LostOnes, New, Altered, Lost
  <2>10. result = [word \in Words |-> Cardinality(Tell(word))]
    <3> HIDE DEF Tell
    <3> QED BY <2>1, <2>6, <2>7, <2>8 DEF Count
  <2>11. ASSUME NEW words \in (SUBSET Words) \ {{}, Words}
         PROVE  Filtered(words, Since(due)) = UNION {Tell(word) : word \in words}
    <3>1. \A k \in Since(due) : LastAction(k) \in Words /\ (LastAction(k) = "deleted" <=> k \in deleted)
      BY DEF LastAction
    <3>2. UNION {Tell(word) : word \in words} = {k \in Since(due) : LastAction(k) \in words}
      OBVIOUS
    <3>3. \/ words = {"added"} \/ words = {"updated"} \/ words = {"deleted"}
          \/ words = {"added", "updated"} \/ words = {"updated", "deleted"} \/ words = {"added", "deleted"}
      <4>1. \E w \in Words : w \notin words
        BY <2>11
      <4>2. words \subseteq Words /\ \E w \in Words : w \in words
        BY <2>11
      <4>3. ASSUME NEW u \in Words, NEW d \in Words, words \subseteq {u, d}
            PROVE  words \in {{u}, {d}, {u, d}}
        <5>1. CASE u \notin words
          <6>1. d \in words /\ \A w \in words : w = d
            BY <4>2, <4>3, <5>1
          <6>2. words = {d}
            BY <6>1
          <6> QED BY <6>2
        <5>2. CASE d \notin words
          <6>1. u \in words /\ \A w \in words : w = u
            BY <4>2, <4>3, <5>2
          <6>2. words = {u}
            BY <6>1
          <6> QED BY <6>2
        <5>3. CASE u \in words /\ d \in words
          BY <4>3, <5>3
        <5> QED BY <5>1, <5>2, <5>3
      <4>4. \/ words \subseteq {"updated", "deleted"} \/ words \subseteq {"added", "deleted"}
            \/ words \subseteq {"added", "updated"}
        BY <4>1, <4>2
      <4>5. CASE words \subseteq {"updated", "deleted"}
        BY <4>3, <4>5
      <4>6. CASE words \subseteq {"added", "deleted"}
        BY <4>3, <4>6
      <4>7. CASE words \subseteq {"added", "updated"}
        BY <4>3, <4>7
      <4> QED BY <4>4, <4>5, <4>6, <4>7
    <3> HIDE DEF Tell
    <3>4. CASE words = {"added"}
      BY <3>1, <3>2, <3>4 DEF Filtered
    <3>5. CASE words = {"updated"}
      BY <3>1, <3>2, <3>5 DEF Filtered
    <3>6. CASE words = {"deleted"}
      BY <3>1, <3>2, <3>6 DEF Filtered
    <3>7. CASE words = {"added", "updated"}
      BY <3>1, <3>2, <3>7 DEF Filtered
    <3>8. CASE words = {"updated", "deleted"}
      BY <3>1, <3>2, <3>8 DEF Filtered
    <3>9. CASE words = {"added", "deleted"}
      BY <3>1, <3>2, <3>9 DEF Filtered
    <3> QED BY <3>3, <3>4, <3>5, <3>6, <3>7, <3>8, <3>9
  <2> QED BY <2>6, <2>7, <2>8, <2>9, <2>10, <2>11
<1> QED BY <1>1, ColumnsInvariant, FilledInvariant, ExactInvariant, PTL

-----------------------------------------------------------------------------

Kinded == {"add", "change", "unlink"}
CommandLocations == {"idle", "scaffold", "generate", "scripts", "check", "lookup", "tsc", "flows", "glob", "compiling",
              "run", "running", "package", "confirm", "send"}
SentType == [Scripts -> [js : Texts, ts : Texts]]
CommandType == [pc : CommandLocations, name : Names \cup {None}, only : SUBSET Scripts, named : SUBSET Flows, config : Yamls,
                todo : SUBSET Scripts, sent : SentType, body : Yamls, flows : 1..2,
                compiled : SUBSET Scripts, touched : SUBSET Scripts, changed : BOOLEAN]
ModelsType == [interface : BOOLEAN, of : Yamls, flows : 0..2, written : BOOLEAN]
DevType == [pc : {"off", "crashed", "watching", "interfaces", "flows"}, config : Yamls, watch : BOOLEAN]

Types ==
    /\ yaml \in Yamls /\ ts \in [Scripts -> Texts] /\ dist \in [Scripts -> Texts]
    /\ models \in ModelsType /\ dev \in DevType
    /\ events \in [Scripts -> Seq(Kinded)]
    /\ changes \in [tsc : Nat, config : Nat] /\ changes.tsc <= edits /\ changes.config <= edits
    /\ command \in CommandType
    /\ edits \in 0..MaxEdits /\ commands \in 0..MaxCommands /\ starts \in 0..MaxStarts
    /\ doubts \subseteq Doubts

(***************************************************************************)
(* The values the steps build.                                             *)
(***************************************************************************)

LEMMA YamlTypes ==
    /\ Missing \in Yamls /\ Default \in Yamls /\ Default # Missing /\ Missing.models = "absent"
    /\ \A c \in Configs : c \in Yamls /\ c # Missing
BY ConfigsAssumption, MissingAssumption DEF Yamls, Missing

LEMMA TextTypes ==
    /\ NoFile \in Texts /\ NoFile.kind = None
    /\ \A k \in Kinds, n \in 0..MaxEdits :
          Text(k, n) \in Texts /\ Text(k, n).kind = k /\ Text(k, n) # NoFile
    /\ None \notin Kinds
BY DEF NoFile, Texts, Text, Kinds, None

LEMMA LocalTypes ==
    /\ NoCommand \in CommandType /\ NoModels \in ModelsType /\ DevOff \in DevType /\ Nothing \in SentType
    /\ NoCommand.pc = "idle" /\ NoCommand.name = None /\ NoCommand.compiled = {} /\ NoCommand.flows = 1
    /\ NoModels.written = FALSE /\ DevOff.pc = "off"
<1>1. Nothing \in SentType
  BY TextTypes DEF Nothing, SentType
<1>2. NoCommand \in CommandType
  BY <1>1, YamlTypes DEF NoCommand, CommandType, CommandLocations
<1> QED BY <1>1, <1>2, YamlTypes DEF NoModels, ModelsType, DevOff, DevType, NoCommand

LEMMA NoneNotName == None \notin Names /\ None \notin {"dryrun", "deploy", "admin"}
BY DEF None, Names

\* The last of the events.
Newest(q) == q[Len(q)]

LEMMA AppendIs ==
    ASSUME NEW q \in Seq(Kinded), NEW e \in Kinded
    PROVE  Append(q, e) \in Seq(Kinded) /\ Append(q, e) # <<>> /\ Newest(Append(q, e)) = e
BY DEF Newest

LEMMA TailIs ==
    ASSUME NEW q \in Seq(Kinded), q # <<>>
    PROVE  /\ Tail(q) \in Seq(Kinded) /\ Head(q) \in Kinded
           /\ Tail(q) # <<>> => Newest(Tail(q)) = Newest(q)
           /\ Tail(q) = <<>> => Newest(q) = Head(q)
<1>1. Len(q) \in Nat /\ Len(q) # 0 /\ Len(Tail(q)) = Len(q) - 1 /\ Head(q) = q[1]
  OBVIOUS
<1>2. \A i \in 1..(Len(q) - 1) : Tail(q)[i] = q[i + 1]
  BY <1>1
<1>6. \A t \in Seq(Kinded) : t = <<>> <=> Len(t) = 0
  OBVIOUS
<1>7. Tail(q) \in Seq(Kinded)
  BY <1>1
<1>3. Tail(q) \in Seq(Kinded) /\ (Tail(q) = <<>> <=> Len(Tail(q)) = 0)
  BY <1>6, <1>7
<1>4. Head(q) \in Kinded
  BY <1>1
<1>5. ASSUME Tail(q) # <<>> PROVE Newest(Tail(q)) = Newest(q)
  <2>1. Len(q) - 1 \in 1..(Len(q) - 1)
    BY <1>1, <1>3, <1>5
  <2>2. Tail(q)[Len(q) - 1] = q[(Len(q) - 1) + 1]
    BY <1>2, <2>1
  <2>3. (Len(q) - 1) + 1 = Len(q)
    BY <1>1
  <2> QED BY <1>1, <2>2, <2>3 DEF Newest
<1> QED BY <1>1, <1>3, <1>4, <1>5 DEF Newest

(***************************************************************************)
(* What becomes of the command, of the events and of models.ts.            *)
(***************************************************************************)

\* The command has moved to place.
Moved(place) ==
    /\ command' \in CommandType /\ command'.pc = place
    /\ command'.name = command.name /\ command'.only = command.only /\ command'.config = command.config
    /\ command'.named = command.named /\ command'.todo = command.todo /\ command'.sent = command.sent /\ command'.body = command.body
    /\ command'.flows = command.flows /\ command'.compiled = command.compiled
    /\ command'.touched = command.touched /\ command'.changed = command.changed

\* The scripts of S are touched, if that matters to the command.
Touched(S) ==
    /\ command' \in CommandType /\ command'.pc = command.pc
    /\ command'.name = command.name /\ command'.only = command.only /\ command'.config = command.config
    /\ command'.named = command.named /\ command'.todo = command.todo /\ command'.sent = command.sent /\ command'.body = command.body
    /\ command'.flows = command.flows /\ command'.compiled = command.compiled
    /\ command'.changed = command.changed
    /\ command'.touched = IF command.name \in {"dryrun", "deploy", "admin"} THEN command.touched \cup S
                          ELSE command.touched

Ended ==
    /\ command' \in CommandType /\ command'.pc = "idle" /\ command'.name = None
    /\ command'.compiled = {} /\ command'.flows = 1

LEMMA Sets ==
    ASSUME Types, NEW place \in CommandLocations, Set(place)
    PROVE  Moved(place)
BY DEF Types, Set, Moved, CommandType

LEMMA Touches ==
    ASSUME Types, NEW S \in SUBSET Scripts, Touch(S)
    PROVE  Touched(S)
<1>1. CASE command.name \in {"dryrun", "deploy", "admin"}
  <2>1. command' = [command EXCEPT !.touched = @ \cup S]
    BY <1>1 DEF Touch
  <2>2. command \in CommandType /\ command.touched \cup S \in SUBSET Scripts
    BY DEF Types, CommandType
  <2> QED BY <1>1, <2>1, <2>2 DEF Touched, CommandType
<1>2. CASE command.name \notin {"dryrun", "deploy", "admin"}
  BY <1>2 DEF Types, Touch, Touched
<1> QED BY <1>1, <1>2

LEMMA Ends == ASSUME End PROVE Ended
BY LocalTypes DEF End, Ended

\* Script s has another event, e, if the watchers run; its first event is handled.
ToldOf(s, e) ==
    /\ events' \in [Scripts -> Seq(Kinded)]
    /\ Running => events'[s] # <<>> /\ Newest(events'[s]) = e /\ \A q \in Scripts : q # s => events'[q] = events[q]
    /\ ~Running => events' = events

Handled(s) ==
    /\ events' \in [Scripts -> Seq(Kinded)]
    /\ events'[s] # <<>> => Newest(events'[s]) = Newest(events[s])
    /\ events'[s] = <<>> => Newest(events[s]) = Head(events[s])
    /\ \A q \in Scripts : q # s => events'[q] = events[q]

LEMMA Tells ==
    ASSUME Types, NEW s \in Scripts, NEW e \in Kinded, Told(s, e)
    PROVE  ToldOf(s, e)
BY AppendIs DEF Types, Told, ToldOf

LEMMA Handles ==
    ASSUME Types, NEW s \in Scripts, events[s] # <<>>, events' = [events EXCEPT ![s] = Tail(@)]
    PROVE  Handled(s)
BY TailIs DEF Types, Handled

\* models.ts has the interfaces of c; it is appended NangoFlows n times.
Built(c) ==
    /\ models' \in ModelsType /\ models'.written = TRUE
    /\ c.models # "absent" => (models'.interface <=> Defined(c)) /\ models'.flows = 0

Appended(n) ==
    /\ models' \in ModelsType /\ models'.written = models.written /\ models'.interface = models.interface
    /\ models'.of = yaml
    /\ models.flows = 0 => models'.flows = n

LEMMA Builds ==
    ASSUME Types, NEW c \in Yamls, BuildInterfaces(c)
    PROVE  Built(c)
<1>1. CASE c.models = "absent"
  BY <1>1 DEF Types, ModelsType, BuildInterfaces, Built
<1>2. CASE c.models # "absent"
  <2>1. models' = [interface |-> Defined(c), of |-> Missing, flows |-> 0, written |-> TRUE]
    BY <1>2 DEF BuildInterfaces
  <2>2. Defined(c) \in BOOLEAN /\ (0 \in 0..2)
    BY DEF Defined
  <2>3. models' \in ModelsType
    BY <2>1, <2>2, YamlTypes DEF ModelsType
  <2>4. models'.interface = Defined(c) /\ models'.flows = 0 /\ models'.written = TRUE
    BY <2>1
  <2> QED BY <2>3, <2>4 DEF Built
<1> QED BY <1>1, <1>2

LEMMA Appends ==
    ASSUME Types, NEW n \in 1..2, AppendFlows(n)
    PROVE  Appended(n)
<1>1. (IF models.flows + n > 2 THEN 2 ELSE models.flows + n) \in 0..2
  BY DEF Types, ModelsType
<1> DEFINE m == IF models.flows + n > 2 THEN 2 ELSE models.flows + n
<1>2. models' = [models EXCEPT !.of = yaml, !.flows = m]
  BY DEF AppendFlows
<1>3. models.flows = 0 => m = n
  OBVIOUS
<1>4. m \in 0..2
  BY <1>1
<1> HIDE DEF m
<1> QED BY <1>2, <1>3, <1>4 DEF Types, ModelsType, Appended

Stale == {"away", "absent", "beside", "scaffold", "refused"}

\* What is doubted when the interfaces of c have been written.
DoubtedOf(c, beside, new) ==
    /\ new \subseteq Doubts
    /\ new \cap Stale = {} => c.models # "absent" /\ ~beside
    /\ beside => "beside" \in new
    /\ "interfaces" \notin new => "interfaces" \notin doubts /\ (Running => models'.interface = models.interface)

LEMMA DoubtsAre ==
    ASSUME Types, NEW c, NEW beside \in BOOLEAN
    PROVE  DoubtedOf(c, beside, DoubtsAboutModels(c, beside))
BY DEF Types, DoubtsAboutModels, DoubtedOf, Stale, Doubts

(***************************************************************************)
(* What every step does.                                                   *)
(***************************************************************************)

LEMMA EditDoes ==
    ASSUME Types, Edit
    PROVE  /\ edits' = edits + 1 /\ edits' \in 0..MaxEdits
           /\ UNCHANGED <<models, dist, dev, commands, starts>>
BY BoundsAssumption DEF Types, Edit

LEMMA SaveScriptDoes ==
    ASSUME Types, NEW s \in Scripts, NEW k \in Kinds, SaveScript(s, k)
    PROVE  /\ ts' \in [Scripts -> Texts] /\ ts'[s] # NoFile /\ \A q \in Scripts : q # s => ts'[q] = ts[q]
           /\ \E e \in {"add", "change"} : ToldOf(s, e)
           /\ Touched({s})
           /\ edits' = edits + 1 /\ edits' \in 0..MaxEdits
           /\ UNCHANGED <<yaml, models, dist, dev, changes, commands, starts, doubts>>
<1>1. edits' = edits + 1 /\ edits' \in 0..MaxEdits /\ UNCHANGED <<models, dist, dev, commands, starts>>
  BY EditDoes DEF SaveScript
<1>2. Text(k, edits + 1) \in Texts /\ Text(k, edits + 1) # NoFile
  BY <1>1, TextTypes
<1>3. ts' = [ts EXCEPT ![s] = Text(k, edits + 1)] /\ UNCHANGED <<yaml, changes, doubts>>
  BY DEF SaveScript
<1>4. ts' \in [Scripts -> Texts] /\ ts'[s] # NoFile /\ \A q \in Scripts : q # s => ts'[q] = ts[q]
  BY <1>2, <1>3 DEF Types
<1>5. Now(s) \in {"add", "change"} /\ Now(s) \in Kinded
  BY DEF Now, Kinded
<1>6. ToldOf(s, Now(s)) /\ Touched({s})
  BY <1>5, Tells, Touches DEF SaveScript
<1> QED BY <1>1, <1>3, <1>4, <1>5, <1>6

LEMMA RemoveScriptDoes ==
    ASSUME Types, NEW s \in Scripts, RemoveScript(s)
    PROVE  /\ ts' \in [Scripts -> Texts] /\ ts'[s] = NoFile /\ \A q \in Scripts : q # s => ts'[q] = ts[q]
           /\ ToldOf(s, "unlink")
           /\ Touched({s})
           /\ edits' = edits + 1 /\ edits' \in 0..MaxEdits
           /\ UNCHANGED <<yaml, models, dist, dev, changes, commands, starts, doubts>>
<1>1. edits' = edits + 1 /\ edits' \in 0..MaxEdits /\ UNCHANGED <<models, dist, dev, commands, starts>>
  BY EditDoes DEF RemoveScript
<1>2. ts' = [ts EXCEPT ![s] = NoFile] /\ UNCHANGED <<yaml, changes, doubts>>
  BY DEF RemoveScript
<1>3. ts' \in [Scripts -> Texts] /\ ts'[s] = NoFile /\ \A q \in Scripts : q # s => ts'[q] = ts[q]
  BY <1>2, TextTypes DEF Types
<1>4. ToldOf(s, "unlink") /\ Touched({s})
  BY Tells, Touches DEF RemoveScript, Kinded
<1> QED BY <1>1, <1>2, <1>3, <1>4

LEMMA SaveConfigDoes ==
    ASSUME Types, NEW c \in Configs, SaveConfig(c)
    PROVE  /\ yaml # Missing /\ yaml' = c /\ c # Missing /\ yaml' \in Yamls
           /\ changes' \in [tsc : Nat, config : Nat]
           /\ Running => changes'.tsc = changes.tsc + 1
                         /\ changes'.config = changes.config + (IF dev.watch THEN 1 ELSE 0)
           /\ ~Running => changes' = changes
           /\ command' \in CommandType /\ command'.pc = command.pc
           /\ command'.name = command.name /\ command'.only = command.only /\ command'.config = command.config
           /\ command'.named = command.named /\ command'.todo = command.todo /\ command'.sent = command.sent /\ command'.body = command.body
           /\ command'.flows = command.flows /\ command'.compiled = command.compiled
           /\ command'.touched = command.touched /\ (command.name \in {"deploy", "admin"} => command'.changed = TRUE)
           /\ doubts' = (IF Running /\ dev.watch THEN doubts ELSE doubts \cup {"away"}) /\ doubts' \subseteq Doubts
           /\ edits' = edits + 1 /\ edits' \in 0..MaxEdits
           /\ UNCHANGED <<ts, models, dist, dev, events, commands, starts>>
<1>1. edits' = edits + 1 /\ edits' \in 0..MaxEdits /\ UNCHANGED <<models, dist, dev, commands, starts>>
  BY EditDoes DEF SaveConfig
<1>2. yaml # Missing /\ yaml' = c /\ c # Missing /\ yaml' \in Yamls /\ UNCHANGED <<ts, events>>
  BY YamlTypes DEF SaveConfig
<1>3. /\ changes' \in [tsc : Nat, config : Nat]
      /\ Running => changes'.tsc = changes.tsc + 1
                    /\ changes'.config = changes.config + (IF dev.watch THEN 1 ELSE 0)
      /\ ~Running => changes' = changes
  BY DEF Types, SaveConfig, ToldOfConfig
<1>4. doubts' = (IF Running /\ dev.watch THEN doubts ELSE doubts \cup {"away"}) /\ doubts' \subseteq Doubts
  BY DEF Types, SaveConfig, Doubts
<1>5. command' = [command EXCEPT !.changed = (command.name \in {"deploy", "admin"})] /\ command \in CommandType
  BY DEF Types, SaveConfig
<1>6. (command.name \in {"deploy", "admin"}) \in BOOLEAN
  OBVIOUS
<1>7. /\ command' \in CommandType /\ command'.pc = command.pc
      /\ command'.name = command.name /\ command'.only = command.only /\ command'.config = command.config
      /\ command'.named = command.named /\ command'.todo = command.todo /\ command'.sent = command.sent /\ command'.body = command.body
      /\ command'.flows = command.flows /\ command'.compiled = command.compiled
      /\ command'.touched = command.touched /\ command'.changed = (command.name \in {"deploy", "admin"})
  BY <1>5, <1>6 DEF CommandType
<1> QED BY <1>1, <1>2, <1>3, <1>4, <1>7

\* dev has stopped, or crashed.
Halted(place) ==
    /\ dev' \in DevType /\ dev'.pc = place
    /\ events' \in [Scripts -> Seq(Kinded)] /\ \A s \in Scripts : events'[s] = <<>>
    /\ changes' \in [tsc : Nat, config : Nat] /\ changes'.tsc = 0 /\ changes'.config = 0

LEMMA Halts ==
    ASSUME NEW place \in {"off", "crashed"}, dev' = [DevOff EXCEPT !.pc = place],
           events' = [s \in Scripts |-> <<>>], changes' = [tsc |-> 0, config |-> 0]
    PROVE  Halted(place)
BY LocalTypes DEF Halted, DevType

LEMMA Crashes == ASSUME Crash PROVE Halted("crashed")
BY Halts DEF Crash

LEMMA StartDevDoes ==
    ASSUME Types, NEW w \in BOOLEAN, StartDev(w)
    PROVE  /\ dev.pc \in {"off", "crashed"} /\ yaml # Missing
           /\ \/ Halted("crashed")
              \/ /\ dev' \in DevType /\ dev'.pc = IF models.written THEN "watching" ELSE "interfaces"
                 /\ events' \in [Scripts -> Seq(Kinded)]
                 /\ \A s \in Scripts : events'[s] = IF ts[s] # NoFile THEN <<"add">> ELSE <<>>
                 /\ UNCHANGED changes
           /\ starts' \in 0..MaxStarts
           /\ UNCHANGED <<yaml, ts, models, dist, command, edits, commands, doubts>>
<1>1. starts' \in 0..MaxStarts
  BY BoundsAssumption DEF Types, StartDev
<1>2. CASE Unreadable(yaml)
  BY <1>1, <1>2, Crashes DEF StartDev, files
<1>3. CASE ~Unreadable(yaml)
  <2>1. <<"add">> \in Seq(Kinded) /\ <<>> \in Seq(Kinded)
    BY DEF Kinded
  <2>2. dev' = [pc |-> IF models.written THEN "watching" ELSE "interfaces", config |-> yaml, watch |-> w]
        /\ events' = [s \in Scripts |-> IF s \in Existing THEN <<"add">> ELSE <<>>]
        /\ UNCHANGED changes
    BY <1>3 DEF StartDev
  <2>3. events' \in [Scripts -> Seq(Kinded)] /\ \A s \in Scripts : events'[s] = IF ts[s] # NoFile THEN <<"add">> ELSE <<>>
    BY <2>1, <2>2 DEF Existing
  <2>4. dev' \in DevType /\ dev'.pc = (IF models.written THEN "watching" ELSE "interfaces")
    BY <2>2 DEF Types, DevType
  <2> QED BY <1>1, <2>2, <2>3, <2>4 DEF StartDev, files
<1> QED BY <1>2, <1>3

LEMMA StopDevDoes ==
    ASSUME Types, StopDev
    PROVE  /\ dev.pc # "off" /\ Halted("off")
           /\ doubts' = (IF changes.config > 0 \/ dev.pc = "flows" THEN doubts \cup {"away"} ELSE doubts)
           /\ doubts' \subseteq Doubts
           /\ UNCHANGED <<yaml, ts, models, dist, command, edits, commands, starts>>
<1>1. DevOff \in DevType /\ DevOff.pc = "off"
  BY LocalTypes
<1>2. Halted("off")
  BY <1>1 DEF StopDev, Halted
<1> QED BY <1>2 DEF Types, StopDev, Doubts, files, bounds

LEMMA CompileIs ==
    ASSUME Types, NEW S \in SUBSET Scripts, NEW c
    PROVE  /\ Compiled(S, c) \in [Scripts -> Texts]
           /\ \A s \in Scripts : /\ Compiled(S, c)[s] \in {ts[s], dist[s]}
                                 /\ s \in S /\ Compiles(s, c) => Compiled(S, c)[s] = ts[s]
                                 /\ s \notin S => Compiled(S, c)[s] = dist[s]
                                 /\ dist[s].kind # "wrong" => Compiled(S, c)[s].kind # "wrong"
BY DEF Types, Compiled, Compiles, NangoCallsAreUsedCorrectly

LEMMA CompileFileDoes ==
    ASSUME Types, NEW s \in Scripts, CompileFile(s)
    PROVE  /\ dev.pc = "watching" /\ events[s] # <<>> /\ Handled(s)
           /\ dist' = Compiled({s}, dev.config)
           /\ UNCHANGED <<yaml, ts, models, dev, changes, command, edits, commands, starts, doubts>>
BY Handles DEF CompileFile, Watching, Handling, bounds

LEMMA UnlinkFileDoes ==
    ASSUME Types, NEW s \in Scripts, UnlinkFile(s)
    PROVE  /\ dev.pc = "watching" /\ events[s] # <<>> /\ Head(events[s]) = "unlink"
           /\ Touched({s})
           /\ \/ /\ Halted("crashed")
                 /\ doubts' = (IF changes.config > 0 THEN doubts \cup {"away"} ELSE doubts)
                 /\ UNCHANGED dist
              \/ /\ Handled(s)
                 /\ dist' \in [Scripts -> Texts] /\ dist'[s] = NoFile
                 /\ \A q \in Scripts : q # s => dist'[q] = dist[q]
                 /\ UNCHANGED <<dev, changes, doubts>>
           /\ doubts' \subseteq Doubts
           /\ UNCHANGED <<yaml, ts, models, edits, commands, starts>>
<1>1. Touched({s})
  BY Touches DEF UnlinkFile
<1>2. CASE dist[s] = NoFile
  <2>1. Halted("crashed")
    BY <1>2, Crashes DEF UnlinkFile
  <2> QED BY <1>1, <1>2, <2>1 DEF Types, UnlinkFile, Watching, Doubts, bounds
<1>3. CASE dist[s] # NoFile
  <2>1. Handled(s)
    BY <1>3, Handles DEF UnlinkFile
  <2>2. dist' = [dist EXCEPT ![s] = NoFile]
    BY <1>3 DEF UnlinkFile
  <2>3. dist' \in [Scripts -> Texts] /\ dist'[s] = NoFile /\ \A q \in Scripts : q # s => dist'[q] = dist[q]
    BY <2>2, TextTypes DEF Types
  <2> QED BY <1>1, <1>3, <2>1, <2>3 DEF Types, UnlinkFile, Watching, bounds
<1> QED BY <1>2, <1>3

LEMMA RecompileAllDoes ==
    ASSUME Types, RecompileAll
    PROVE  /\ dev.pc = "watching"
           /\ changes' \in [tsc : Nat, config : Nat] /\ changes'.tsc <= changes.tsc
           /\ changes'.config = changes.config
           /\ dist' = Compiled(Scripts, dev.config)
           /\ doubts' = doubts \ {"interfaces"}
           /\ UNCHANGED <<yaml, ts, models, dev, events, command, edits, commands, starts>>
<1>1. changes' = [changes EXCEPT !.tsc = @ - 1] /\ changes.tsc > 0 /\ changes \in [tsc : Nat, config : Nat]
  BY DEF Types, RecompileAll
<1>2. changes' \in [tsc : Nat, config : Nat] /\ changes'.tsc <= changes.tsc /\ changes'.config = changes.config
  BY <1>1
<1> QED BY <1>2 DEF RecompileAll, Watching, Handling, bounds

LEMMA CreateModelFileDoes ==
    ASSUME Types, CreateModelFile
    PROVE  /\ dev.pc \in {"watching", "interfaces"}
           /\ \/ Halted("crashed") /\ doubts' = doubts \cup {"refused"} /\ UNCHANGED models
              \/ /\ changes' \in [tsc : Nat, config : Nat] /\ changes'.tsc = changes.tsc
                 /\ changes'.config <= changes.config
                 /\ dev' \in DevType /\ dev'.pc = "flows" /\ dev'.config = dev.config
                 /\ Built(yaml) /\ DoubtedOf(yaml, Appending, doubts') /\ UNCHANGED events
           /\ doubts' \subseteq Doubts
           /\ UNCHANGED <<yaml, ts, dist, command, edits, commands, starts>>
<1>1. /\ dev.pc \in {"watching", "interfaces"}
      /\ UNCHANGED <<yaml, ts, dist, command, edits, commands, starts>>
  BY DEF CreateModelFile, Watching, Handling, bounds
<1>2. CASE BuildFails(yaml)
  BY <1>1, <1>2, Crashes DEF Types, CreateModelFile, Refused, Doubts
<1>3. CASE ~BuildFails(yaml)
  <2>1. /\ changes' \in [tsc : Nat, config : Nat] /\ changes'.tsc = changes.tsc
        /\ changes'.config <= changes.config
    <3>1. changes \in [tsc : Nat, config : Nat]
      BY DEF Types
    <3> QED BY <1>3, <3>1 DEF CreateModelFile, Watching
  <2>2. dev' \in DevType /\ dev'.pc = "flows" /\ dev'.config = dev.config
    BY <1>3 DEF Types, CreateModelFile, DevType
  <2>3. Built(yaml)
    BY <1>3, Builds DEF Types, CreateModelFile
  <2>4. Appending \in BOOLEAN
    BY DEF Appending
  <2>5. DoubtedOf(yaml, Appending, doubts')
    BY <1>3, <2>4, DoubtsAre DEF CreateModelFile
  <2> QED BY <1>1, <1>3, <2>1, <2>2, <2>3, <2>5 DEF CreateModelFile, DoubtedOf
<1> QED BY <1>2, <1>3

LEMMA ModelFileFlowsDoes ==
    ASSUME Types, ModelFileFlows
    PROVE  /\ dev.pc = "flows"
           /\ \/ Halted("crashed") /\ doubts' = doubts \cup {"refused"} /\ UNCHANGED models
              \/ /\ dev' \in DevType /\ dev'.pc = "watching" /\ dev'.config = dev.config
                 /\ Appended(1) /\ UNCHANGED <<events, changes, doubts>>
           /\ doubts' \subseteq Doubts
           /\ UNCHANGED <<yaml, ts, dist, command, edits, commands, starts>>
<1>1. CASE Unreadable(yaml)
  BY <1>1, Crashes DEF Types, ModelFileFlows, Refused, Doubts, Handling, bounds
<1>2. CASE ~Unreadable(yaml)
  <2>1. dev' \in DevType /\ dev'.pc = "watching" /\ dev'.config = dev.config
    BY <1>2 DEF Types, ModelFileFlows, DevType
  <2>2. Appended(1)
    BY <1>2, Appends DEF ModelFileFlows
  <2> QED BY <1>2, <2>1, <2>2 DEF Types, ModelFileFlows, Handling, bounds
<1> QED BY <1>1, <1>2

\* The commands that compile.
Compilers == {"compile", "dryrun", "deploy", "admin"}

LEMMA BeginDoes ==
    ASSUME Types, NEW name \in Names, NEW S \in SUBSET Scripts, Begin(name, S)
    PROVE  /\ command.pc = "idle"
           /\ command' \in CommandType
           /\ command'.pc \in {"scaffold", "generate", "check", "lookup", "tsc"}
           /\ command'.pc = "scaffold" <=> yaml = Missing
           /\ command'.pc \in {"check", "lookup", "tsc"} => name \in Compilers
           /\ command'.name = name /\ command'.compiled = {} /\ command'.flows = 1
           /\ commands' \in 0..MaxCommands
           /\ UNCHANGED <<yaml, ts, models, dist, dev, events, changes, edits, starts, doubts>>
<1> DEFINE place == CASE yaml = Missing -> "scaffold"
                   [] yaml # Missing /\ name \in {"init", "generate"} -> "generate"
                   [] OTHER -> First(name)
<1>1. /\ place \in {"scaffold", "generate", "check", "lookup", "tsc"} /\ (place = "scaffold" <=> yaml = Missing)
      /\ place \in {"check", "lookup", "tsc"} => name \in Compilers
  <2>1. CASE yaml = Missing
    BY <2>1
  <2>2. CASE yaml # Missing /\ name \in {"init", "generate"}
    BY <2>2
  <2>3. CASE yaml # Missing /\ name \notin {"init", "generate"}
    <3>1. First(name) \in {"check", "lookup", "tsc"} /\ name \in Compilers
      BY <2>3 DEF Begin, First, Names, Compilers
    <3> QED BY <2>3, <3>1
  <2> QED BY <2>1, <2>2, <2>3
<1>2. command' = [NoCommand EXCEPT !.name = name, !.only = S, !.pc = place]
  BY DEF Begin
<1>3. commands' \in 0..MaxCommands
  BY BoundsAssumption DEF Types, Begin
<1> HIDE DEF place
<1>4. /\ command' \in CommandType /\ command'.pc = place /\ command'.name = name /\ command'.compiled = {}
      /\ command'.flows = 1
  BY <1>1, <1>2, LocalTypes DEF CommandType, CommandLocations
<1> QED BY <1>1, <1>3, <1>4 DEF Begin, files, watched

LEMMA ScaffoldDoes ==
    ASSUME Types, Scaffold
    PROVE  /\ command.pc = "scaffold"
           /\ yaml' = Default /\ yaml' \in Yamls /\ Built(Default)
           /\ \E new : DoubtedOf(Default, dev.pc = "flows", new)
                       /\ doubts' = new \cup (IF command.name = "init" THEN {} ELSE {"scaffold"})
           /\ doubts' \subseteq Doubts
           /\ command' \in CommandType /\ command'.pc = "scripts" /\ command'.name = command.name
           /\ command'.flows = (IF command.name = "init" THEN 1 ELSE 2)
           /\ command'.compiled = command.compiled
           /\ UNCHANGED <<ts, dist, dev, events, changes, edits, commands, starts>>
<1>1. Built(Default) /\ yaml' \in Yamls
  BY Builds, YamlTypes DEF Scaffold
<1>2. DoubtedOf(Default, dev.pc = "flows", DoubtsAboutModels(Default, dev.pc = "flows"))
  BY DoubtsAre
<1>3. doubts' = DoubtsAboutModels(Default, dev.pc = "flows") \cup (IF command.name = "init" THEN {} ELSE {"scaffold"})
  BY DEF Scaffold
<1>4. doubts' \subseteq Doubts
  BY <1>2, <1>3 DEF DoubtedOf, Doubts
<1>5. /\ command' \in CommandType /\ command'.pc = "scripts" /\ command'.name = command.name
      /\ command'.flows = (IF command.name = "init" THEN 1 ELSE 2)
      /\ command'.compiled = command.compiled
  <2> DEFINE n == IF command.name = "init" THEN 1 ELSE 2
  <2>1. command' = [command EXCEPT !.pc = "scripts", !.config = Default, !.flows = n] /\ n \in 1..2
        /\ Default \in Yamls
    BY YamlTypes DEF Scaffold
  <2> HIDE DEF n
  <2>2. /\ command' \in CommandType /\ command'.pc = "scripts" /\ command'.name = command.name
        /\ command'.flows = n /\ command'.compiled = command.compiled
    BY <2>1 DEF Types, CommandType, CommandLocations
  <2> QED BY <2>2 DEF n
<1> QED BY <1>1, <1>2, <1>3, <1>4, <1>5 DEF Scaffold, watched, bounds

LEMMA GenerateDoes ==
    ASSUME Types, Generate
    PROVE  /\ command.pc = "generate"
           /\ \/ Ended /\ UNCHANGED <<models, doubts>>
              \/ /\ command' \in CommandType /\ command'.pc = "scripts" /\ command'.name = command.name
                 /\ command'.flows = command.flows /\ command'.compiled = command.compiled
                 /\ Built(yaml) /\ DoubtedOf(yaml, dev.pc = "flows", doubts')
           /\ doubts' \subseteq Doubts
           /\ UNCHANGED <<yaml, ts, dist, dev, events, changes, edits, commands, starts>>
<1>1. CASE BuildFails(yaml)
  BY <1>1, Ends DEF Types, Generate, Working, watched, bounds
<1>2. CASE ~BuildFails(yaml)
  <2>1. Built(yaml)
    BY <1>2, Builds DEF Types, Generate
  <2>2. DoubtedOf(yaml, dev.pc = "flows", doubts')
    BY <1>2, DoubtsAre DEF Generate
  <2>3. command' = [command EXCEPT !.pc = "scripts", !.config = yaml]
    BY <1>2 DEF Generate
  <2>4. /\ command' \in CommandType /\ command'.pc = "scripts" /\ command'.name = command.name
        /\ command'.flows = command.flows /\ command'.compiled = command.compiled
    BY <2>3 DEF Types, CommandType, CommandLocations
  <2> QED BY <2>1, <2>2, <2>4 DEF Generate, Working, watched, bounds, DoubtedOf
<1> QED BY <1>1, <1>2

LEMMA GenerateScriptsDoes ==
    ASSUME Types, GenerateScripts
    PROVE  /\ command.pc = "scripts"
           /\ \/ Ended /\ UNCHANGED <<ts, models, dist, events>> /\ doubts' = doubts \cup {"refused"}
              \/ /\ \/ Ended
                    \/ /\ command.name \in Names => command.name \in Compilers
                       /\ \E place \in {"check", "lookup", "tsc"} : Moved(place)
                 /\ Appended(command.flows) /\ doubts' = doubts
           /\ ts' \in [Scripts -> Texts] /\ events' \in [Scripts -> Seq(Kinded)] /\ dist' \in [Scripts -> Texts]
           /\ \A s \in Scripts :
                 \/ ts'[s] = ts[s] /\ events'[s] = events[s]
                 \/ /\ ts[s] = NoFile /\ ts'[s] # NoFile
                    /\ Running => events'[s] # <<>> /\ Newest(events'[s]) = "add"
                    /\ ~Running => events'[s] = events[s]
           /\ \A s \in Scripts : dist'[s] \in {ts'[s], dist[s]} /\ (dist[s].kind # "wrong" => dist'[s].kind # "wrong")
           /\ doubts' \subseteq Doubts
           /\ UNCHANGED <<yaml, dev, changes, edits, commands, starts>>
<1>1. CASE Unreadable(yaml)
  BY <1>1, Ends DEF Types, GenerateScripts, Refused, Doubts, files, bounds
<1>2. CASE ~Unreadable(yaml)
  <2>1. Ended \/ /\ command.name \in Names => command.name \in Compilers
                 /\ \E place \in {"check", "lookup", "tsc"} : Moved(place)
    <3>1. CASE Stops(command.config) \/ First(command.name) = "idle"
      BY <1>2, <3>1, Ends DEF GenerateScripts
    <3>2. CASE ~(Stops(command.config) \/ First(command.name) = "idle")
      <4>1. First(command.name) \in {"check", "lookup", "tsc"}
        BY <3>2 DEF First
      <4>2. Moved(First(command.name))
        BY <1>2, <3>2, <4>1, Sets DEF GenerateScripts, CommandLocations
      <4>3. command.name \in Names => command.name \in Compilers
        BY <3>2 DEF First, Names, Compilers
      <4> QED BY <4>1, <4>2, <4>3
    <3> QED BY <3>1, <3>2
  <2>2. Appended(command.flows)
    BY <1>2, Appends DEF Types, CommandType, GenerateScripts
  <2>3. Text("plain", 0) \in Texts /\ Text("plain", 0) # NoFile
    BY TextTypes, BoundsAssumption DEF Kinds
  <2>4. PICK new \in SUBSET (Declared(command.config) \ Existing) :
           /\ ts' = [s \in Scripts |-> IF s \in new THEN Text("plain", 0) ELSE ts[s]]
           /\ events' = [s \in Scripts |-> IF Running /\ s \in new THEN Append(events[s], "add") ELSE events[s]]
    BY <1>2 DEF GenerateScripts
  <2>5. \A s \in new : s \in Scripts /\ ts[s] = NoFile
    BY DEF Declared, Existing
  <2>6. \A s \in Scripts : /\ Append(events[s], "add") \in Seq(Kinded) /\ Append(events[s], "add") # <<>>
                           /\ Newest(Append(events[s], "add")) = "add"
    BY AppendIs DEF Types, Kinded
  <2>7. ts' \in [Scripts -> Texts] /\ events' \in [Scripts -> Seq(Kinded)]
    BY <2>3, <2>4, <2>6 DEF Types
  <2>8. \A s \in Scripts :
           \/ ts'[s] = ts[s] /\ events'[s] = events[s]
           \/ /\ ts[s] = NoFile /\ ts'[s] # NoFile
              /\ Running => events'[s] # <<>> /\ Newest(events'[s]) = "add"
              /\ ~Running => events'[s] = events[s]
    BY <2>3, <2>4, <2>5, <2>6
  <2>9. dist' = [s \in Scripts |-> IF command.flows = 2 /\ Compiles(s, yaml)' THEN ts'[s] ELSE dist[s]]
    BY <1>2 DEF GenerateScripts
  <2>10. \A s \in Scripts : Compiles(s, yaml)' => ts'[s].kind # "wrong"
    BY DEF Compiles, NangoCallsAreUsedCorrectly
  <2>11. /\ dist' \in [Scripts -> Texts]
         /\ \A s \in Scripts : dist'[s] \in {ts'[s], dist[s]} /\ (dist[s].kind # "wrong" => dist'[s].kind # "wrong")
    BY <2>7, <2>9, <2>10 DEF Types
  <2>12. doubts' = doubts /\ doubts \subseteq Doubts /\ command.pc = "scripts"
         /\ UNCHANGED <<yaml, dev, changes, edits, commands, starts>>
    BY <1>2 DEF Types, GenerateScripts, bounds
  <2>13. (\/ Ended
          \/ /\ command.name \in Names => command.name \in Compilers
             /\ \E place \in {"check", "lookup", "tsc"} : Moved(place))
         /\ Appended(command.flows) /\ doubts' = doubts
    BY <2>1, <2>2, <2>12
  <2> QED BY <2>7, <2>8, <2>11, <2>12, <2>13
<1> QED BY <1>1, <1>2

LEMMA CheckYamlMatchesTsFilesDoes ==
    ASSUME Types, CheckYamlMatchesTsFiles
    PROVE  /\ command.pc = "check" /\ (Moved("tsc") \/ Ended)
           /\ UNCHANGED <<yaml, ts, models, dist, dev, events, changes, edits, commands, starts, doubts>>
BY Sets, Ends DEF CheckYamlMatchesTsFiles, Working, watched, bounds, CommandLocations

LEMMA LookUpDoes ==
    ASSUME Types, LookUp
    PROVE  /\ command.pc = "lookup" /\ (Moved("tsc") \/ Ended)
           /\ UNCHANGED <<yaml, ts, models, dist, dev, events, changes, edits, commands, starts, doubts>>
BY Sets, Ends DEF LookUp, Working, watched, bounds, CommandLocations

LEMMA TscDoes ==
    ASSUME Types, Tsc
    PROVE  /\ command.pc = "tsc"
           /\ \/ (Moved("glob") \/ Ended) /\ UNCHANGED <<models, doubts>>
              \/ /\ ~models.written /\ Moved("flows")
                 /\ Built(yaml) /\ DoubtedOf(yaml, dev.pc = "flows", doubts')
           /\ doubts' \subseteq Doubts
           /\ UNCHANGED <<yaml, ts, dist, dev, events, changes, edits, commands, starts>>
<1>1. command.pc = "tsc" /\ UNCHANGED <<yaml, ts, dist, dev, events, changes, edits, commands, starts>>
  BY DEF Tsc, Working, watched, bounds
<1>2. CASE models.written
  BY <1>1, <1>2, Sets DEF Types, Tsc, CommandLocations
<1>3. CASE ~models.written /\ BuildFails(yaml)
  BY <1>1, <1>3, Ends DEF Types, Tsc
<1>4. CASE ~models.written /\ ~BuildFails(yaml)
  <2>1. Built(yaml)
    BY <1>4, Builds DEF Types, Tsc
  <2>2. DoubtedOf(yaml, dev.pc = "flows", doubts')
    BY <1>4, DoubtsAre DEF Tsc
  <2>3. Moved("flows")
    BY <1>4, Sets DEF Tsc, CommandLocations
  <2> QED BY <1>1, <1>4, <2>1, <2>2, <2>3 DEF DoubtedOf
<1> QED BY <1>2, <1>3, <1>4

LEMMA TscFlowsDoes ==
    ASSUME Types, TscFlows
    PROVE  /\ command.pc = "flows"
           /\ \/ Ended /\ UNCHANGED models /\ doubts' = doubts \cup {"refused"}
              \/ Moved("glob") /\ Appended(1) /\ doubts' = doubts
           /\ doubts' \subseteq Doubts
           /\ UNCHANGED <<yaml, ts, dist, dev, events, changes, edits, commands, starts>>
<1>1. CASE Unreadable(yaml)
  BY <1>1, Ends DEF Types, TscFlows, Refused, Doubts, Working, watched, bounds
<1>2. CASE ~Unreadable(yaml)
  BY <1>2, Sets, Appends DEF Types, TscFlows, Working, watched, bounds, CommandLocations
<1> QED BY <1>1, <1>2

LEMMA GlobDoes ==
    ASSUME Types, Glob
    PROVE  /\ command.pc = "glob"
           /\ \/ Ended
              \/ /\ command' \in CommandType /\ command'.pc = "compiling" /\ command'.name = command.name
                 /\ command'.compiled = command.compiled
           /\ UNCHANGED <<yaml, ts, models, dist, dev, events, changes, edits, commands, starts, doubts>>
<1>1. CASE Unreadable(yaml)
  BY <1>1, Ends DEF Glob, Working, watched, bounds
<1>2. CASE ~Unreadable(yaml)
  <2> DEFINE todo == IF command.name = "dryrun" THEN command.only ELSE Existing
  <2>1. todo \in SUBSET Scripts /\ yaml \in Yamls /\ command \in CommandType
    BY DEF Types, CommandType, Existing
  <2>2. command' = [command EXCEPT !.pc = "compiling", !.config = yaml, !.todo = todo]
    BY <1>2 DEF Glob
  <2> HIDE DEF todo
  <2>3. command' \in CommandType /\ command'.pc = "compiling" /\ command'.name = command.name
        /\ command'.compiled = command.compiled
    BY <2>1, <2>2 DEF CommandType, CommandLocations
  <2> QED BY <2>3 DEF Glob, Working, watched, bounds
<1> QED BY <1>1, <1>2

LEMMA TscFileDoes ==
    ASSUME Types, NEW s \in Scripts, TscFile(s)
    PROVE  /\ command.pc = "compiling"
           /\ dist' = Compiled({s}, command.config)
           /\ command' \in CommandType /\ command'.pc = "compiling" /\ command'.name = command.name
           /\ IF Compiles(s, command.config)
              THEN /\ command'.compiled = command.compiled \cup {s}
                   /\ command'.touched = command.touched \ {s}
              ELSE /\ command'.compiled = command.compiled
                   /\ command'.touched = command.touched
           /\ UNCHANGED <<yaml, ts, models, dev, events, changes, edits, commands, starts, doubts>>
<1> DEFINE done == IF Compiles(s, command.config) THEN {s} ELSE {}
<1>1. /\ command' = [command EXCEPT !.todo = @ \ {s}, !.compiled = @ \cup done, !.touched = @ \ done]
      /\ command \in CommandType /\ command.pc = "compiling"
  BY DEF Types, TscFile
<1>2. done \in SUBSET Scripts
  OBVIOUS
<1>3. /\ command' \in CommandType /\ command'.pc = "compiling" /\ command'.name = command.name
      /\ command'.compiled = command.compiled \cup done
      /\ command'.touched = command.touched \ done
  <2> HIDE DEF done
  <2> QED BY <1>1, <1>2 DEF CommandType
<1>4. /\ command.compiled \cup {} = command.compiled
      /\ command.touched \ {} = command.touched
  BY <1>1 DEF CommandType
<1> QED BY <1>1, <1>3, <1>4 DEF TscFile, watched, bounds

LEMMA TscEndsDoes ==
    ASSUME Types, TscEnds
    PROVE  /\ command.pc = "compiling"
           /\ \/ Ended
              \/ /\ command.name = "dryrun" /\ Moved("run")
                 /\ command.only \cap Declared(command.config) \subseteq command.compiled
              \/ /\ command.name \notin {"compile", "dryrun"}
                 /\ command' \in CommandType /\ command'.pc = "package" /\ command'.config = yaml
                 /\ command'.name = command.name /\ command'.compiled = command.compiled
                 /\ command'.touched = command.touched
           /\ UNCHANGED <<yaml, ts, models, dist, dev, events, changes, edits, commands, starts, doubts>>
<1>1. CASE command.name = "compile"
  BY <1>1, Ends DEF TscEnds, Working, watched, bounds
<1>2. CASE command.name = "dryrun"
  BY <1>2, Sets, Ends DEF TscEnds, Working, watched, bounds, CommandLocations
<1>3. CASE command.name \notin {"compile", "dryrun"} /\ Unreadable(yaml)
  BY <1>3, Ends DEF TscEnds, Working, watched, bounds
<1>4. CASE command.name \notin {"compile", "dryrun"} /\ ~Unreadable(yaml)
  <2>1. command' = [command EXCEPT !.pc = "package", !.config = yaml, !.changed = FALSE]
    BY <1>4 DEF TscEnds
  <2>2. /\ command' \in CommandType /\ command'.pc = "package" /\ command'.config = yaml
        /\ command'.name = command.name /\ command'.compiled = command.compiled
        /\ command'.touched = command.touched
    BY <2>1 DEF Types, CommandType, CommandLocations
  <2> QED BY <1>4, <2>2 DEF TscEnds, Working, watched, bounds
<1> QED BY <1>1, <1>2, <1>3, <1>4

LEMMA DryRunDoes ==
    ASSUME Types, DryRun
    PROVE  /\ command.pc = "run"
           /\ \/ Ended
              \/ /\ command' \in CommandType /\ command'.pc = "running" /\ command'.name = command.name
                 /\ command'.only = command.only /\ command'.compiled = command.compiled
                 /\ command'.touched = command.touched /\ command'.config = command.config
                 /\ \A s \in command.only : command'.sent[s].js = dist[s] /\ command'.sent[s].ts = ts[s]
           /\ UNCHANGED <<yaml, ts, models, dist, dev, events, changes, edits, commands, starts, doubts>>
<1> DEFINE sent == [s \in Scripts |-> IF s \in command.only THEN [js |-> dist[s], ts |-> ts[s]] ELSE Nothing[s]]
<1>1. /\ command.pc = "run"
      /\ UNCHANGED <<yaml, ts, models, dist, dev, events, changes, edits, commands, starts, doubts>>
      /\ End \/ command' = [command EXCEPT !.pc = "running", !.sent = sent]
  BY DEF DryRun, Working, watched, bounds
<1>2. CASE End
  BY <1>1, <1>2, Ends
<1>3. CASE command' = [command EXCEPT !.pc = "running", !.sent = sent]
  <2>1. sent \in SentType /\ \A s \in command.only : sent[s].js = dist[s] /\ sent[s].ts = ts[s]
    BY LocalTypes DEF Types, CommandType, SentType
  <2> HIDE DEF sent
  <2>2. /\ command' \in CommandType /\ command'.pc = "running" /\ command'.name = command.name
        /\ command'.only = command.only /\ command'.compiled = command.compiled
        /\ command'.touched = command.touched /\ command'.config = command.config /\ command'.sent = sent
    BY <1>3, <2>1 DEF Types, CommandType, CommandLocations
  <2> QED BY <1>1, <2>1, <2>2
<1> QED BY <1>1, <1>2, <1>3

LEMMA DryRunEndsDoes ==
    ASSUME Types, DryRunEnds
    PROVE  /\ command.pc = "running" /\ Ended
           /\ UNCHANGED <<yaml, ts, models, dist, dev, events, changes, edits, commands, starts, doubts>>
BY Ends DEF DryRunEnds, Working, watched, bounds

\* The package has been made of c, for the flows of N.
Packaged(c, N) ==
    /\ \A s \in Chosen(c, N) : dist[s] # NoFile => command'.sent[s].js = dist[s] /\ command'.sent[s].ts = ts[s]
    /\ \A s \in Scripts \ Chosen(c, N) : command'.sent[s] = Nothing[s]

LEMMA PackageIntegrationDataDoes ==
    ASSUME Types, NEW N \in SUBSET Flows, PackageIntegrationData(N)
    PROVE  /\ command.pc = "package"
           /\ \/ Ended
              \/ /\ command' \in CommandType /\ command'.pc = "confirm" /\ command'.name = command.name
                 /\ command'.compiled = command.compiled /\ command'.touched = command.touched
                 /\ command'.config = command.config /\ command'.named = N
                 /\ command'.changed = command.changed /\ command'.body = yaml
                 /\ Packaged(command.config, N)
           /\ UNCHANGED <<yaml, ts, models, dist, dev, events, changes, edits, commands, starts, doubts>>
<1> DEFINE flows == {s \in Chosen(command.config, N) : dist[s] # NoFile}
           sent == [s \in Scripts |-> IF s \in flows THEN [js |-> dist[s], ts |-> ts[s]] ELSE Nothing[s]]
<1>1. /\ command.pc = "package"
      /\ UNCHANGED <<yaml, ts, models, dist, dev, events, changes, edits, commands, starts, doubts>>
      /\ End \/ command' = [command EXCEPT !.pc = "confirm", !.named = N, !.body = yaml, !.sent = sent]
  BY DEF PackageIntegrationData, Working, watched, bounds
<1>2. CASE End
  BY <1>1, <1>2, Ends
<1>3. CASE command' = [command EXCEPT !.pc = "confirm", !.named = N, !.body = yaml, !.sent = sent]
  <2>1. flows \subseteq Scripts
    BY DEF Chosen, Declared
  <2>2. \A s \in Chosen(command.config, N) : dist[s] # NoFile => s \in flows
    OBVIOUS
  <2>3. \A s \in Scripts \ Chosen(command.config, N) : s \notin flows
    OBVIOUS
  <2> HIDE DEF flows
  <2>4. sent \in SentType
    BY LocalTypes DEF Types, SentType
  <2>5. /\ \A s \in flows : sent[s].js = dist[s] /\ sent[s].ts = ts[s]
        /\ \A s \in Scripts : s \notin flows => sent[s] = Nothing[s]
    BY <2>1
  <2> HIDE DEF sent
  <2>6. /\ command' \in CommandType /\ command'.pc = "confirm" /\ command'.name = command.name
        /\ command'.compiled = command.compiled /\ command'.touched = command.touched
        /\ command'.config = command.config /\ command'.named = N
        /\ command'.changed = command.changed /\ command'.body = yaml /\ command'.sent = sent
    BY ZenonT(60), <1>3, <2>4 DEF Types, CommandType, CommandLocations
  <2> QED BY <1>1, <2>2, <2>3, <2>5, <2>6 DEF Packaged
<1> QED BY <1>1, <1>2, <1>3

LEMMA ConfirmDoes ==
    ASSUME Types, Confirm
    PROVE  /\ command.pc = "confirm"
           /\ \/ Ended
              \/ /\ command' \in CommandType /\ command'.pc = "send" /\ command'.name = command.name
                 /\ command'.compiled = command.compiled /\ command'.touched = command.touched
                 /\ command'.config = command.config /\ command'.named = command.named
                 /\ command'.changed = command.changed /\ command'.sent = command.sent
                 /\ command'.body \in {command.body, yaml}
           /\ UNCHANGED <<yaml, ts, models, dist, dev, events, changes, edits, commands, starts, doubts>>
<1> DEFINE body == IF command.name = "admin" THEN yaml ELSE command.body
<1>1. /\ command.pc = "confirm"
      /\ UNCHANGED <<yaml, ts, models, dist, dev, events, changes, edits, commands, starts, doubts>>
      /\ End \/ command' = [command EXCEPT !.pc = "send", !.body = body]
  BY DEF Confirm, Working, watched, bounds
<1>2. CASE End
  BY <1>1, <1>2, Ends
<1>3. CASE command' = [command EXCEPT !.pc = "send", !.body = body]
  <2>1. body \in Yamls /\ body \in {command.body, yaml}
    BY DEF Types, CommandType
  <2> HIDE DEF body
  <2> QED BY <1>1, <1>3, <2>1 DEF Types, CommandType, CommandLocations
<1> QED BY <1>1, <1>2, <1>3

LEMMA DeploySyncsDoes ==
    ASSUME Types, DeploySyncs
    PROVE  /\ command.pc = "send" /\ Ended
           /\ UNCHANGED <<yaml, ts, models, dist, dev, events, changes, edits, commands, starts, doubts>>
BY Ends DEF DeploySyncs, Working, watched, bounds

(***************************************************************************)
(* What holds of the processes, whatever happens.                          *)
(***************************************************************************)

\* Nothing is written before there is a configuration; nothing is watched while dev is off.
Early == {"idle", "scaffold", "generate", "scripts", "check", "lookup", "tsc", "flows", "glob"}
Testing == {"dryrun", "deploy", "admin"}

Scaffolded ==
    /\ yaml = Missing => ~Running /\ ~models.written /\ command.pc \in {"idle", "scaffold"}
    /\ command.pc = "scaffold" => yaml = Missing

Stopped == ~Running => changes.config = 0 /\ changes.tsc = 0 /\ \A s \in Scripts : events[s] = <<>>

Written ==
    /\ dev.pc \in {"watching", "flows"} => models.written
    /\ command.pc \in {"scripts", "flows"} => models.written

NamesFit ==
    /\ command.pc \in {"package", "confirm", "send"} => command.name \in {"deploy", "admin"}
    /\ command.pc \in {"run", "running"} => command.name = "dryrun"
    /\ command.pc \in Early => command.compiled = {}
    /\ command.pc = "idle" \/ command.name \in Names
    /\ command.pc \in {"check", "lookup", "tsc", "flows", "glob", "compiling"} => command.name \in Compilers
    /\ command.pc = "generate" => command.flows = 1  \* only what scaffolds appends twice

NothingWrong == \A s \in Scripts : dist[s].kind # "wrong"

Placed == Scaffolded /\ Stopped /\ Written /\ NamesFit

CoreInv == Types /\ Scaffolded /\ Stopped /\ Written /\ NamesFit /\ NothingWrong

LEMMA CoreHolds ==
    ASSUME CoreInv
    PROVE  Types /\ Scaffolded /\ Stopped /\ Written /\ NamesFit /\ NothingWrong
BY DEF CoreInv

LEMMA DistTyped ==
    ASSUME CoreInv, RecompileAll \/ \E s \in Scripts : CompileFile(s) \/ TscFile(s)
    PROVE  dist' \in [Scripts -> Texts]
<1>1. Types
  BY CoreHolds
<1>2. ASSUME NEW S \in SUBSET Scripts, NEW c
      PROVE  Compiled(S, c) \in [Scripts -> Texts]
  BY <1>1, CompileIs
<1>3. CASE RecompileAll
  <2>1. dist' = Compiled(Scripts, dev.config)
    BY <1>1, <1>3, RecompileAllDoes
  <2>2. Scripts \in SUBSET Scripts
    OBVIOUS
  <2> QED BY <1>2, <2>1, <2>2
<1>4. ASSUME NEW s \in Scripts, CompileFile(s) \/ TscFile(s)
      PROVE  dist' \in [Scripts -> Texts]
  <2>1. dist' = Compiled({s}, dev.config) \/ dist' = Compiled({s}, command.config)
    BY <1>1, <1>4, CompileFileDoes, TscFileDoes
  <2>2. {s} \in SUBSET Scripts
    OBVIOUS
  <2>3. Compiled({s}, dev.config) \in [Scripts -> Texts] /\ Compiled({s}, command.config) \in [Scripts -> Texts]
    BY <1>2, <2>2
  <2> QED BY <2>1, <2>3
<1> QED BY <1>3, <1>4

LEMMA StepTypes ==
    ASSUME CoreInv, FilesNext
    PROVE  Types'
<1> USE DEF Types
<1>1. ASSUME NEW s \in Scripts, NEW k \in Kinds, SaveScript(s, k)
      PROVE  Types'
  <2>1. edits \in Int /\ changes \in [tsc : Nat, config : Nat] /\ changes.tsc <= edits /\ changes.config <= edits
    BY CoreHolds
  <2>2. edits' = edits + 1 /\ edits' \in 0..MaxEdits
    BY <1>1, SaveScriptDoes, CoreHolds
  <2>3. changes' \in [tsc : Nat, config : Nat] /\ changes'.tsc <= edits' /\ changes'.config <= edits'
    <3>1. \/ changes' = changes
          \/ /\ changes' \in [tsc : Nat, config : Nat]
             /\ changes'.tsc = changes.tsc + 1 /\ changes'.config = changes.config + 1
      BY <1>1, SaveScriptDoes, CoreHolds
    <3> QED BY <2>1, <2>2, <3>1
  <2> QED BY ZenonT(60), <2>2, <2>3, <1>1, SaveScriptDoes, CoreHolds DEF Touched, ToldOf
<1>2. ASSUME NEW s \in Scripts, RemoveScript(s)
      PROVE  Types'
  <2>1. edits \in Int /\ changes \in [tsc : Nat, config : Nat] /\ changes.tsc <= edits /\ changes.config <= edits
    BY CoreHolds
  <2>2. edits' = edits + 1 /\ edits' \in 0..MaxEdits
    BY <1>2, RemoveScriptDoes, CoreHolds
  <2>3. changes' \in [tsc : Nat, config : Nat] /\ changes'.tsc <= edits' /\ changes'.config <= edits'
    <3>1. \/ changes' = changes
          \/ /\ changes' \in [tsc : Nat, config : Nat]
             /\ changes'.tsc = changes.tsc + 1 /\ changes'.config = changes.config + 1
      BY <1>2, RemoveScriptDoes, CoreHolds
    <3> QED BY <2>1, <2>2, <3>1
  <2> QED BY ZenonT(60), <2>2, <2>3, <1>2, RemoveScriptDoes, CoreHolds DEF Touched, ToldOf
<1>3. ASSUME NEW c \in Configs, SaveConfig(c)
      PROVE  Types'
  <2>1. edits \in Int /\ changes \in [tsc : Nat, config : Nat] /\ changes.tsc <= edits /\ changes.config <= edits
    BY CoreHolds
  <2>2. edits' = edits + 1 /\ edits' \in 0..MaxEdits
    BY <1>3, SaveConfigDoes, CoreHolds
  <2>3. changes' \in [tsc : Nat, config : Nat] /\ changes'.tsc <= edits' /\ changes'.config <= edits'
    <3>1. \/ changes' = changes
          \/ /\ changes' \in [tsc : Nat, config : Nat]
             /\ changes'.tsc = changes.tsc + 1 /\ changes'.config = changes.config + (IF dev.watch THEN 1 ELSE 0)
      BY <1>3, SaveConfigDoes, CoreHolds
    <3> QED BY <2>1, <2>2, <3>1
  <2> QED BY <2>2, <2>3, <1>3, SaveConfigDoes, CoreHolds DEF Touched, ToldOf
<1>4. ASSUME NEW w \in BOOLEAN, StartDev(w)
      PROVE  Types'
  BY <1>4, StartDevDoes, CoreHolds DEF Moved, Touched, Ended, Halted, ToldOf, Handled, Built,
     Appended, Running
<1>5. ASSUME StopDev
      PROVE  Types'
  BY <1>5, StopDevDoes, CoreHolds DEF Halted
<1>6. ASSUME NEW s \in Scripts, CompileFile(s)
      PROVE  Types'
  <2>1. dist' \in [Scripts -> Texts]
    BY <1>6, DistTyped
  <2> QED BY <2>1, <1>6, CompileFileDoes, CoreHolds DEF Handled
<1>7. ASSUME NEW s \in Scripts, UnlinkFile(s)
      PROVE  Types'
  <2>1. edits \in Int /\ changes \in [tsc : Nat, config : Nat] /\ changes.tsc <= edits /\ changes.config <= edits
    BY CoreHolds
  <2>2. UNCHANGED edits /\ changes' \in [tsc : Nat, config : Nat] /\ changes'.tsc <= changes.tsc
        /\ changes'.config <= changes.config
    <3>1. UNCHANGED edits
      BY <1>7, UnlinkFileDoes, CoreHolds
    <3>2. UNCHANGED changes \/ Halted("crashed")
      BY <1>7, UnlinkFileDoes, CoreHolds
    <3> QED BY <2>1, <3>1, <3>2 DEF Halted
  <2>3. changes'.tsc <= edits' /\ changes'.config <= edits'
    BY <2>1, <2>2
  <2>4. /\ dist' \in [Scripts -> Texts] /\ dev' \in DevType /\ events' \in [Scripts -> Seq(Kinded)]
        /\ command' \in CommandType /\ doubts' \subseteq Doubts
        /\ UNCHANGED <<yaml, ts, models, edits, commands, starts>>
    BY <1>7, UnlinkFileDoes, CoreHolds DEF Halted, Handled, Touched
  <2> QED BY <2>2, <2>3, <2>4, CoreHolds
<1>8. ASSUME RecompileAll
      PROVE  Types'
  <2>1. edits \in Int /\ changes \in [tsc : Nat, config : Nat] /\ changes.tsc <= edits /\ changes.config <= edits
    BY CoreHolds
  <2>2. UNCHANGED edits /\ changes' \in [tsc : Nat, config : Nat] /\ changes'.tsc <= changes.tsc
        /\ changes'.config <= changes.config
    BY <1>8, RecompileAllDoes, CoreHolds, <2>1
  <2>3. changes'.tsc <= edits' /\ changes'.config <= edits'
    BY <2>1, <2>2
  <2>4. dist' \in [Scripts -> Texts]
    BY <1>8, DistTyped
  <2> QED BY <2>2, <2>3, <2>4, <1>8, RecompileAllDoes, CoreHolds
<1>9. ASSUME CreateModelFile
      PROVE  Types'
  <2>1. edits \in Int /\ changes \in [tsc : Nat, config : Nat] /\ changes.tsc <= edits /\ changes.config <= edits
    BY CoreHolds
  <2>2. UNCHANGED edits /\ changes' \in [tsc : Nat, config : Nat] /\ changes'.tsc <= changes.tsc
        /\ changes'.config <= changes.config
    <3>1. UNCHANGED edits
      BY <1>9, CreateModelFileDoes, CoreHolds
    <3>2. \/ Halted("crashed")
          \/ changes' \in [tsc : Nat, config : Nat] /\ changes'.tsc = changes.tsc /\ changes'.config <= changes.config
      BY <1>9, CreateModelFileDoes, CoreHolds
    <3> QED BY <2>1, <3>1, <3>2 DEF Halted
  <2>3. changes'.tsc <= edits' /\ changes'.config <= edits'
    BY <2>1, <2>2
  <2>4. /\ models' \in ModelsType /\ dev' \in DevType /\ events' \in [Scripts -> Seq(Kinded)] /\ doubts' \subseteq Doubts
        /\ UNCHANGED <<yaml, ts, dist, command, edits, commands, starts>>
    BY <1>9, CreateModelFileDoes, CoreHolds DEF Halted, Built
  <2> QED BY <2>2, <2>3, <2>4, CoreHolds
<1>10. ASSUME ModelFileFlows
       PROVE  Types'
  BY <1>10, ModelFileFlowsDoes, CoreHolds DEF Moved, Touched, Ended, Halted, ToldOf, Handled,
     Built, Appended, Running
<1>11. ASSUME NEW name \in Names, NEW S \in SUBSET Scripts, Begin(name, S)
       PROVE  Types'
  BY <1>11, BeginDoes, CoreHolds DEF Moved, Touched, Ended, Halted, ToldOf, Handled, Built,
     Appended, Running
<1>12. ASSUME Scaffold
       PROVE  Types'
  BY <1>12, ScaffoldDoes, CoreHolds DEF Built
<1>13. ASSUME Generate
       PROVE  Types'
  BY <1>13, GenerateDoes, CoreHolds DEF Built, Ended
<1>14. ASSUME GenerateScripts
       PROVE  Types'
  BY <1>14, GenerateScriptsDoes, CoreHolds DEF Moved, Touched, Ended, Halted, ToldOf, Handled,
     Built, Appended, Running
<1>15. ASSUME CheckYamlMatchesTsFiles
       PROVE  Types'
  BY <1>15, CheckYamlMatchesTsFilesDoes, CoreHolds DEF Moved, Touched, Ended, Halted, ToldOf,
     Handled, Built, Appended, Running
<1>16. ASSUME LookUp
       PROVE  Types'
  BY <1>16, LookUpDoes, CoreHolds DEF Moved, Touched, Ended, Halted, ToldOf, Handled, Built,
     Appended, Running
<1>17. ASSUME Tsc
       PROVE  Types'
  BY <1>17, TscDoes, CoreHolds DEF Built, Moved, Ended
<1>18. ASSUME TscFlows
       PROVE  Types'
  BY <1>18, TscFlowsDoes, CoreHolds DEF Moved, Touched, Ended, Halted, ToldOf, Handled, Built,
     Appended, Running
<1>19. ASSUME Glob
       PROVE  Types'
  BY <1>19, GlobDoes, CoreHolds DEF Moved, Touched, Ended, Halted, ToldOf, Handled, Built,
     Appended, Running
<1>20. ASSUME NEW s \in Scripts, TscFile(s)
       PROVE  Types'
  <2>1. dist' \in [Scripts -> Texts]
    BY <1>20, DistTyped
  <2> QED BY <2>1, <1>20, TscFileDoes, CoreHolds DEF Handled
<1>21. ASSUME TscEnds
       PROVE  Types'
  BY <1>21, TscEndsDoes, CoreHolds DEF Moved, Touched, Ended, Halted, ToldOf, Handled, Built,
     Appended, Running
<1>22. ASSUME DryRun
       PROVE  Types'
  BY <1>22, DryRunDoes, CoreHolds DEF Moved, Touched, Ended, Halted, ToldOf, Handled, Built,
     Appended, Running
<1>23. ASSUME DryRunEnds
       PROVE  Types'
  BY <1>23, DryRunEndsDoes, CoreHolds DEF Moved, Touched, Ended, Halted, ToldOf, Handled, Built,
     Appended, Running
<1>24. ASSUME NEW N \in SUBSET Flows, PackageIntegrationData(N)
       PROVE  Types'
  BY <1>24, PackageIntegrationDataDoes, CoreHolds DEF Moved, Touched, Ended, Halted, ToldOf,
     Handled, Built, Appended, Running
<1>25. ASSUME Confirm
       PROVE  Types'
  BY <1>25, ConfirmDoes, CoreHolds DEF Moved, Touched, Ended, Halted, ToldOf, Handled, Built,
     Appended, Running
<1>26. ASSUME DeploySyncs
       PROVE  Types'
  BY <1>26, DeploySyncsDoes, CoreHolds DEF Moved, Touched, Ended, Halted, ToldOf, Handled, Built,
     Appended, Running
<1> QED BY <1>1, <1>2, <1>3, <1>4, <1>5, <1>6, <1>7, <1>8, <1>9, <1>10, <1>11, <1>12, <1>13,
           <1>14, <1>15, <1>16, <1>17, <1>18, <1>19, <1>20, <1>21, <1>22, <1>23, <1>24, <1>25,
           <1>26 DEF FilesNext, Developer, Dev, Command

LEMMA StepPlaced ==
    ASSUME CoreInv, FilesNext
    PROVE  Placed'
<1> USE DEF Placed, Scaffolded, Stopped, Written, NamesFit, Early, Moved, Built, Running, Ended,
        Halted, Handled, Appended, Touched, ToldOf
<1>1. ASSUME NEW s \in Scripts, NEW k \in Kinds, SaveScript(s, k)
      PROVE  Placed'
  BY <1>1, SaveScriptDoes, CoreHolds
<1>2. ASSUME NEW s \in Scripts, RemoveScript(s)
      PROVE  Placed'
  BY <1>2, RemoveScriptDoes, CoreHolds
<1>3. ASSUME NEW c \in Configs, SaveConfig(c)
      PROVE  Placed'
  BY <1>3, SaveConfigDoes, CoreHolds
<1>4. ASSUME NEW w \in BOOLEAN, StartDev(w)
      PROVE  Placed'
  BY <1>4, StartDevDoes, CoreHolds
<1>5. ASSUME StopDev
      PROVE  Placed'
  BY <1>5, StopDevDoes, CoreHolds
<1>6. ASSUME NEW s \in Scripts, CompileFile(s)
      PROVE  Placed'
  BY <1>6, CompileFileDoes, CoreHolds
<1>7. ASSUME NEW s \in Scripts, UnlinkFile(s)
      PROVE  Placed'
  BY <1>7, UnlinkFileDoes, CoreHolds
<1>8. ASSUME RecompileAll
      PROVE  Placed'
  BY <1>8, RecompileAllDoes, CoreHolds
<1>9. ASSUME CreateModelFile
      PROVE  Placed'
  BY <1>9, CreateModelFileDoes, CoreHolds
<1>10. ASSUME ModelFileFlows
       PROVE  Placed'
  BY <1>10, ModelFileFlowsDoes, CoreHolds
<1>11. ASSUME NEW name \in Names, NEW S \in SUBSET Scripts, Begin(name, S)
       PROVE  Placed'
  BY <1>11, BeginDoes, NoneNotName, CoreHolds
<1>12. ASSUME Scaffold
       PROVE  Placed'
  BY <1>12, ScaffoldDoes, YamlTypes, CoreHolds
<1>13. ASSUME Generate
       PROVE  Placed'
  BY <1>13, GenerateDoes, CoreHolds
<1>14. ASSUME GenerateScripts
       PROVE  Placed'
  BY <1>14, GenerateScriptsDoes, CoreHolds
<1>15. ASSUME CheckYamlMatchesTsFiles
       PROVE  Placed'
  BY <1>15, CheckYamlMatchesTsFilesDoes, CoreHolds
<1>16. ASSUME LookUp
       PROVE  Placed'
  BY <1>16, LookUpDoes, CoreHolds
<1>17. ASSUME Tsc
       PROVE  Placed'
  BY <1>17, TscDoes, CoreHolds
<1>18. ASSUME TscFlows
       PROVE  Placed'
  BY <1>18, TscFlowsDoes, CoreHolds
<1>19. ASSUME Glob
       PROVE  Placed'
  BY <1>19, GlobDoes, CoreHolds
<1>20. ASSUME NEW s \in Scripts, TscFile(s)
       PROVE  Placed'
  BY <1>20, TscFileDoes, CoreHolds
<1>21. ASSUME TscEnds
       PROVE  Placed'
  BY <1>21, TscEndsDoes, CoreHolds DEF Compilers
<1>22. ASSUME DryRun
       PROVE  Placed'
  BY <1>22, DryRunDoes, CoreHolds
<1>23. ASSUME DryRunEnds
       PROVE  Placed'
  BY <1>23, DryRunEndsDoes, CoreHolds
<1>24. ASSUME NEW N \in SUBSET Flows, PackageIntegrationData(N)
       PROVE  Placed'
  BY <1>24, PackageIntegrationDataDoes, CoreHolds
<1>25. ASSUME Confirm
       PROVE  Placed'
  BY <1>25, ConfirmDoes, CoreHolds
<1>26. ASSUME DeploySyncs
       PROVE  Placed'
  BY <1>26, DeploySyncsDoes, CoreHolds
<1> QED BY <1>1, <1>2, <1>3, <1>4, <1>5, <1>6, <1>7, <1>8, <1>9, <1>10, <1>11, <1>12, <1>13,
           <1>14, <1>15, <1>16, <1>17, <1>18, <1>19, <1>20, <1>21, <1>22, <1>23, <1>24, <1>25,
           <1>26 DEF FilesNext, Developer, Dev, Command

LEMMA StepNothingWrong ==
    ASSUME CoreInv, FilesNext
    PROVE  NothingWrong'
<1> USE DEF Moved, Built, NothingWrong, Running, Ended, Halted, Handled, Appended, Touched, ToldOf
<1>1. ASSUME NEW s \in Scripts, NEW k \in Kinds, SaveScript(s, k)
      PROVE  NothingWrong'
  BY <1>1, SaveScriptDoes, CoreHolds
<1>2. ASSUME NEW s \in Scripts, RemoveScript(s)
      PROVE  NothingWrong'
  BY <1>2, RemoveScriptDoes, CoreHolds
<1>3. ASSUME NEW c \in Configs, SaveConfig(c)
      PROVE  NothingWrong'
  BY <1>3, SaveConfigDoes, CoreHolds
<1>4. ASSUME NEW w \in BOOLEAN, StartDev(w)
      PROVE  NothingWrong'
  BY <1>4, StartDevDoes, CoreHolds
<1>5. ASSUME StopDev
      PROVE  NothingWrong'
  BY <1>5, StopDevDoes, CoreHolds
<1>6. ASSUME NEW s \in Scripts, CompileFile(s)
      PROVE  NothingWrong'
  <2>2. \E S \in SUBSET Scripts : \E c : dist' = Compiled(S, c)
    BY <1>6, CompileFileDoes, CoreHolds
  <2>1. \A q \in Scripts : dist[q].kind # "wrong" => dist'[q].kind # "wrong"
    BY <2>2, CompileIs, CoreHolds
  <2> QED BY <2>1, CoreHolds
<1>7. ASSUME NEW s \in Scripts, UnlinkFile(s)
      PROVE  NothingWrong'
  BY <1>7, UnlinkFileDoes, TextTypes, CoreHolds DEF None
<1>8. ASSUME RecompileAll
      PROVE  NothingWrong'
  <2>2. \E S \in SUBSET Scripts : \E c : dist' = Compiled(S, c)
    BY <1>8, RecompileAllDoes, CoreHolds
  <2>1. \A q \in Scripts : dist[q].kind # "wrong" => dist'[q].kind # "wrong"
    BY <2>2, CompileIs, CoreHolds
  <2> QED BY <2>1, CoreHolds
<1>9. ASSUME CreateModelFile
      PROVE  NothingWrong'
  BY <1>9, CreateModelFileDoes, CoreHolds
<1>10. ASSUME ModelFileFlows
       PROVE  NothingWrong'
  BY <1>10, ModelFileFlowsDoes, CoreHolds
<1>11. ASSUME NEW name \in Names, NEW S \in SUBSET Scripts, Begin(name, S)
       PROVE  NothingWrong'
  BY <1>11, BeginDoes, CoreHolds
<1>12. ASSUME Scaffold
       PROVE  NothingWrong'
  BY <1>12, ScaffoldDoes, CoreHolds
<1>13. ASSUME Generate
       PROVE  NothingWrong'
  BY <1>13, GenerateDoes, CoreHolds
<1>14. ASSUME GenerateScripts
       PROVE  NothingWrong'
  <2>1. \A s \in Scripts : dist[s].kind # "wrong" => dist'[s].kind # "wrong"
    BY <1>14, GenerateScriptsDoes, CoreHolds
  <2>2. NothingWrong
    BY CoreHolds
  <2> QED BY <2>1, <2>2
<1>15. ASSUME CheckYamlMatchesTsFiles
       PROVE  NothingWrong'
  BY <1>15, CheckYamlMatchesTsFilesDoes, CoreHolds
<1>16. ASSUME LookUp
       PROVE  NothingWrong'
  BY <1>16, LookUpDoes, CoreHolds
<1>17. ASSUME Tsc
       PROVE  NothingWrong'
  BY <1>17, TscDoes, CoreHolds
<1>18. ASSUME TscFlows
       PROVE  NothingWrong'
  BY <1>18, TscFlowsDoes, CoreHolds
<1>19. ASSUME Glob
       PROVE  NothingWrong'
  BY <1>19, GlobDoes, CoreHolds
<1>20. ASSUME NEW s \in Scripts, TscFile(s)
       PROVE  NothingWrong'
  <2>2. \E S \in SUBSET Scripts : \E c : dist' = Compiled(S, c)
    BY <1>20, TscFileDoes, CoreHolds
  <2>1. \A q \in Scripts : dist[q].kind # "wrong" => dist'[q].kind # "wrong"
    BY <2>2, CompileIs, CoreHolds
  <2> QED BY <2>1, CoreHolds
<1>21. ASSUME TscEnds
       PROVE  NothingWrong'
  BY <1>21, TscEndsDoes, CoreHolds
<1>22. ASSUME DryRun
       PROVE  NothingWrong'
  BY <1>22, DryRunDoes, CoreHolds
<1>23. ASSUME DryRunEnds
       PROVE  NothingWrong'
  BY <1>23, DryRunEndsDoes, CoreHolds
<1>24. ASSUME NEW N \in SUBSET Flows, PackageIntegrationData(N)
       PROVE  NothingWrong'
  BY <1>24, PackageIntegrationDataDoes, CoreHolds
<1>25. ASSUME Confirm
       PROVE  NothingWrong'
  BY <1>25, ConfirmDoes, CoreHolds
<1>26. ASSUME DeploySyncs
       PROVE  NothingWrong'
  BY <1>26, DeploySyncsDoes, CoreHolds
<1> QED BY <1>1, <1>2, <1>3, <1>4, <1>5, <1>6, <1>7, <1>8, <1>9, <1>10, <1>11, <1>12, <1>13,
           <1>14, <1>15, <1>16, <1>17, <1>18, <1>19, <1>20, <1>21, <1>22, <1>23, <1>24, <1>25,
           <1>26 DEF FilesNext, Developer, Dev, Command

LEMMA InitCore ==
    ASSUME FilesInit
    PROVE  CoreInv /\ edits = 0 /\ dev.pc = "off" /\ command.pc = "idle" /\ command.name = None
           /\ doubts = {} /\ ~models.written
<1>1. ts \in [Scripts -> Texts] /\ dist \in [Scripts -> Texts] /\ \A s \in Scripts : dist[s].kind # "wrong"
  <2>1. Text("saves", 0) \in Texts
    BY TextTypes, BoundsAssumption DEF Kinds
  <2>2. ts \in [Scripts -> {NoFile, Text("saves", 0)}] /\ dist = [s \in Scripts |-> NoFile]
    BY DEF FilesInit
  <2> QED BY <2>1, <2>2, TextTypes DEF None
<1>2. events \in [Scripts -> Seq(Kinded)] /\ \A s \in Scripts : events[s] = <<>>
  <2>1. <<>> \in Seq(Kinded) /\ events = [s \in Scripts |-> <<>>]
    BY DEF FilesInit
  <2> QED BY <2>1
<1>3. edits = 0 /\ commands = 0 /\ starts = 0 /\ changes = [tsc |-> 0, config |-> 0] /\ doubts = {}
      /\ yaml \in Yamls /\ command = NoCommand /\ models = NoModels /\ dev = DevOff
  BY YamlTypes DEF FilesInit
<1>4. Types
  BY <1>1, <1>2, <1>3, LocalTypes, BoundsAssumption DEF Types, Doubts
<1>5. Scaffolded /\ Stopped /\ Written /\ NamesFit /\ NothingWrong
  BY <1>1, <1>2, <1>3, LocalTypes DEF Scaffolded, Stopped, Written, NamesFit, NothingWrong,
     Running
<1> QED BY <1>3, <1>4, <1>5, LocalTypes DEF CoreInv

LEMMA StepCore ==
    ASSUME CoreInv, [FilesNext]_filesVars
    PROVE  CoreInv'
<1>1. CASE FilesNext
  BY <1>1, StepTypes, StepPlaced, StepNothingWrong DEF CoreInv, Placed
<1>2. CASE UNCHANGED filesVars
  <2>1. UNCHANGED <<yaml, ts, models, dist, dev, events, changes, command, edits, commands, starts, doubts>>
    BY <1>2 DEF filesVars, files, watched, bounds
  <2>2. Types'
    BY <2>1 DEF CoreInv, Types
  <2>3. Scaffolded' /\ Stopped' /\ Written' /\ NamesFit' /\ NothingWrong'
    BY <2>1 DEF CoreInv, Scaffolded, Stopped, Written, NamesFit, NothingWrong, Running
  <2> QED BY <2>2, <2>3 DEF CoreInv
<1> QED BY <1>1, <1>2

\* Every variable has its type, and nothing wrong is compiled.
LEMMA CoreTypes ==
    ASSUME CoreInv
    PROVE  FilesTypeOK
<1>1. Types /\ NothingWrong
  BY DEF CoreInv
<1>2. changes \in [tsc : 0..MaxEdits, config : 0..MaxEdits]
  BY <1>1, BoundsAssumption DEF Types
<1> QED BY <1>1, <1>2 DEF Types, NothingWrong, FilesTypeOK, ModelsType, DevType, CommandType,
           CommandLocations, Kinded

(***************************************************************************)
(* dev keeps dist up to date.                                              *)
(***************************************************************************)

\* The last event tells whether the file is there.
EventsFit == Running => \A s \in Scripts : events[s] # <<>> => (Newest(events[s]) = "unlink" <=> ts[s] = NoFile)

\* Before models.ts is there, nothing has been compiled yet.
Waiting == dev.pc = "interfaces" => \A s \in Scripts : ts[s] # NoFile => events[s] # <<>>

\* What compiles is compiled, or will be.
DistFits ==
    Running /\ "interfaces" \notin doubts =>
        \A s \in Scripts : Compiles(s, dev.config) => dist[s] = ts[s] \/ events[s] # <<>>

LEMMA StepEventsFit ==
    ASSUME CoreInv, EventsFit, FilesNext
    PROVE  EventsFit'
<1> USE DEF Running, ToldOf, EventsFit, Moved, Built, Ended, Halted, Handled, Appended, Touched
<1>1. ASSUME NEW s \in Scripts, NEW k \in Kinds, SaveScript(s, k)
      PROVE  EventsFit'
  <2>1. PICK e \in {"add", "change"} : ToldOf(s, e)
    BY <1>1, SaveScriptDoes, CoreHolds
  <2> QED BY ZenonT(60), <2>1, <1>1, SaveScriptDoes, CoreHolds
<1>2. ASSUME NEW s \in Scripts, RemoveScript(s)
      PROVE  EventsFit'
  BY ZenonT(60), <1>2, RemoveScriptDoes, CoreHolds
<1>3. ASSUME NEW c \in Configs, SaveConfig(c)
      PROVE  EventsFit'
  BY <1>3, SaveConfigDoes, CoreHolds
<1>4. ASSUME NEW w \in BOOLEAN, StartDev(w)
      PROVE  EventsFit'
  <2>1. Newest(<<"add">>) = "add"
    BY DEF Newest
  <2> QED BY <2>1, <1>4, StartDevDoes, CoreHolds
<1>5. ASSUME StopDev
      PROVE  EventsFit'
  BY <1>5, StopDevDoes, CoreHolds
<1>6. ASSUME NEW s \in Scripts, CompileFile(s)
      PROVE  EventsFit'
  BY <1>6, CompileFileDoes, CoreHolds
<1>7. ASSUME NEW s \in Scripts, UnlinkFile(s)
      PROVE  EventsFit'
  BY ZenonT(60), <1>7, UnlinkFileDoes, CoreHolds
<1>8. ASSUME RecompileAll
      PROVE  EventsFit'
  BY <1>8, RecompileAllDoes, CoreHolds
<1>9. ASSUME CreateModelFile
      PROVE  EventsFit'
  BY <1>9, CreateModelFileDoes, CoreHolds
<1>10. ASSUME ModelFileFlows
       PROVE  EventsFit'
  BY <1>10, ModelFileFlowsDoes, CoreHolds
<1>11. ASSUME NEW name \in Names, NEW S \in SUBSET Scripts, Begin(name, S)
       PROVE  EventsFit'
  BY <1>11, BeginDoes, CoreHolds
<1>12. ASSUME Scaffold
       PROVE  EventsFit'
  BY <1>12, ScaffoldDoes, CoreHolds
<1>13. ASSUME Generate
       PROVE  EventsFit'
  BY <1>13, GenerateDoes, CoreHolds
<1>14. ASSUME GenerateScripts
       PROVE  EventsFit'
  BY <1>14, GenerateScriptsDoes, CoreHolds
<1>15. ASSUME CheckYamlMatchesTsFiles
       PROVE  EventsFit'
  BY <1>15, CheckYamlMatchesTsFilesDoes, CoreHolds
<1>16. ASSUME LookUp
       PROVE  EventsFit'
  BY <1>16, LookUpDoes, CoreHolds
<1>17. ASSUME Tsc
       PROVE  EventsFit'
  BY <1>17, TscDoes, CoreHolds
<1>18. ASSUME TscFlows
       PROVE  EventsFit'
  BY <1>18, TscFlowsDoes, CoreHolds
<1>19. ASSUME Glob
       PROVE  EventsFit'
  BY <1>19, GlobDoes, CoreHolds
<1>20. ASSUME NEW s \in Scripts, TscFile(s)
       PROVE  EventsFit'
  BY <1>20, TscFileDoes, CoreHolds
<1>21. ASSUME TscEnds
       PROVE  EventsFit'
  BY <1>21, TscEndsDoes, CoreHolds
<1>22. ASSUME DryRun
       PROVE  EventsFit'
  BY <1>22, DryRunDoes, CoreHolds
<1>23. ASSUME DryRunEnds
       PROVE  EventsFit'
  BY <1>23, DryRunEndsDoes, CoreHolds
<1>24. ASSUME NEW N \in SUBSET Flows, PackageIntegrationData(N)
       PROVE  EventsFit'
  BY <1>24, PackageIntegrationDataDoes, CoreHolds
<1>25. ASSUME Confirm
       PROVE  EventsFit'
  BY <1>25, ConfirmDoes, CoreHolds
<1>26. ASSUME DeploySyncs
       PROVE  EventsFit'
  BY <1>26, DeploySyncsDoes, CoreHolds
<1> QED BY <1>1, <1>2, <1>3, <1>4, <1>5, <1>6, <1>7, <1>8, <1>9, <1>10, <1>11, <1>12, <1>13,
           <1>14, <1>15, <1>16, <1>17, <1>18, <1>19, <1>20, <1>21, <1>22, <1>23, <1>24, <1>25,
           <1>26 DEF FilesNext, Developer, Dev, Command

LEMMA StepWaiting ==
    ASSUME CoreInv, Waiting, FilesNext
    PROVE  Waiting'
<1> USE DEF Running, Waiting, ToldOf, Moved, Built, Ended, Halted, Handled, Appended, Touched
<1>1. ASSUME NEW s \in Scripts, NEW k \in Kinds, SaveScript(s, k)
      PROVE  Waiting'
  <2>1. PICK e \in {"add", "change"} : ToldOf(s, e)
    BY <1>1, SaveScriptDoes, CoreHolds
  <2> QED BY <2>1, <1>1, SaveScriptDoes, CoreHolds
<1>2. ASSUME NEW s \in Scripts, RemoveScript(s)
      PROVE  Waiting'
  BY <1>2, RemoveScriptDoes, CoreHolds
<1>3. ASSUME NEW c \in Configs, SaveConfig(c)
      PROVE  Waiting'
  BY <1>3, SaveConfigDoes, CoreHolds
<1>4. ASSUME NEW w \in BOOLEAN, StartDev(w)
      PROVE  Waiting'
  <2>1. <<"add">> # <<>>
    OBVIOUS
  <2> QED BY <2>1, <1>4, StartDevDoes, CoreHolds
<1>5. ASSUME StopDev
      PROVE  Waiting'
  BY <1>5, StopDevDoes, CoreHolds
<1>6. ASSUME NEW s \in Scripts, CompileFile(s)
      PROVE  Waiting'
  BY <1>6, CompileFileDoes, CoreHolds
<1>7. ASSUME NEW s \in Scripts, UnlinkFile(s)
      PROVE  Waiting'
  BY <1>7, UnlinkFileDoes, CoreHolds
<1>8. ASSUME RecompileAll
      PROVE  Waiting'
  BY <1>8, RecompileAllDoes, CoreHolds
<1>9. ASSUME CreateModelFile
      PROVE  Waiting'
  BY <1>9, CreateModelFileDoes, CoreHolds
<1>10. ASSUME ModelFileFlows
       PROVE  Waiting'
  BY <1>10, ModelFileFlowsDoes, CoreHolds
<1>11. ASSUME NEW name \in Names, NEW S \in SUBSET Scripts, Begin(name, S)
       PROVE  Waiting'
  BY <1>11, BeginDoes, CoreHolds
<1>12. ASSUME Scaffold
       PROVE  Waiting'
  BY <1>12, ScaffoldDoes, CoreHolds
<1>13. ASSUME Generate
       PROVE  Waiting'
  BY <1>13, GenerateDoes, CoreHolds
<1>14. ASSUME GenerateScripts
       PROVE  Waiting'
  BY <1>14, GenerateScriptsDoes, CoreHolds
<1>15. ASSUME CheckYamlMatchesTsFiles
       PROVE  Waiting'
  BY <1>15, CheckYamlMatchesTsFilesDoes, CoreHolds
<1>16. ASSUME LookUp
       PROVE  Waiting'
  BY <1>16, LookUpDoes, CoreHolds
<1>17. ASSUME Tsc
       PROVE  Waiting'
  BY <1>17, TscDoes, CoreHolds
<1>18. ASSUME TscFlows
       PROVE  Waiting'
  BY <1>18, TscFlowsDoes, CoreHolds
<1>19. ASSUME Glob
       PROVE  Waiting'
  BY <1>19, GlobDoes, CoreHolds
<1>20. ASSUME NEW s \in Scripts, TscFile(s)
       PROVE  Waiting'
  BY <1>20, TscFileDoes, CoreHolds
<1>21. ASSUME TscEnds
       PROVE  Waiting'
  BY <1>21, TscEndsDoes, CoreHolds
<1>22. ASSUME DryRun
       PROVE  Waiting'
  BY <1>22, DryRunDoes, CoreHolds
<1>23. ASSUME DryRunEnds
       PROVE  Waiting'
  BY <1>23, DryRunEndsDoes, CoreHolds
<1>24. ASSUME NEW N \in SUBSET Flows, PackageIntegrationData(N)
       PROVE  Waiting'
  BY <1>24, PackageIntegrationDataDoes, CoreHolds
<1>25. ASSUME Confirm
       PROVE  Waiting'
  BY <1>25, ConfirmDoes, CoreHolds
<1>26. ASSUME DeploySyncs
       PROVE  Waiting'
  BY <1>26, DeploySyncsDoes, CoreHolds
<1> QED BY <1>1, <1>2, <1>3, <1>4, <1>5, <1>6, <1>7, <1>8, <1>9, <1>10, <1>11, <1>12, <1>13,
           <1>14, <1>15, <1>16, <1>17, <1>18, <1>19, <1>20, <1>21, <1>22, <1>23, <1>24, <1>25,
           <1>26 DEF FilesNext, Developer, Dev, Command

\* What compiles needs its text, models.ts and the interface.
LEMMA CompilesAgain ==
    ASSUME NEW s \in Scripts, ts'[s] = ts[s], dev'.config = dev.config,
           models.written \/ models'.written = models.written, models'.interface = models.interface
    PROVE  Compiles(s, dev.config)' => Compiles(s, dev.config)
BY DEF Compiles, Existing, Declared, GetModelNamesFromConfig, NangoCallsAreUsedCorrectly

LEMMA CompilesIsThere ==
    ASSUME NEW s \in Scripts, NEW c, Compiles(s, c)
    PROVE  ts[s] # NoFile
BY DEF Compiles, Existing

LEMMA CompilesIsThereThen ==
    ASSUME NEW s \in Scripts, Compiles(s, dev.config)'
    PROVE  ts'[s] # NoFile
BY DEF Compiles, Existing

\* The steps that leave the scripts, the watchers and models.ts as they are.
LEMMA DistStays ==
    ASSUME CoreInv, DistFits,
           UNCHANGED <<ts, dev, events>>, "interfaces" \in doubts => "interfaces" \in doubts',
           models'.interface = models.interface, models.written \/ models'.written = models.written,
           \A s \in Scripts : dist'[s] \in {ts[s], dist[s]}
    PROVE  DistFits'
<1> SUFFICES ASSUME Running', "interfaces" \notin doubts', NEW s \in Scripts, Compiles(s, dev.config)'
             PROVE  dist'[s] = ts'[s] \/ events'[s] # <<>>
  BY DEF DistFits
<1>1. Compiles(s, dev.config)
  BY CompilesAgain
<1> QED BY <1>1 DEF DistFits, Running

LEMMA StepDistFits ==
    ASSUME CoreInv, EventsFit, Waiting, DistFits, FilesNext
    PROVE  DistFits'
<1>1. ASSUME NEW s \in Scripts, NEW k \in Kinds, SaveScript(s, k)
      PROVE  DistFits'
  <2> SUFFICES ASSUME Running', "interfaces" \notin doubts', NEW q \in Scripts, Compiles(q, dev.config)'
               PROVE  dist'[q] = ts'[q] \/ events'[q] # <<>>
    BY DEF DistFits
  <2>1. PICK e \in {"add", "change"} : ToldOf(s, e)
    BY <1>1, SaveScriptDoes, CoreHolds
  <2>2. UNCHANGED <<models, dist, dev, doubts>> /\ (q # s => ts'[q] = ts[q])
    BY <1>1, SaveScriptDoes, CoreHolds
  <2>3. CASE q = s
    BY <2>1, <2>2, <2>3 DEF ToldOf, Running
  <2>4. CASE q # s
    <3>1. Compiles(q, dev.config)
      BY <2>2, <2>4, CompilesAgain
    <3> QED BY <2>1, <2>2, <2>4, <3>1 DEF DistFits, ToldOf, Running
  <2> QED BY <2>3, <2>4
<1>2. ASSUME NEW s \in Scripts, RemoveScript(s)
      PROVE  DistFits'
  <2> SUFFICES ASSUME Running', "interfaces" \notin doubts', NEW q \in Scripts, Compiles(q, dev.config)'
               PROVE  dist'[q] = ts'[q] \/ events'[q] # <<>>
    BY DEF DistFits
  <2>1. ToldOf(s, "unlink") /\ ts'[s] = NoFile
        /\ UNCHANGED <<models, dist, dev, doubts>> /\ (q # s => ts'[q] = ts[q])
    BY <1>2, RemoveScriptDoes, CoreHolds
  <2>2. q # s
    BY <2>1, CompilesIsThereThen
  <2>3. Compiles(q, dev.config)
    BY <2>1, <2>2, CompilesAgain
  <2> QED BY <2>1, <2>2, <2>3 DEF DistFits, ToldOf, Running
<1>3. ASSUME NEW c \in Configs, SaveConfig(c)
      PROVE  DistFits'
  BY <1>3, SaveConfigDoes, DistStays, CoreHolds
<1>4. ASSUME NEW w \in BOOLEAN, StartDev(w)
      PROVE  DistFits'
  <2> SUFFICES ASSUME Running', "interfaces" \notin doubts', NEW q \in Scripts, Compiles(q, dev.config)'
               PROVE  dist'[q] = ts'[q] \/ events'[q] # <<>>
    BY DEF DistFits
  <2>1. <<"add">> # <<>>
    OBVIOUS
  <2>2. UNCHANGED ts /\ \A s \in Scripts : events'[s] = IF ts[s] # NoFile THEN <<"add">> ELSE <<>>
    BY <1>4, StartDevDoes, CoreHolds DEF Halted, Running
  <2> QED BY <2>1, <2>2, CompilesIsThereThen
<1>5. ASSUME StopDev
      PROVE  DistFits'
  BY <1>5, StopDevDoes, CoreHolds DEF DistFits, Halted, Running
<1>6. ASSUME NEW s \in Scripts, CompileFile(s)
      PROVE  DistFits'
  <2> SUFFICES ASSUME Running', "interfaces" \notin doubts', NEW q \in Scripts, Compiles(q, dev.config)'
               PROVE  dist'[q] = ts'[q] \/ events'[q] # <<>>
    BY DEF DistFits
  <2>1. dist' = Compiled({s}, dev.config) /\ Handled(s)
        /\ UNCHANGED <<ts, models, dev, doubts>> /\ dev.pc = "watching"
    BY <1>6, CompileFileDoes, CoreHolds
  <2>2. Compiles(q, dev.config)
    BY <2>1, CompilesAgain
  <2>3. (q = s => dist'[q] = ts[q]) /\ (q # s => dist'[q] = dist[q])
    <3>1. {s} \in SUBSET Scripts /\ q \in Scripts
      OBVIOUS
    <3> QED BY <2>1, <2>2, <3>1, CompileIs, CoreHolds
  <2> QED BY <2>1, <2>2, <2>3 DEF DistFits, Handled, Running
<1>7. ASSUME NEW s \in Scripts, UnlinkFile(s)
      PROVE  DistFits'
  <2> SUFFICES ASSUME Running', "interfaces" \notin doubts', NEW q \in Scripts, Compiles(q, dev.config)'
               PROVE  dist'[q] = ts'[q] \/ events'[q] # <<>>
    BY DEF DistFits
  <2>1. /\ dev.pc = "watching" /\ events[s] # <<>> /\ Head(events[s]) = "unlink"
        /\ Handled(s) /\ \A p \in Scripts : p # s => dist'[p] = dist[p]
        /\ UNCHANGED <<ts, models, dev, doubts>>
    BY <1>7, UnlinkFileDoes, CoreHolds DEF Halted, Running
  <2>2. Compiles(q, dev.config) /\ Running
    BY <2>1, CompilesAgain DEF Running
  <2>3. ASSUME q = s, events'[q] = <<>> PROVE FALSE
    <3>1. Newest(events[s]) = "unlink"
      BY <2>1, <2>3 DEF Handled
    <3>2. ts[s] = NoFile
      BY <2>1, <2>2, <3>1 DEF EventsFit
    <3> QED BY <2>2, <2>3, <3>2, CompilesIsThere
  <2> QED BY <2>1, <2>2, <2>3 DEF DistFits, Handled, Running
<1>8. ASSUME RecompileAll
      PROVE  DistFits'
  <2> SUFFICES ASSUME Running', "interfaces" \notin doubts', NEW q \in Scripts, Compiles(q, dev.config)'
               PROVE  dist'[q] = ts'[q] \/ events'[q] # <<>>
    BY DEF DistFits
  <2>1. dist' = Compiled(Scripts, dev.config) /\ UNCHANGED <<ts, models, dev>>
    BY <1>8, RecompileAllDoes, CoreHolds
  <2>2. Compiles(q, dev.config)
    BY <2>1, CompilesAgain
  <2>3. Scripts \in SUBSET Scripts /\ q \in Scripts
    OBVIOUS
  <2>4. Compiled(Scripts, dev.config)[q] = ts[q]
    BY <2>2, <2>3, CompileIs, CoreHolds
  <2> QED BY <2>1, <2>4
<1>9. ASSUME CreateModelFile
      PROVE  DistFits'
  <2> SUFFICES ASSUME Running', "interfaces" \notin doubts', NEW q \in Scripts, Compiles(q, dev.config)'
               PROVE  dist'[q] = ts'[q] \/ events'[q] # <<>>
    BY DEF DistFits
  <2>3. /\ UNCHANGED <<ts, dist, events>> /\ dev'.config = dev.config
        /\ DoubtedOf(yaml, Appending, doubts') /\ dev.pc \in {"watching", "interfaces"}
    BY <1>9, CreateModelFileDoes, CoreHolds DEF Halted, Running
  <2>1. CASE dev.pc = "interfaces"
    BY <2>1, <2>3, CompilesIsThereThen DEF Waiting
  <2>2. CASE dev.pc \in {"watching", "flows"}
    <3>1. models.written /\ Running
      BY <2>2, CoreHolds DEF Written, Running
    <3>2. models'.interface = models.interface /\ "interfaces" \notin doubts /\ UNCHANGED <<ts, dist, events>>
          /\ dev'.config = dev.config
      BY <3>1, <2>3 DEF DoubtedOf
    <3>3. Compiles(q, dev.config)
      BY <3>1, <3>2, CompilesAgain
    <3> QED BY <3>1, <3>2, <3>3 DEF DistFits
  <2> QED BY <2>1, <2>2, <2>3
<1>10. ASSUME ModelFileFlows
       PROVE  DistFits'
  <2> SUFFICES ASSUME Running', "interfaces" \notin doubts', NEW q \in Scripts, Compiles(q, dev.config)'
               PROVE  dist'[q] = ts'[q] \/ events'[q] # <<>>
    BY DEF DistFits
  <2>1. UNCHANGED <<ts, dist, events, doubts>> /\ Appended(1) /\ dev.pc = "flows" /\ dev'.config = dev.config
    BY <1>10, ModelFileFlowsDoes, CoreHolds DEF Halted, Running
  <2>2. Compiles(q, dev.config)
    BY <2>1, CompilesAgain DEF Appended
  <2> QED BY <2>1, <2>2 DEF DistFits, Running
<1>11. ASSUME NEW name \in Names, NEW S \in SUBSET Scripts, Begin(name, S)
       PROVE  DistFits'
  BY <1>11, BeginDoes, DistStays, CoreHolds
<1>12. ASSUME Scaffold
       PROVE  DistFits'
  <2>1. ~Running /\ UNCHANGED dev
    BY <1>12, ScaffoldDoes, CoreHolds DEF Scaffolded
  <2> QED BY <2>1 DEF DistFits, Running
<1>13. ASSUME Generate
       PROVE  DistFits'
  <2>1. CASE UNCHANGED <<models, doubts>>
    BY <2>1, <1>13, GenerateDoes, DistStays, CoreHolds
  <2>2. CASE DoubtedOf(yaml, dev.pc = "flows", doubts')
    <3> SUFFICES ASSUME Running', "interfaces" \notin doubts', NEW q \in Scripts, Compiles(q, dev.config)'
                 PROVE  dist'[q] = ts'[q] \/ events'[q] # <<>>
      BY DEF DistFits
    <3>1. CASE dev.pc = "interfaces"
      BY <3>1, <1>13, GenerateDoes, CompilesIsThereThen, CoreHolds DEF Waiting
    <3>2. CASE dev.pc \in {"watching", "flows"}
      <4>1. models.written /\ Running
        BY <3>2, CoreHolds DEF Written, Running
      <4>2. models'.interface = models.interface /\ "interfaces" \notin doubts /\ UNCHANGED <<ts, dist, events>>
            /\ dev'.config = dev.config
        BY <4>1, <2>2, <1>13, GenerateDoes, CoreHolds DEF DoubtedOf
      <4>3. Compiles(q, dev.config)
        BY <4>1, <4>2, CompilesAgain
      <4> QED BY <4>1, <4>2, <4>3 DEF DistFits
    <3> QED BY <3>1, <3>2, <1>13, GenerateDoes, CoreHolds DEF Running
  <2> QED BY <2>1, <2>2, <1>13, GenerateDoes, CoreHolds
<1>14. ASSUME GenerateScripts
       PROVE  DistFits'
  <2>1. CASE UNCHANGED <<ts, models, dist, events>> /\ doubts' = doubts \cup {"refused"}
    BY <2>1, <1>14, GenerateScriptsDoes, DistStays, CoreHolds
  <2>2. CASE Appended(command.flows) /\ doubts' = doubts
    <3> SUFFICES ASSUME Running', "interfaces" \notin doubts', NEW q \in Scripts, Compiles(q, dev.config)'
                 PROVE  dist'[q] = ts'[q] \/ events'[q] # <<>>
      BY DEF DistFits
    <3>1. UNCHANGED dev /\ dist'[q] \in {ts'[q], dist[q]}
          /\ \/ ts'[q] = ts[q] /\ events'[q] = events[q]
             \/ Running => events'[q] # <<>>
      BY <1>14, GenerateScriptsDoes, CoreHolds
    <3>2. ASSUME ts'[q] = ts[q] PROVE Compiles(q, dev.config)
      BY <2>2, <3>1, <3>2, CompilesAgain DEF Appended
    <3> QED BY <2>2, <3>1, <3>2 DEF DistFits, Running
  <2> QED BY <2>1, <2>2, <1>14, GenerateScriptsDoes, CoreHolds
<1>15. ASSUME CheckYamlMatchesTsFiles
       PROVE  DistFits'
  BY <1>15, CheckYamlMatchesTsFilesDoes, DistStays, CoreHolds
<1>16. ASSUME LookUp
       PROVE  DistFits'
  BY <1>16, LookUpDoes, DistStays, CoreHolds
<1>17. ASSUME Tsc
       PROVE  DistFits'
  <2>10. CASE UNCHANGED <<models, doubts>>
    BY <2>10, <1>17, TscDoes, DistStays, CoreHolds
  <2>11. CASE Built(yaml) /\ DoubtedOf(yaml, dev.pc = "flows", doubts')
    <3> SUFFICES ASSUME Running', "interfaces" \notin doubts', NEW q \in Scripts, Compiles(q, dev.config)'
                 PROVE  dist'[q] = ts'[q] \/ events'[q] # <<>>
      BY DEF DistFits
    <3>1. CASE dev.pc = "interfaces"
      BY <3>1, <1>17, TscDoes, CompilesIsThereThen, CoreHolds DEF Waiting
    <3>2. CASE dev.pc \in {"watching", "flows"}
      <4>1. models.written /\ Running
        BY <3>2, CoreHolds DEF Written, Running
      <4>2. models'.interface = models.interface /\ "interfaces" \notin doubts /\ UNCHANGED <<ts, dist, events>>
            /\ dev'.config = dev.config
        BY <4>1, <2>11, <1>17, TscDoes, CoreHolds DEF DoubtedOf
      <4>3. Compiles(q, dev.config)
        BY <4>1, <4>2, CompilesAgain
      <4> QED BY <4>1, <4>2, <4>3 DEF DistFits
    <3> QED BY <3>1, <3>2, <1>17, TscDoes, CoreHolds DEF Running
  <2> QED BY <2>10, <2>11, <1>17, TscDoes, CoreHolds
<1>18. ASSUME TscFlows
       PROVE  DistFits'
  BY <1>18, TscFlowsDoes, DistStays, CoreHolds DEF Appended
<1>19. ASSUME Glob
       PROVE  DistFits'
  BY <1>19, GlobDoes, DistStays, CoreHolds
<1>20. ASSUME NEW s \in Scripts, TscFile(s)
       PROVE  DistFits'
  <2>1. {s} \in SUBSET Scripts /\ dist' = Compiled({s}, command.config)
    BY <1>20, TscFileDoes, CoreHolds
  <2>2. \A q \in Scripts : dist'[q] \in {ts[q], dist[q]}
    BY <2>1, CompileIs, CoreHolds
  <2> QED BY <2>2, <1>20, TscFileDoes, DistStays, CoreHolds
<1>21. ASSUME TscEnds
       PROVE  DistFits'
  BY <1>21, TscEndsDoes, DistStays, CoreHolds
<1>22. ASSUME DryRun
       PROVE  DistFits'
  BY <1>22, DryRunDoes, DistStays, CoreHolds
<1>23. ASSUME DryRunEnds
       PROVE  DistFits'
  BY <1>23, DryRunEndsDoes, DistStays, CoreHolds
<1>24. ASSUME NEW N \in SUBSET Flows, PackageIntegrationData(N)
       PROVE  DistFits'
  BY <1>24, PackageIntegrationDataDoes, DistStays, CoreHolds
<1>25. ASSUME Confirm
       PROVE  DistFits'
  BY <1>25, ConfirmDoes, DistStays, CoreHolds
<1>26. ASSUME DeploySyncs
       PROVE  DistFits'
  BY <1>26, DeploySyncsDoes, DistStays, CoreHolds
<1> QED BY <1>1, <1>2, <1>3, <1>4, <1>5, <1>6, <1>7, <1>8, <1>9, <1>10, <1>11, <1>12, <1>13,
           <1>14, <1>15, <1>16, <1>17, <1>18, <1>19, <1>20, <1>21, <1>22, <1>23, <1>24, <1>25,
           <1>26 DEF FilesNext, Developer, Dev, Command

(***************************************************************************)
(* models.ts is made of nango.yaml.                                        *)
(***************************************************************************)

\* Who writes models.ts beside another is doubted.
Beside == dev.pc = "flows" /\ Appending => "beside" \in doubts

\* A command that appends twice has scaffolded.
Twice == command.pc = "scripts" /\ command.flows = 2 => doubts \cap {"scaffold", "beside"} # {}

\* The interfaces, then the flows, of the configuration there is.
ModelsFit ==
    models.written /\ doubts \cap Stale = {} /\ changes.config = 0 =>
        /\ models.interface <=> Defined(yaml)
        /\ dev.pc = "flows" \/ Appending => models.flows = 0
        /\ ~(dev.pc = "flows" \/ Appending) => models.of = yaml /\ models.flows = 1

ModelsInv == Beside /\ Twice /\ ModelsFit

\* The steps that leave models.ts and those who write it as they are.
LEMMA ModelsStay ==
    ASSUME CoreInv, ModelsInv, UNCHANGED <<yaml, models, doubts>>, changes'.config = changes.config,
           dev'.pc = "flows" <=> dev.pc = "flows",
           command'.pc \in {"scripts", "flows"} <=> command.pc \in {"scripts", "flows"},
           command'.pc = "scripts" => command.pc = "scripts" /\ command'.flows = command.flows
    PROVE  ModelsInv'
BY DEF ModelsInv, Beside, Twice, ModelsFit, Defined, Appending

LEMMA StepModels ==
    ASSUME CoreInv, ModelsInv, FilesNext
    PROVE  ModelsInv'
<1>1. ASSUME NEW s \in Scripts, NEW k \in Kinds, SaveScript(s, k)
      PROVE  ModelsInv'
  BY <1>1, SaveScriptDoes, ModelsStay, CoreHolds DEF Moved, Touched, Ended
<1>2. ASSUME NEW s \in Scripts, RemoveScript(s)
      PROVE  ModelsInv'
  BY <1>2, RemoveScriptDoes, ModelsStay, CoreHolds DEF Moved, Touched, Ended
<1>3. ASSUME NEW c \in Configs, SaveConfig(c)
      PROVE  ModelsInv'
  <2>1. /\ UNCHANGED <<models, dev>> /\ command'.pc = command.pc /\ command'.flows = command.flows
        /\ Running /\ dev.watch => changes' \in [tsc : Nat, config : Nat] /\ changes'.config = changes.config + 1
        /\ ~(Running /\ dev.watch) => "away" \in doubts'
        /\ doubts \subseteq doubts'
    BY <1>3, SaveConfigDoes, CoreHolds
  <2>2. changes.config \in Nat
    BY CoreHolds DEF Types
  <2>3. Beside' /\ Twice'
    BY <2>1 DEF ModelsInv, Beside, Twice, Appending
  <2>4. ModelsFit'
    BY <2>1, <2>2 DEF ModelsFit, Defined, Stale
  <2> QED BY <2>3, <2>4 DEF ModelsInv
<1>4. ASSUME NEW w \in BOOLEAN, StartDev(w)
      PROVE  ModelsInv'
  <2>1. /\ ~Running /\ dev.pc # "flows" /\ UNCHANGED <<yaml, models, command, doubts>> /\ dev'.pc # "flows"
        /\ Halted("crashed") \/ UNCHANGED changes
    BY <1>4, StartDevDoes, CoreHolds DEF Halted, Running
  <2>2. changes'.config = changes.config
    BY <2>1, CoreHolds DEF Stopped, Halted
  <2> QED BY <2>1, <2>2, ModelsStay
<1>5. ASSUME StopDev
      PROVE  ModelsInv'
  <2>1. /\ UNCHANGED <<yaml, models, command>> /\ dev'.pc = "off" /\ changes'.config = 0
        /\ doubts \subseteq doubts'
        /\ changes.config > 0 \/ dev.pc = "flows" => "away" \in doubts'
    BY <1>5, StopDevDoes, CoreHolds DEF Halted
  <2>2. changes.config \in Nat
    BY CoreHolds DEF Types
  <2>3. Beside' /\ Twice'
    BY <2>1 DEF ModelsInv, Beside, Twice, Appending
  <2>4. ModelsFit'
    BY <2>1, <2>2 DEF ModelsInv, ModelsFit, Defined, Appending, Stale
  <2> QED BY <2>3, <2>4 DEF ModelsInv
<1>6. ASSUME NEW s \in Scripts, CompileFile(s)
      PROVE  ModelsInv'
  BY <1>6, CompileFileDoes, ModelsStay, CoreHolds DEF Moved, Touched, Ended
<1>7. ASSUME NEW s \in Scripts, UnlinkFile(s)
      PROVE  ModelsInv'
  <2>1. dev.pc = "watching" /\ UNCHANGED <<yaml, models>> /\ command'.pc = command.pc /\ command'.flows = command.flows
    BY <1>7, UnlinkFileDoes, CoreHolds DEF Touched
  <2>2. CASE UNCHANGED <<dev, changes, doubts>>
    BY <2>1, <2>2, ModelsStay
  <2>3. CASE Halted("crashed") /\ doubts' = (IF changes.config > 0 THEN doubts \cup {"away"} ELSE doubts)
    <3>1. changes.config \in Nat /\ dev'.pc = "crashed" /\ changes'.config = 0
      BY <2>3, CoreHolds DEF Types, Halted
    <3>2. doubts \subseteq doubts' /\ (changes.config > 0 => "away" \in doubts')
      BY <2>3
    <3>3. Beside' /\ Twice'
      BY <2>1, <3>1, <3>2 DEF ModelsInv, Beside, Twice, Appending
    <3>4. ModelsFit'
      BY <2>1, <3>1, <3>2 DEF ModelsInv, ModelsFit, Defined, Appending, Stale
    <3> QED BY <3>3, <3>4 DEF ModelsInv
  <2> QED BY <2>2, <2>3, <1>7, UnlinkFileDoes, CoreHolds
<1>8. ASSUME RecompileAll
      PROVE  ModelsInv'
  <2>1. UNCHANGED <<yaml, models, dev, command>> /\ changes'.config = changes.config
        /\ doubts' = doubts \ {"interfaces"}
    BY <1>8, RecompileAllDoes, CoreHolds
  <2>2. \A d \in Stale \cup {"scaffold", "beside"} : d \in doubts <=> d \in doubts'
    BY <2>1 DEF Stale
  <2>3. (doubts \cap Stale = {} <=> doubts' \cap Stale = {})
        /\ (doubts \cap {"scaffold", "beside"} = {} <=> doubts' \cap {"scaffold", "beside"} = {})
    BY <2>2 DEF Stale
  <2>4. Beside' /\ Twice' /\ ModelsFit'
    BY <2>1, <2>2, <2>3 DEF ModelsInv, Beside, Twice, ModelsFit, Defined, Appending
  <2> QED BY <2>4 DEF ModelsInv
<1>9. ASSUME CreateModelFile
      PROVE  ModelsInv'
  <2>1. UNCHANGED <<yaml, command>> /\ dev.pc # "flows"
    BY <1>9, CreateModelFileDoes, CoreHolds
  <2>2. CASE Halted("crashed") /\ doubts' = doubts \cup {"refused"}
    <3>1. dev'.pc # "flows" /\ doubts \subseteq doubts' /\ "refused" \in doubts' \cap Stale
      BY <2>2 DEF Halted, Stale
    <3> QED BY <2>1, <3>1 DEF ModelsInv, Beside, Twice, ModelsFit
  <2>3. CASE dev'.pc = "flows" /\ Built(yaml) /\ DoubtedOf(yaml, Appending, doubts')
    <3>1. Beside'
      BY <2>1, <2>3 DEF Beside, Appending, DoubtedOf
    <3>2. Twice'
      BY <2>1, <2>3 DEF Twice, Appending, DoubtedOf
    <3>3. ModelsFit'
      BY <2>1, <2>3 DEF ModelsFit, Defined, Built, DoubtedOf
    <3> QED BY <3>1, <3>2, <3>3 DEF ModelsInv
  <2> QED BY <2>2, <2>3, <1>9, CreateModelFileDoes, CoreHolds
<1>10. ASSUME ModelFileFlows
       PROVE  ModelsInv'
  <2>1. UNCHANGED <<yaml, command>> /\ dev.pc = "flows" /\ dev'.pc # "flows"
    BY <1>10, ModelFileFlowsDoes, CoreHolds DEF Halted
  <2>2. CASE doubts' = doubts \cup {"refused"}
    <3>1. doubts \subseteq doubts' /\ "refused" \in doubts' \cap Stale
      BY <2>2 DEF Stale
    <3> QED BY <2>1, <3>1 DEF ModelsInv, Beside, Twice, ModelsFit
  <2>3. CASE UNCHANGED <<doubts, changes>> /\ Appended(1)
    <3>1. Beside' /\ Twice'
      BY <2>1, <2>3 DEF ModelsInv, Beside, Twice, Appending
    <3>2. ModelsFit'
      BY <2>1, <2>3 DEF ModelsInv, Beside, ModelsFit, Defined, Appending, Appended, Stale
    <3> QED BY <3>1, <3>2 DEF ModelsInv
  <2> QED BY <2>2, <2>3, <1>10, ModelFileFlowsDoes, CoreHolds
<1>11. ASSUME NEW name \in Names, NEW S \in SUBSET Scripts, Begin(name, S)
       PROVE  ModelsInv'
  <2>1. /\ command.pc = "idle" /\ command'.pc \in {"scaffold", "generate", "check", "lookup", "tsc"}
        /\ UNCHANGED <<yaml, models, doubts, changes, dev>>
    BY <1>11, BeginDoes, CoreHolds
  <2> QED BY <2>1, ModelsStay
<1>12. ASSUME Scaffold
       PROVE  ModelsInv'
  <2>1. /\ yaml' = Default /\ Built(Default) /\ command'.pc = "scripts" /\ UNCHANGED dev
        /\ command'.flows = 2 => command.name # "init"
        /\ \E new : DoubtedOf(Default, dev.pc = "flows", new)
                    /\ doubts' = new \cup (IF command.name = "init" THEN {} ELSE {"scaffold"})
        /\ dev.pc # "flows"
    BY <1>12, ScaffoldDoes, CoreHolds DEF Scaffolded, Running
  <2>2. PICK new : DoubtedOf(Default, dev.pc = "flows", new)
                   /\ doubts' = new \cup (IF command.name = "init" THEN {} ELSE {"scaffold"})
    BY <2>1
  <2>3. Beside' /\ Twice'
    BY <2>1, <2>2 DEF Beside, Twice
  <2>4. ModelsFit'
    BY <2>1, <2>2 DEF ModelsFit, Defined, Built, DoubtedOf, Appending, Stale
  <2> QED BY <2>3, <2>4 DEF ModelsInv
<1>13. ASSUME Generate
       PROVE  ModelsInv'
  <2>1. CASE Ended /\ UNCHANGED <<models, doubts>>
    BY <2>1, <1>13, GenerateDoes, ModelsStay, CoreHolds DEF Ended
  <2>2. CASE /\ command'.pc = "scripts" /\ command'.flows = command.flows
             /\ Built(yaml) /\ DoubtedOf(yaml, dev.pc = "flows", doubts')
    <3>1. UNCHANGED <<yaml, dev, changes>> /\ command.flows = 1
      BY <1>13, GenerateDoes, CoreHolds DEF NamesFit
    <3>2. Beside' /\ Twice'
      BY <2>2, <3>1 DEF Beside, Twice, DoubtedOf
    <3>3. ModelsFit'
      BY <2>2, <3>1 DEF ModelsFit, Defined, Built, DoubtedOf, Appending
    <3> QED BY <3>2, <3>3 DEF ModelsInv
  <2> QED BY <2>1, <2>2, <1>13, GenerateDoes, CoreHolds
<1>14. ASSUME GenerateScripts
       PROVE  ModelsInv'
  <2>1. /\ UNCHANGED <<yaml, dev, changes>> /\ command.pc = "scripts"
        /\ command'.pc \in {"idle", "check", "lookup", "tsc"}
    BY <1>14, GenerateScriptsDoes, CoreHolds DEF Moved, Ended
  <2>2. CASE UNCHANGED models /\ doubts' = doubts \cup {"refused"}
    <3>1. doubts \subseteq doubts' /\ "refused" \in doubts' \cap Stale
      BY <2>2 DEF Stale
    <3> QED BY <2>1, <3>1 DEF ModelsInv, Beside, Twice, ModelsFit, Appending
  <2>3. CASE doubts' = doubts /\ Appended(command.flows)
    <3>1. Beside' /\ Twice'
      BY <2>1 DEF Beside, Twice, Appending
    <3>2. doubts \cap Stale = {} => command.flows = 1 /\ dev.pc # "flows"
      BY <2>1, CoreHolds DEF Types, CommandType, ModelsInv, Beside, Twice, Appending, Stale
    <3>3. ModelsFit'
      BY <2>1, <2>3, <3>2 DEF ModelsInv, ModelsFit, Defined, Appending, Appended
    <3> QED BY <3>1, <3>3 DEF ModelsInv
  <2> QED BY <2>2, <2>3, <1>14, GenerateScriptsDoes, CoreHolds
<1>15. ASSUME CheckYamlMatchesTsFiles
       PROVE  ModelsInv'
  BY <1>15, CheckYamlMatchesTsFilesDoes, ModelsStay, CoreHolds DEF Moved, Touched, Ended
<1>16. ASSUME LookUp
       PROVE  ModelsInv'
  BY <1>16, LookUpDoes, ModelsStay, CoreHolds DEF Moved, Touched, Ended
<1>17. ASSUME Tsc
       PROVE  ModelsInv'
  <2>1. CASE (Moved("glob") \/ Ended) /\ UNCHANGED <<models, doubts>>
    BY <2>1, <1>17, TscDoes, ModelsStay, CoreHolds DEF Moved, Ended
  <2>2. CASE Moved("flows") /\ Built(yaml) /\ DoubtedOf(yaml, dev.pc = "flows", doubts')
    <3>1. UNCHANGED <<yaml, dev, changes>> /\ command'.pc = "flows"
      BY <2>2, <1>17, TscDoes, CoreHolds DEF Moved
    <3>2. Beside' /\ Twice'
      BY <2>2, <3>1 DEF Beside, Twice, DoubtedOf
    <3>3. ModelsFit'
      BY <2>2, <3>1 DEF ModelsFit, Defined, Built, DoubtedOf, Appending
    <3> QED BY <3>2, <3>3 DEF ModelsInv
  <2> QED BY <2>1, <2>2, <1>17, TscDoes, CoreHolds
<1>18. ASSUME TscFlows
       PROVE  ModelsInv'
  <2>1. UNCHANGED <<yaml, dev, changes>> /\ command.pc = "flows" /\ command'.pc \in {"idle", "glob"}
    BY <1>18, TscFlowsDoes, CoreHolds DEF Moved, Ended
  <2>2. CASE UNCHANGED models /\ doubts' = doubts \cup {"refused"}
    <3>1. doubts \subseteq doubts' /\ "refused" \in doubts' \cap Stale
      BY <2>2 DEF Stale
    <3> QED BY <2>1, <3>1 DEF ModelsInv, Beside, Twice, ModelsFit, Appending
  <2>3. CASE doubts' = doubts /\ Appended(1)
    <3>1. Beside' /\ Twice'
      BY <2>1 DEF Beside, Twice, Appending
    <3>2. doubts \cap Stale = {} => dev.pc # "flows"
      BY <2>1 DEF ModelsInv, Beside, Appending, Stale
    <3>3. ModelsFit'
      BY <2>1, <2>3, <3>2 DEF ModelsInv, ModelsFit, Defined, Appending, Appended
    <3> QED BY <3>1, <3>3 DEF ModelsInv
  <2> QED BY <2>2, <2>3, <1>18, TscFlowsDoes, CoreHolds
<1>19. ASSUME Glob
       PROVE  ModelsInv'
  BY <1>19, GlobDoes, ModelsStay, CoreHolds DEF Moved, Touched, Ended
<1>20. ASSUME NEW s \in Scripts, TscFile(s)
       PROVE  ModelsInv'
  BY <1>20, TscFileDoes, ModelsStay, CoreHolds DEF Moved, Touched, Ended
<1>21. ASSUME TscEnds
       PROVE  ModelsInv'
  BY <1>21, TscEndsDoes, ModelsStay, CoreHolds DEF Moved, Touched, Ended
<1>22. ASSUME DryRun
       PROVE  ModelsInv'
  BY <1>22, DryRunDoes, ModelsStay, CoreHolds DEF Moved, Touched, Ended
<1>23. ASSUME DryRunEnds
       PROVE  ModelsInv'
  BY <1>23, DryRunEndsDoes, ModelsStay, CoreHolds DEF Moved, Touched, Ended
<1>24. ASSUME NEW N \in SUBSET Flows, PackageIntegrationData(N)
       PROVE  ModelsInv'
  BY <1>24, PackageIntegrationDataDoes, ModelsStay, CoreHolds DEF Moved, Touched, Ended
<1>25. ASSUME Confirm
       PROVE  ModelsInv'
  BY <1>25, ConfirmDoes, ModelsStay, CoreHolds DEF Moved, Touched, Ended
<1>26. ASSUME DeploySyncs
       PROVE  ModelsInv'
  BY <1>26, DeploySyncsDoes, ModelsStay, CoreHolds DEF Moved, Touched, Ended
<1> QED BY <1>1, <1>2, <1>3, <1>4, <1>5, <1>6, <1>7, <1>8, <1>9, <1>10, <1>11, <1>12, <1>13,
           <1>14, <1>15, <1>16, <1>17, <1>18, <1>19, <1>20, <1>21, <1>22, <1>23, <1>24, <1>25,
           <1>26 DEF FilesNext, Developer, Dev, Command

(***************************************************************************)
(* What runs is what is written.                                           *)
(***************************************************************************)

\* What compiled, and was not touched, is in dist.
CompiledFits ==
    command.name \in Testing =>
        \A s \in Scripts : s \in command.compiled /\ s \notin command.touched =>
            dist[s] = ts[s] /\ ts[s] # NoFile

\* Only what compiled runs; the package is made by the configuration there is.
RunFits == command.pc = "run" => command.only \cap Declared(command.config) \subseteq command.compiled
ConfigFits == command.pc \in {"package", "confirm"} /\ ~command.changed => command.config = yaml

RunsInv == CompiledFits /\ RunFits /\ ConfigFits /\ DeploymentMatches /\ DryRunIsFaithful

\* The steps that move the command on to tsc, or end it, and leave the files.
LEMMA RunsMove ==
    ASSUME CoreInv, RunsInv, Moved("tsc") \/ Ended, UNCHANGED <<yaml, ts, dist>>
    PROVE  RunsInv'
<1>1. CASE Ended
  <2>1. None \notin Testing
    BY DEF None, Testing
  <2> QED BY <1>1, <2>1 DEF Ended, RunsInv, CompiledFits, RunFits, ConfigFits, DeploymentMatches,
             DryRunIsFaithful
<1>2. CASE Moved("tsc")
  BY <1>2 DEF Moved, RunsInv, CompiledFits, RunFits, ConfigFits, DeploymentMatches, DryRunIsFaithful
<1> QED BY <1>1, <1>2

\* The steps that leave the command, nango.yaml and the scripts.
LEMMA RunsStay ==
    ASSUME CoreInv, RunsInv, UNCHANGED <<yaml, ts, command>>,
           \A s \in Scripts : dist'[s] \in {ts[s], dist[s]}
    PROVE  RunsInv'
<1>1. CompiledFits' /\ RunFits' /\ ConfigFits'
  BY DEF RunsInv, CompiledFits, RunFits, ConfigFits, Declared
<1>2. DeploymentMatches' /\ DryRunIsFaithful'
  BY DEF RunsInv, DeploymentMatches, DryRunIsFaithful, Declared, Chosen
<1> QED BY <1>1, <1>2 DEF RunsInv

\* The steps that touch a script.
LEMMA RunsTouch ==
    ASSUME CoreInv, RunsInv, NEW s \in Scripts, Touched({s}), UNCHANGED yaml,
           \A q \in Scripts : q # s => ts'[q] = ts[q] /\ dist'[q] = dist[q]
    PROVE  RunsInv'
<1>1. command.name \in Testing => s \in command'.touched /\ \A q \in Scripts : q \notin command'.touched => q \notin command.touched
  BY DEF Touched, Testing
<1>2. command \in CommandType /\ command'.name = command.name
  BY CoreHolds DEF Types, Touched
<1>3. CompiledFits' /\ RunFits' /\ ConfigFits'
  BY <1>1, <1>2 DEF Touched, RunsInv, CompiledFits, RunFits, ConfigFits, Declared
<1>4. DeploymentMatches'
  <2> SUFFICES ASSUME command'.pc \in {"confirm", "send"}
               PROVE  /\ \A q \in Chosen(command'.config, command'.named) :
                            q \in command'.compiled \ command'.touched =>
                                command'.sent[q].js = ts'[q] /\ command'.sent[q].ts = ts'[q]
                      /\ \A q \in Scripts \ Chosen(command'.config, command'.named) :
                            command'.sent[q] = Nothing[q]
                      /\ ~command'.changed => command'.body = command'.config
    BY DEF DeploymentMatches, Declared, Chosen
  <2>1. command.pc \in {"confirm", "send"} /\ command.name \in Testing
    BY CoreHolds DEF NamesFit, Touched, Testing
  <2> QED BY <1>1, <2>1 DEF RunsInv, DeploymentMatches, Declared, Chosen, Touched
<1>5. DryRunIsFaithful'
  <2> SUFFICES ASSUME command'.pc = "running", NEW q \in command'.only \cap Declared(command'.config),
                      q \notin command'.touched
               PROVE  command'.sent[q].js = ts'[q]
    BY DEF DryRunIsFaithful, Declared
  <2>1. command.pc = "running" /\ command.name \in Testing /\ q \in Scripts
    BY <1>2, CoreHolds DEF NamesFit, Touched, Testing, CommandType
  <2> QED BY <1>1, <2>1 DEF RunsInv, DryRunIsFaithful, Touched
<1> QED BY <1>3, <1>4, <1>5 DEF RunsInv

LEMMA StepRuns ==
    ASSUME CoreInv, RunsInv, FilesNext
    PROVE  RunsInv'
<1>1. ASSUME NEW s \in Scripts, NEW k \in Kinds, SaveScript(s, k)
      PROVE  RunsInv'
  BY <1>1, SaveScriptDoes, RunsTouch, CoreHolds
<1>2. ASSUME NEW s \in Scripts, RemoveScript(s)
      PROVE  RunsInv'
  BY <1>2, RemoveScriptDoes, RunsTouch, CoreHolds
<1>3. ASSUME NEW c \in Configs, SaveConfig(c)
      PROVE  RunsInv'
  <2>1. /\ command'.pc = command.pc /\ command'.name = command.name /\ command'.only = command.only
        /\ command'.config = command.config /\ command'.named = command.named
        /\ command'.sent = command.sent /\ command'.body = command.body
        /\ command'.compiled = command.compiled /\ command'.touched = command.touched
        /\ command.name \in {"deploy", "admin"} => command'.changed
        /\ UNCHANGED <<ts, dist>>
    BY <1>3, SaveConfigDoes, CoreHolds
  <2>2. command.pc \in {"package", "confirm", "send"} => command'.changed
    BY <2>1, CoreHolds DEF NamesFit
  <2>3. CompiledFits' /\ RunFits' /\ ConfigFits'
    BY <2>1, <2>2 DEF RunsInv, CompiledFits, RunFits, ConfigFits, Declared
  <2>4. DeploymentMatches' /\ DryRunIsFaithful'
    BY <2>1, <2>2 DEF RunsInv, DeploymentMatches, DryRunIsFaithful, Declared, Chosen
  <2> QED BY <2>3, <2>4 DEF RunsInv
<1>4. ASSUME NEW w \in BOOLEAN, StartDev(w)
      PROVE  RunsInv'
  BY <1>4, StartDevDoes, RunsStay, CoreHolds
<1>5. ASSUME StopDev
      PROVE  RunsInv'
  BY <1>5, StopDevDoes, RunsStay, CoreHolds
<1>6. ASSUME NEW s \in Scripts, CompileFile(s)
      PROVE  RunsInv'
  <2>1. UNCHANGED <<yaml, ts, command>> /\ \E S \in SUBSET Scripts : \E c : dist' = Compiled(S, c)
    BY <1>6, CompileFileDoes, CoreHolds
  <2>2. \A q \in Scripts : dist'[q] \in {ts[q], dist[q]}
    BY <2>1, CompileIs, CoreHolds
  <2> QED BY <2>1, <2>2, RunsStay
<1>7. ASSUME NEW s \in Scripts, UnlinkFile(s)
      PROVE  RunsInv'
  BY <1>7, UnlinkFileDoes, RunsTouch, CoreHolds
<1>8. ASSUME RecompileAll
      PROVE  RunsInv'
  <2>1. UNCHANGED <<yaml, ts, command>> /\ \E S \in SUBSET Scripts : \E c : dist' = Compiled(S, c)
    BY <1>8, RecompileAllDoes, CoreHolds
  <2>2. \A q \in Scripts : dist'[q] \in {ts[q], dist[q]}
    BY <2>1, CompileIs, CoreHolds
  <2> QED BY <2>1, <2>2, RunsStay
<1>9. ASSUME CreateModelFile
      PROVE  RunsInv'
  BY <1>9, CreateModelFileDoes, RunsStay, CoreHolds
<1>10. ASSUME ModelFileFlows
       PROVE  RunsInv'
  BY <1>10, ModelFileFlowsDoes, RunsStay, CoreHolds
<1>11. ASSUME NEW name \in Names, NEW S \in SUBSET Scripts, Begin(name, S)
       PROVE  RunsInv'
  <2>1. command'.compiled = {} /\ command'.pc \in Early
    BY <1>11, BeginDoes, CoreHolds DEF Early
  <2> QED BY <2>1 DEF RunsInv, CompiledFits, RunFits, ConfigFits, DeploymentMatches,
             DryRunIsFaithful, Early
<1>12. ASSUME Scaffold
       PROVE  RunsInv'
  <2>1. command'.compiled = {} /\ command'.pc \in Early
    BY <1>12, ScaffoldDoes, CoreHolds DEF NamesFit, Early, Moved
  <2> QED BY <2>1 DEF RunsInv, CompiledFits, RunFits, ConfigFits, DeploymentMatches,
             DryRunIsFaithful, Early
<1>13. ASSUME Generate
       PROVE  RunsInv'
  <2>1. command'.compiled = {} /\ command'.pc \in Early
    BY <1>13, GenerateDoes, CoreHolds DEF NamesFit, Early, Moved, Ended
  <2> QED BY <2>1 DEF RunsInv, CompiledFits, RunFits, ConfigFits, DeploymentMatches,
             DryRunIsFaithful, Early
<1>14. ASSUME GenerateScripts
       PROVE  RunsInv'
  <2>1. command'.compiled = {} /\ command'.pc \in Early
    BY <1>14, GenerateScriptsDoes, CoreHolds DEF NamesFit, Early, Moved, Ended
  <2> QED BY <2>1 DEF RunsInv, CompiledFits, RunFits, ConfigFits, DeploymentMatches,
             DryRunIsFaithful, Early
<1>15. ASSUME CheckYamlMatchesTsFiles
       PROVE  RunsInv'
  <2>1. Moved("tsc") \/ Ended
    BY <1>15, CheckYamlMatchesTsFilesDoes, CoreHolds
  <2>2. UNCHANGED <<yaml, ts, dist>> /\ command.pc = "check"
    BY <1>15, CheckYamlMatchesTsFilesDoes, CoreHolds
  <2> QED BY <2>1, <2>2, RunsMove
<1>16. ASSUME LookUp
       PROVE  RunsInv'
  <2>1. Moved("tsc") \/ Ended
    BY <1>16, LookUpDoes, CoreHolds
  <2>2. UNCHANGED <<yaml, ts, dist>> /\ command.pc = "lookup"
    BY <1>16, LookUpDoes, CoreHolds
  <2> QED BY <2>1, <2>2, RunsMove
<1>17. ASSUME Tsc
       PROVE  RunsInv'
  <2>1. command'.compiled = {} /\ command'.pc \in Early
    BY <1>17, TscDoes, CoreHolds DEF NamesFit, Early, Moved, Ended
  <2> QED BY <2>1 DEF RunsInv, CompiledFits, RunFits, ConfigFits, DeploymentMatches,
             DryRunIsFaithful, Early
<1>18. ASSUME TscFlows
       PROVE  RunsInv'
  <2>1. command'.compiled = {} /\ command'.pc \in Early
    BY <1>18, TscFlowsDoes, CoreHolds DEF NamesFit, Early, Moved, Ended
  <2> QED BY <2>1 DEF RunsInv, CompiledFits, RunFits, ConfigFits, DeploymentMatches,
             DryRunIsFaithful, Early
<1>19. ASSUME Glob
       PROVE  RunsInv'
  <2>1. command'.compiled = {} /\ command'.pc \in {"idle", "compiling"}
    BY <1>19, GlobDoes, CoreHolds DEF NamesFit, Early, Ended
  <2> QED BY <2>1 DEF RunsInv, CompiledFits, RunFits, ConfigFits, DeploymentMatches,
             DryRunIsFaithful
<1>20. ASSUME NEW s \in Scripts, TscFile(s)
       PROVE  RunsInv'
  <2>1. /\ {s} \in SUBSET Scripts /\ dist' = Compiled({s}, command.config)
        /\ command'.pc = "compiling" /\ command'.name = command.name
        /\ IF Compiles(s, command.config)
           THEN /\ command'.compiled = command.compiled \cup {s}
                /\ command'.touched = command.touched \ {s}
           ELSE /\ command'.compiled = command.compiled
                /\ command'.touched = command.touched
        /\ UNCHANGED <<yaml, ts>>
    BY <1>20, TscFileDoes, CoreHolds
  <2>2. \A q \in Scripts : dist'[q] \in {ts[q], dist[q]}
    BY <2>1, CompileIs, CoreHolds
  <2>3. Compiles(s, command.config) => dist'[s] = ts[s] /\ ts[s] # NoFile
    <3>1. s \in {s} /\ s \in Scripts
      OBVIOUS
    <3>2. {s} \in SUBSET Scripts /\ dist' = Compiled({s}, command.config)
      BY <2>1
    <3> QED BY <3>1, <3>2, CompileIs, CompilesIsThere, CoreHolds
  <2>4. CompiledFits'
    BY <2>1, <2>2, <2>3 DEF RunsInv, CompiledFits
  <2> QED BY <2>1, <2>4 DEF RunsInv, RunFits, ConfigFits, DeploymentMatches, DryRunIsFaithful
<1>21. ASSUME TscEnds
       PROVE  RunsInv'
  <2>1. UNCHANGED <<yaml, ts, dist>>
    BY <1>21, TscEndsDoes, CoreHolds
  <2>2. CASE Ended
    BY <2>1, <2>2, RunsMove
  <2>3. CASE command.only \cap Declared(command.config) \subseteq command.compiled /\ Moved("run")
    BY <2>1, <2>3 DEF Moved, RunsInv, CompiledFits, RunFits, ConfigFits, DeploymentMatches, DryRunIsFaithful,
       Declared
  <2>4. CASE /\ command'.pc = "package" /\ command'.config = yaml
             /\ command'.name = command.name /\ command'.compiled = command.compiled
             /\ command'.touched = command.touched
    BY <2>1, <2>4 DEF RunsInv, CompiledFits, RunFits, ConfigFits, DeploymentMatches, DryRunIsFaithful
  <2> QED BY <2>2, <2>3, <2>4, <1>21, TscEndsDoes, CoreHolds
<1>22. ASSUME DryRun
       PROVE  RunsInv'
  <2>1. command.pc = "run" /\ UNCHANGED <<yaml, ts, dist>>
    BY <1>22, DryRunDoes, CoreHolds
  <2>2. CASE Ended
    BY <2>1, <2>2, RunsMove
  <2>3. CASE /\ command'.pc = "running" /\ command'.name = command.name
             /\ command'.only = command.only /\ command'.compiled = command.compiled
             /\ command'.touched = command.touched /\ command'.config = command.config
             /\ \A s \in command.only : command'.sent[s].js = dist[s] /\ command'.sent[s].ts = ts[s]
    <3>1. command.only \cap Declared(command.config) \subseteq command.compiled /\ command.name \in Testing
          /\ command.only \subseteq Scripts
      BY <2>1, CoreHolds DEF RunsInv, RunFits, NamesFit, Testing, Types, CommandType
    <3>2. \A s \in command.only \cap Declared(command.config) : s \notin command.touched => dist[s] = ts[s]
      BY <3>1 DEF RunsInv, CompiledFits
    <3> QED BY <2>1, <2>3, <3>2 DEF RunsInv, CompiledFits, RunFits, ConfigFits,
               DeploymentMatches, DryRunIsFaithful, Declared
  <2> QED BY <2>2, <2>3, <1>22, DryRunDoes, CoreHolds
<1>23. ASSUME DryRunEnds
       PROVE  RunsInv'
  <2>1. Ended /\ UNCHANGED <<yaml, ts, dist>>
    BY <1>23, DryRunEndsDoes, CoreHolds
  <2> QED BY <2>1, RunsMove
<1>24. ASSUME NEW N \in SUBSET Flows, PackageIntegrationData(N)
       PROVE  RunsInv'
  <2>1. command.pc = "package" /\ UNCHANGED <<yaml, ts, dist>>
    BY <1>24, PackageIntegrationDataDoes, CoreHolds
  <2>2. CASE Ended
    BY <2>1, <2>2, RunsMove
  <2>3. CASE /\ command'.pc = "confirm" /\ command'.name = command.name
             /\ command'.compiled = command.compiled /\ command'.touched = command.touched
             /\ command'.config = command.config /\ command'.named = N
             /\ command'.changed = command.changed /\ command'.body = yaml
             /\ Packaged(command.config, N)
    <3>1. command.name \in Testing
      BY <2>1, CoreHolds DEF NamesFit, Testing
    <3>2. \A s \in Scripts : s \in command.compiled \ command.touched => dist[s] = ts[s] /\ ts[s] # NoFile
      BY <3>1 DEF RunsInv, CompiledFits
    <3>3. ~command.changed => command.config = yaml
      BY <2>1 DEF RunsInv, ConfigFits
    <3>4. Chosen(command.config, N) \subseteq Scripts
      BY DEF Chosen, Declared
    <3>5. DeploymentMatches'
      <4>1. \A s \in Chosen(command.config, N) : s \in command.compiled \ command.touched =>
               command'.sent[s].js = ts'[s] /\ command'.sent[s].ts = ts'[s]
        BY <2>1, <2>3, <3>2, <3>4 DEF Packaged
      <4>2. \A s \in Scripts \ Chosen(command.config, N) : command'.sent[s] = Nothing[s]
        BY <2>3 DEF Packaged
      <4> QED BY <2>1, <2>3, <3>3, <4>1, <4>2 DEF DeploymentMatches, Chosen, Declared
    <3>6. CompiledFits' /\ RunFits' /\ ConfigFits' /\ DryRunIsFaithful'
      BY <2>1, <2>3, <3>3 DEF RunsInv, CompiledFits, RunFits, ConfigFits, DryRunIsFaithful
    <3> QED BY <3>5, <3>6 DEF RunsInv
  <2> QED BY <2>2, <2>3, <1>24, PackageIntegrationDataDoes, CoreHolds
<1>25. ASSUME Confirm
       PROVE  RunsInv'
  <2>1. command.pc = "confirm" /\ UNCHANGED <<yaml, ts, dist>>
    BY <1>25, ConfirmDoes, CoreHolds
  <2>2. CASE Ended
    BY <2>1, <2>2, RunsMove
  <2>3. CASE /\ command'.pc = "send" /\ command'.name = command.name
             /\ command'.compiled = command.compiled /\ command'.touched = command.touched
             /\ command'.config = command.config /\ command'.named = command.named
             /\ command'.changed = command.changed /\ command'.sent = command.sent
             /\ command'.body \in {command.body, yaml}
    <3>1. ~command.changed => command.config = yaml /\ command.body = yaml
      BY <2>1 DEF RunsInv, ConfigFits, DeploymentMatches
    <3>2. DeploymentMatches'
      BY <2>1, <2>3, <3>1 DEF RunsInv, DeploymentMatches, Chosen, Declared
    <3>3. CompiledFits' /\ RunFits' /\ ConfigFits' /\ DryRunIsFaithful'
      BY <2>1, <2>3 DEF RunsInv, CompiledFits, RunFits, ConfigFits, DryRunIsFaithful
    <3> QED BY <3>2, <3>3 DEF RunsInv
  <2> QED BY <2>2, <2>3, <1>25, ConfirmDoes, CoreHolds
<1>26. ASSUME DeploySyncs
       PROVE  RunsInv'
  <2>1. Ended /\ UNCHANGED <<yaml, ts, dist>>
    BY <1>26, DeploySyncsDoes, CoreHolds
  <2> QED BY <2>1, RunsMove
<1> QED BY <1>1, <1>2, <1>3, <1>4, <1>5, <1>6, <1>7, <1>8, <1>9, <1>10, <1>11, <1>12, <1>13,
           <1>14, <1>15, <1>16, <1>17, <1>18, <1>19, <1>20, <1>21, <1>22, <1>23, <1>24, <1>25,
           <1>26 DEF FilesNext, Developer, Dev, Command

(***************************************************************************)
(* The theorems.                                                           *)
(***************************************************************************)

FilesInv ==
    /\ CoreInv
    /\ EventsFit /\ Waiting /\ DistFits
    /\ ModelsInv
    /\ RunsInv

LEMMA InitFiles ==
    ASSUME FilesInit
    PROVE  FilesInv
<1>1. CoreInv /\ edits = 0 /\ dev.pc = "off" /\ command.pc = "idle" /\ command.name = None
      /\ doubts = {} /\ ~models.written
  BY InitCore
<1>2. EventsFit /\ Waiting /\ DistFits
  BY <1>1 DEF EventsFit, Waiting, DistFits, Running
<1>3. ModelsInv
  BY <1>1 DEF ModelsInv, Beside, Twice, ModelsFit
<1>4. RunsInv
  BY <1>1 DEF RunsInv, CompiledFits, RunFits, ConfigFits, DeploymentMatches, DryRunIsFaithful,
     Testing, None
<1> QED BY <1>1, <1>2, <1>3, <1>4 DEF FilesInv

LEMMA StepFiles ==
    ASSUME FilesInv, [FilesNext]_filesVars
    PROVE  FilesInv'
<1>1. CoreInv /\ EventsFit /\ Waiting /\ DistFits /\ ModelsInv /\ RunsInv
  BY DEF FilesInv
<1>2. CoreInv'
  BY <1>1, StepCore
<1>3. CASE FilesNext
  <2>1. EventsFit' /\ Waiting' /\ DistFits'
    BY <1>1, <1>3, StepEventsFit, StepWaiting, StepDistFits
  <2>2. ModelsInv' /\ RunsInv'
    BY <1>1, <1>3, StepModels, StepRuns
  <2> QED BY <1>2, <2>1, <2>2 DEF FilesInv
<1>4. CASE UNCHANGED filesVars
  <2>1. UNCHANGED <<yaml, ts, models, dist, dev, events, changes, command, edits, commands, starts, doubts>>
    BY <1>4 DEF filesVars, files, watched, bounds
  <2>2. EventsFit' /\ Waiting'
    BY <1>1, <2>1 DEF EventsFit, Waiting, Running
  <2>3. DistFits'
    BY <1>1, <2>1, DistStays
  <2>4. ModelsInv'
    BY <1>1, <2>1, ModelsStay
  <2>5. RunsInv'
    BY <1>1, <2>1, RunsStay
  <2> QED BY <1>2, <2>2, <2>3, <2>4, <2>5 DEF FilesInv
<1> QED BY <1>3, <1>4

\* In a quiet moment, the invariant says what dev promises.
LEMMA FilesKeepUp ==
    ASSUME FilesInv
    PROVE  DevKeepsUp
<1>1. CoreInv /\ DistFits /\ ModelsInv
  BY DEF FilesInv
<1>2. DistIsCurrent
  BY <1>1 DEF DistIsCurrent, DevQuiet, Watching, Running, DistFits
<1>3. ASSUME DevQuiet, doubts \subseteq {"interfaces"}
      PROVE  models.of = yaml /\ models.flows = 1 /\ models.interface = Defined(yaml)
  <2>1. dev.pc = "watching" /\ command.pc = "idle" /\ changes.config = 0
    BY <1>3 DEF DevQuiet, Watching
  <2>2. models.written /\ models \in ModelsType
    BY <1>1, <2>1, CoreHolds DEF Written, Types
  <2>3. doubts \cap Stale = {}
    BY <1>3 DEF Stale
  <2>4. ~(dev.pc = "flows" \/ Appending)
    BY <2>1 DEF Appending
  <2>5. (models.interface <=> Defined(yaml)) /\ models.of = yaml /\ models.flows = 1
    BY <1>1, <2>1, <2>2, <2>3, <2>4 DEF ModelsInv, ModelsFit
  <2>6. models.interface \in BOOLEAN /\ Defined(yaml) \in BOOLEAN
    BY <2>2 DEF ModelsType, Defined
  <2> QED BY <2>5, <2>6
<1> QED BY <1>2, <1>3 DEF DevKeepsUp, ModelsAgree

\* The files, the watchers and the command keep their types, and nothing that the checks
\* refuse is ever in dist.
THEOREM FilesTyping == FilesSpec => []FilesTypeOK
<1>1. FilesInit => CoreInv
  BY InitCore
<1>2. CoreInv /\ [FilesNext]_filesVars => CoreInv'
  BY StepCore
<1>3. CoreInv => FilesTypeOK
  BY CoreTypes
<1> QED BY <1>1, <1>2, <1>3, PTL DEF FilesSpec

\* Once dev has handled what was edited, every script that compiles is compiled as it is
\* written, unless the interfaces changed since; models.ts is made of nango.yaml, unless this
\* names no models, was refused, was not watched or was scaffolded, or two wrote side by side.
THEOREM KeepsUp == FilesSpec => []DevKeepsUp
<1>1. FilesInit => FilesInv
  BY InitFiles
<1>2. FilesInv /\ [FilesNext]_filesVars => FilesInv'
  BY StepFiles
<1>3. FilesInv => DevKeepsUp
  BY FilesKeepUp
<1> QED BY <1>1, <1>2, <1>3, PTL DEF FilesSpec

\* Of the flows a deployment is to send (those named, without the syncs that have no runs),
\* every script that compiled is sent as it is written, and a dry run runs it so, unless it was
\* touched meanwhile; nothing else is sent; and nango.yaml is sent as the flows were chosen by,
\* unless it was saved in between.
THEOREM RunsFaithfully == FilesSpec => []RunsWhatIsWritten
<1>1. FilesInit => FilesInv
  BY InitFiles
<1>2. FilesInv /\ [FilesNext]_filesVars => FilesInv'
  BY StepFiles
<1>3. FilesInv => RunsWhatIsWritten
  BY DEF FilesInv, RunsInv, RunsWhatIsWritten
<1> QED BY <1>1, <1>2, <1>3, PTL DEF FilesSpec
=============================================================================
