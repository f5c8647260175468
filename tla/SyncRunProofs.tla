--------------------------- MODULE SyncRunProofs ----------------------------
(***************************************************************************)
(* Theorems about SyncRun, for any number of runs, of changes at the       *)
(* provider and of mishaps: type correctness, the accounting of changes by *)
(* the last sync date, and the fate of a date set by the script.           *)
(*                                                                         *)
(* After them, theorems about Environments, for any servers, encryption keys *)
(* and requests and any number of starts and stops.  The two components share *)
(* no name: each theorem is about the one whose specification it names.    *)
(***************************************************************************)
EXTENDS SyncRun, Environments, TLAPS

USE DEF Runs, Initial, NoDate

LEMMA RangeIsNat ==
  ASSUME NEW a \in Nat, NEW b \in Nat
  PROVE  (a + 1 .. b) \subseteq Nat
OBVIOUS

(***************************************************************************)
(* Type correctness.                                                       *)
(***************************************************************************)

LEMMA InitTypeOK == Init => TypeOK
<1> SUFFICES ASSUME Init PROVE TypeOK
  OBVIOUS
<1> USE DEF Init
<1>1. job \in [Runs -> Statuses] /\ pc \in [Runs -> Locations] /\ open \in [Runs -> BOOLEAN]
  <2> PICK autoStart \in BOOLEAN :
         /\ job = [r \in Runs |-> IF r # Initial THEN "NONE"
                                  ELSE IF autoStart THEN "RUNNING" ELSE "PAUSED"]
         /\ pc = [r \in Runs |-> IF r # Initial THEN "idle"
                                 ELSE IF autoStart THEN "prepare" ELSE "paused"]
         /\ open = [r \in Runs |-> r = Initial /\ autoStart]
    OBVIOUS
  <2> QED
    BY DEF Statuses, Locations
<1> QED
  BY <1>1 DEF TypeOK

LEMMA WorkerTypeOK ==
  ASSUME TypeOK, NEW r \in Runs, WorkerStep(r)
  PROVE  TypeOK'
<1> USE DEF TypeOK, Locations, Goto, EndsAs, sharedVars, jobVars, runVars, dataVars
<1>1. CASE Prepare(r)
  BY <1>1 DEF Prepare
<1>2. CASE PrepareFails(r)
  BY <1>2 DEF PrepareFails
<1>3. CASE ReadDate(r)
  BY <1>3 DEF ReadDate
<1>4. CASE ReadBackupDate(r)
  BY <1>4 DEF ReadBackupDate
<1>5. CASE ClearDate(r)
  BY <1>5 DEF ClearDate, ClearLastSyncDate, SetLastSyncDate
<1>6. CASE StartScript(r)
  BY <1>6 DEF StartScript
<1>7. CASE ScriptSaves(r)
  <2> PICK upto \in fetched[r] + 1 .. now :
         /\ delivered' = delivered \union (fetched[r] + 1 .. upto)
         /\ fetched' = [fetched EXCEPT ![r] = upto]
    BY <1>7 DEF ScriptSaves
  <2>1. upto \in Nat /\ fetched[r] \in Nat
    OBVIOUS
  <2>2. delivered' \subseteq Nat
    BY <2>1, RangeIsNat
  <2> QED
    BY <1>7, <2>1, <2>2 DEF ScriptSaves
<1>8. CASE ScriptReturnsVoid(r)
  BY <1>8 DEF ScriptReturnsVoid
<1>9. CASE ScriptFails(r)
  BY <1>9 DEF ScriptFails, Mishap, Mishaps
<1>10. CASE ScriptReturnsRecords(r)
  BY <1>10 DEF ScriptReturnsRecords
<1>11. CASE UpsertResults(r)
  <2>1. fetched[r] \in Nat /\ start[r] \in Nat
    OBVIOUS
  <2>2. delivered' \subseteq Nat
    BY <1>11, <2>1, RangeIsNat DEF UpsertResults
  <2>3. fetched' \in [Runs -> Nat]
    BY <1>11, <2>1 DEF UpsertResults
  <2> QED
    BY <1>11, <2>2, <2>3 DEF UpsertResults
<1>12. CASE UpsertFails(r)
  BY <1>12 DEF UpsertFails, Mishap, Mishaps
<1>13. CASE MarkSuccess(r)
  BY <1>13 DEF MarkSuccess, UpdateSyncJobStatus, Statuses
<1>14. CASE CheckDate(r)
  BY <1>14 DEF CheckDate
<1>15. CASE WriteDate(r)
  BY <1>15 DEF WriteDate, SetLastSyncDate
<1>16. CASE FinishResults(r)
  BY <1>16 DEF FinishResults
<1>17. CASE FinishWithoutJob(r)
  BY <1>17 DEF FinishWithoutJob
<1>18. CASE LastModelMissing(r)
  BY <1>18 DEF LastModelMissing, Mishap, Mishaps
<1>19. CASE RestoreCheck(r)
  BY <1>19 DEF RestoreCheck
<1>20. CASE RestoreWrite(r)
  BY <1>20 DEF RestoreWrite, SetLastSyncDate
<1>21. CASE ReportFailure(r)
  BY <1>21 DEF ReportFailure, UpdateSyncJobStatus, Statuses
<1> QED
  BY <1>1, <1>2, <1>3, <1>4, <1>5, <1>6, <1>7, <1>8, <1>9, <1>10, <1>11, <1>12, <1>13, <1>14,
     <1>15, <1>16, <1>17, <1>18, <1>19, <1>20, <1>21 DEF WorkerStep

LEMMA NextTypeOK == TypeOK /\ [Next]_vars => TypeOK'
<1> SUFFICES ASSUME TypeOK, [Next]_vars PROVE TypeOK'
  OBVIOUS
<1> USE DEF TypeOK, sharedVars, jobVars, runVars, dataVars
<1>1. CASE Change
  BY <1>1 DEF Change
<1>2. ASSUME NEW r \in Runs, NEW inserted \in BOOLEAN, ScheduleAndRouteSync(r, inserted)
      PROVE  TypeOK'
  BY <1>2 DEF ScheduleAndRouteSync, Goto, Mishap, Mishaps, Locations, Statuses
<1>3. ASSUME NEW r \in Runs, WorkerStep(r) PROVE TypeOK'
  BY <1>3, WorkerTypeOK
<1>4. ASSUME NEW r \in Runs, Throws(r) PROVE TypeOK'
  BY <1>4 DEF Throws, UpdateSyncJobStatus, Statuses, Mishap, Mishaps, Locations
<1>5. ASSUME NEW r \in Runs, Aborts(r) PROVE TypeOK'
  BY <1>5 DEF Aborts, EndsAs, Goto, Mishap, Mishaps, Locations
<1>6. ASSUME NEW r \in Runs, Crash(r) PROVE TypeOK'
  BY <1>6 DEF Crash, Mishap, Mishaps, Locations
<1>7. ASSUME NEW r \in Runs, Timeout(r) PROVE TypeOK'
  BY <1>7 DEF Timeout, Mishap, Mishaps
<1>8. ASSUME NEW r \in Runs, NEW d \in UserDates, ScriptSetsDate(r, d) PROVE TypeOK'
  BY <1>8, DatesAssumption DEF ScriptSetsDate, SetLastSyncDate
<1>9. CASE UNCHANGED vars
  BY <1>9 DEF vars
<1> QED
  BY <1>1, <1>2, <1>3, <1>4, <1>5, <1>6, <1>7, <1>8, <1>9 DEF Next, Fires, Mishappens

\* Every variable keeps its type, whatever the runs, the script and the clock do.
THEOREM TypeCorrect == Spec => []TypeOK
<1>1. Init => TypeOK
  BY InitTypeOK
<1>2. TypeOK /\ [Next]_vars => TypeOK'
  BY NextTypeOK
<1> QED
  BY <1>1, <1>2, PTL DEF Spec

(***************************************************************************)
(* CursorAccounted.  By itself it is not inductive: the date that a run    *)
(* will write is in its own variables until it does.  The invariant says   *)
(* that every date that may ever reach the column or the backup accounts   *)
(* for the changes up to it: the column, the cursor of each run, how far   *)
(* its script has saved, and the end of each successful job.               *)
(***************************************************************************)

\* The run was not marked SUCCESS yet.
Unmarked == {"idle", "paused", "prepare", "read", "backup", "clear", "start", "script",
             "upsert", "finish"}

\* The script has saved all there was when it started.
Fetched == {"finish", "check", "write"}

RunAccounted(r) ==
    /\ Accounted(cursor[r])
    /\ Accounted(fetched[r])
    /\ job[r] = "SUCCESS" => Accounted(updated[r])
    /\ pc[r] \in Unmarked => ended[r] = 0
    /\ pc[r] \in Fetched => start[r] <= fetched[r]

DatesAccounted ==
    /\ Accounted(lastDate)
    /\ \A r \in Runs : RunAccounted(r)

\* What accounts for a change never goes away: saved changes stay saved, and the
\* window of a run opens only once and is never moved after that.
Grows ==
    /\ delivered \subseteq delivered'
    /\ asked \subseteq asked'
    /\ \A r \in Runs : ended[r] = 0 \/ (start'[r] = start[r] /\ ended'[r] = ended[r])

LEMMA AccountedGrows ==
  ASSUME TypeOK, Grows, NEW d \in Nat, Accounted(d)
  PROVE  Accounted(d)'
<1> SUFFICES ASSUME NEW t \in 1..d PROVE (t \in delivered \/ Waived(t) \/ InRunWindow(t))'
  BY DEF Accounted
<1>1. CASE t \in delivered
  BY <1>1 DEF Grows
<1>2. CASE Waived(t)
  BY <1>2 DEF Grows, Waived
<1>3. CASE InRunWindow(t)
  <2>1. PICK r \in Runs : start[r] < t /\ t <= ended[r]
    BY <1>3 DEF InRunWindow
  <2>2. ended[r] # 0
    BY <2>1 DEF TypeOK
  <2> QED
    BY <2>1, <2>2 DEF Grows, InRunWindow
<1> QED
  BY <1>1, <1>2, <1>3 DEF Accounted

LEMMA AccountedBelow ==
  ASSUME NEW d \in Nat, NEW e \in Nat, e <= d, Accounted(d)
  PROVE  Accounted(e)
BY DEF Accounted

\* A step that leaves the dates of the runs alone.
LEMMA AccountingKept ==
  ASSUME TypeOK, DatesAccounted, Grows, Accounted(lastDate)',
         UNCHANGED <<cursor, start, fetched, ended>>,
         \A r \in Runs : job'[r] = "SUCCESS" => job[r] = "SUCCESS" /\ updated'[r] = updated[r],
         \A r \in Runs : pc'[r] \in Unmarked => pc[r] \in Unmarked,
         \A r \in Runs : pc'[r] \in Fetched => pc[r] \in Fetched \/ start[r] <= fetched[r]
  PROVE  DatesAccounted'
<1> SUFFICES ASSUME NEW r \in Runs PROVE RunAccounted(r)'
  BY DEF DatesAccounted
<1>1. RunAccounted(r) /\ cursor[r] \in Nat /\ fetched[r] \in Nat /\ updated[r] \in Nat
  BY DEF DatesAccounted, TypeOK
<1>2. Accounted(cursor[r])' /\ Accounted(fetched[r])'
  BY <1>1, AccountedGrows DEF RunAccounted, Accounted, Waived, InRunWindow
<1>3. (job[r] = "SUCCESS" => Accounted(updated[r]))'
  BY <1>1, AccountedGrows DEF RunAccounted, Accounted, Waived, InRunWindow
<1> QED
  BY <1>1, <1>2, <1>3 DEF RunAccounted

\* A step of the script, or one that reads the date, moves one of them only.
LEMMA OtherDatesKept ==
  ASSUME TypeOK, DatesAccounted, Grows, Accounted(lastDate)',
         UNCHANGED <<start, fetched, ended, job, updated>>,
         \A r \in Runs : Accounted(cursor[r])',
         \A r \in Runs : pc'[r] \in Unmarked => pc[r] \in Unmarked,
         \A r \in Runs : pc'[r] \in Fetched => pc[r] \in Fetched
  PROVE  DatesAccounted'
<1> SUFFICES ASSUME NEW r \in Runs PROVE RunAccounted(r)'
  BY DEF DatesAccounted
<1>1. RunAccounted(r) /\ fetched[r] \in Nat /\ updated[r] \in Nat
  BY DEF DatesAccounted, TypeOK
<1> QED
  BY <1>1, AccountedGrows DEF RunAccounted, Accounted, Waived, InRunWindow

LEMMA ScriptAccounted ==
  ASSUME TypeOK, DatesAccounted, Grows, Accounted(lastDate)',
         UNCHANGED <<cursor, ended, job, updated>>,
         \A r \in Runs : Accounted(fetched[r])',
         \A r \in Runs : pc'[r] \in Unmarked => pc[r] \in Unmarked,
         \A r \in Runs : pc'[r] \in Fetched => start'[r] <= fetched'[r]
  PROVE  DatesAccounted'
<1> SUFFICES ASSUME NEW r \in Runs PROVE RunAccounted(r)'
  BY DEF DatesAccounted
<1>1. RunAccounted(r) /\ cursor[r] \in Nat /\ updated[r] \in Nat
  BY DEF DatesAccounted, TypeOK
<1> QED
  BY <1>1, AccountedGrows DEF RunAccounted, Accounted, Waived, InRunWindow

\* The backup is the end of a successful job.
LEMMA BackupAccounted ==
  ASSUME TypeOK, DatesAccounted, NEW d \in Nat, IsJobLastSyncDate(d)
  PROVE  Accounted(d)
BY DEF IsJobLastSyncDate, DatesAccounted, RunAccounted, Accounted

\* Saving the next changes in order extends what is accounted for.
LEMMA SavedAccounted ==
  ASSUME TypeOK, Grows, NEW d \in Nat, NEW e \in Nat, Accounted(d),
         (d + 1 .. e) \subseteq delivered'
  PROVE  Accounted(e)'
<1> SUFFICES ASSUME NEW t \in 1..e PROVE (t \in delivered \/ Waived(t) \/ InRunWindow(t))'
  BY DEF Accounted
<1>1. CASE t \in 1..d
  BY <1>1, AccountedGrows DEF Accounted
<1>2. CASE t \notin 1..d
  BY <1>2
<1> QED
  BY <1>1, <1>2

LEMMA InitAccounted == Init => DatesAccounted
BY DEF Init, DatesAccounted, RunAccounted, Accounted, Fetched

LEMMA WorkerAccounted ==
  ASSUME TypeOK, DatesAccounted, NEW r \in Runs, WorkerStep(r)
  PROVE  DatesAccounted'
<1> USE DEF Goto, EndsAs, sharedVars, jobVars, runVars, dataVars, Unmarked, Fetched
<1> lastDate \in Nat /\ now \in Nat /\ Accounted(lastDate)
  BY DEF TypeOK, DatesAccounted
<1> \A q \in Runs : /\ RunAccounted(q)
                    /\ cursor[q] \in Nat /\ fetched[q] \in Nat /\ start[q] \in Nat
                    /\ updated[q] \in Nat /\ ended[q] \in Nat
  BY DEF TypeOK, DatesAccounted
<1> pc \in [Runs -> Locations] /\ job \in [Runs -> Statuses] /\ ended \in [Runs -> Nat]
      /\ updated \in [Runs -> Nat] /\ cursor \in [Runs -> Nat]
      /\ fetched \in [Runs -> Nat] /\ start \in [Runs -> Nat]
  BY DEF TypeOK
<1>1. CASE Prepare(r)
  BY <1>1, AccountingKept, AccountedGrows DEF Prepare, Grows
<1>2. CASE PrepareFails(r)
  BY <1>2, AccountingKept, AccountedGrows DEF PrepareFails, Grows
<1>3. CASE ReadDate(r)
  <2>1. Grows /\ Accounted(lastDate)'
    BY <1>3, AccountedGrows DEF ReadDate, Grows
  <2>2. ASSUME NEW q \in Runs PROVE Accounted(cursor[q])'
    <3>1. cursor'[q] = cursor[q] \/ cursor'[q] = lastDate
      BY <1>3 DEF ReadDate
    <3> QED
      BY <2>1, <3>1, AccountedGrows DEF RunAccounted, Accounted, Waived, InRunWindow
  <2> QED
    BY <1>3, <2>1, <2>2, OtherDatesKept DEF ReadDate
<1>4. CASE ReadBackupDate(r)
  <2>1. Grows /\ Accounted(lastDate)'
    BY <1>4, AccountedGrows DEF ReadBackupDate, Grows
  <2>2. PICK d \in 0..now : IsJobLastSyncDate(d) /\ cursor' = [cursor EXCEPT ![r] = d]
    BY <1>4 DEF ReadBackupDate
  <2>3. d \in Nat /\ Accounted(d)
    BY <2>2, BackupAccounted
  <2>4. ASSUME NEW q \in Runs PROVE Accounted(cursor[q])'
    <3>1. cursor'[q] = cursor[q] \/ cursor'[q] = d
      BY <2>2
    <3> QED
      BY <2>1, <2>3, <3>1, AccountedGrows DEF RunAccounted, Accounted, Waived, InRunWindow
  <2> QED
    BY <1>4, <2>1, <2>4, OtherDatesKept DEF ReadBackupDate
<1>5. CASE ClearDate(r)
  <2>1. Accounted(lastDate)'
    BY <1>5 DEF ClearDate, ClearLastSyncDate, SetLastSyncDate, Accounted
  <2> QED
    BY <1>5, <2>1, AccountingKept DEF ClearDate, Grows
<1>6. CASE StartScript(r)
  <2>1. ended[r] = 0
    BY <1>6 DEF RunAccounted, StartScript
  <2>2. Grows /\ Accounted(lastDate)'
    BY <1>6, <2>1, AccountedGrows DEF StartScript, Grows
  <2>3. ASSUME NEW q \in Runs PROVE Accounted(fetched[q])'
    <3>1. fetched'[q] = fetched[q] \/ fetched'[q] = cursor[q]
      BY <1>6 DEF StartScript
    <3> QED
      BY <2>2, <3>1, AccountedGrows DEF RunAccounted, Accounted, Waived, InRunWindow
  <2>4. \A q \in Runs : pc'[q] \in Fetched => start'[q] <= fetched'[q]
    BY <1>6 DEF StartScript, RunAccounted
  <2> QED
    BY <1>6, <2>2, <2>3, <2>4, ScriptAccounted DEF StartScript
<1>7. CASE ScriptSaves(r)
  <2>1. PICK upto \in fetched[r] + 1 .. now :
          /\ delivered' = delivered \union (fetched[r] + 1 .. upto)
          /\ fetched' = [fetched EXCEPT ![r] = upto]
    BY <1>7 DEF ScriptSaves
  <2>2. Grows /\ Accounted(lastDate)'
    BY <1>7, AccountedGrows DEF ScriptSaves, Grows
  <2>3. ASSUME NEW q \in Runs PROVE Accounted(fetched[q])'
    <3>1. CASE q = r
      <4>1. fetched'[q] = upto /\ upto \in Nat /\ (fetched[r] + 1 .. upto) \subseteq delivered'
        BY <2>1, <3>1
      <4>2. \A e \in Nat : (fetched[r] + 1 .. e) \subseteq delivered' => Accounted(e)'
        BY <2>2, SavedAccounted DEF RunAccounted
      <4> QED
        BY <4>1, <4>2 DEF Accounted, Waived, InRunWindow
    <3>2. CASE q # r
      <4>1. fetched'[q] = fetched[q]
        BY <2>1, <3>2
      <4> QED
        BY <4>1, <2>2, AccountedGrows DEF RunAccounted, Accounted, Waived, InRunWindow
    <3> QED
      BY <3>1, <3>2
  <2>4. \A q \in Runs : pc'[q] \in Fetched => start'[q] <= fetched'[q]
    BY <1>7, <2>1 DEF ScriptSaves, RunAccounted
  <2> QED
    BY <1>7, <2>2, <2>3, <2>4, ScriptAccounted DEF ScriptSaves
<1>8. CASE ScriptReturnsVoid(r)
  BY <1>8, AccountingKept, AccountedGrows DEF ScriptReturnsVoid, Grows
<1>9. CASE ScriptFails(r)
  BY <1>9, AccountingKept, AccountedGrows DEF ScriptFails, Grows
<1>10. CASE ScriptReturnsRecords(r)
  BY <1>10, AccountingKept, AccountedGrows DEF ScriptReturnsRecords, Grows
<1>11. CASE UpsertResults(r)
  <2>1. Grows /\ Accounted(lastDate)'
    BY <1>11, AccountedGrows DEF UpsertResults, Grows
  <2>2. ASSUME NEW q \in Runs PROVE Accounted(fetched[q])'
    <3>1. CASE q = r /\ fetched[r] < start[r]
      <4>1. fetched'[q] = start[r] /\ (fetched[r] + 1 .. start[r]) \subseteq delivered'
        BY <1>11, <3>1 DEF UpsertResults
      <4>2. \A e \in Nat : (fetched[r] + 1 .. e) \subseteq delivered' => Accounted(e)'
        BY <2>1, SavedAccounted DEF RunAccounted
      <4> QED
        BY <4>1, <4>2 DEF Accounted, Waived, InRunWindow
    <3>2. CASE q # r \/ ~(fetched[r] < start[r])
      <4>1. fetched'[q] = fetched[q]
        BY <1>11, <3>2 DEF UpsertResults
      <4> QED
        BY <4>1, <2>1, AccountedGrows DEF RunAccounted, Accounted, Waived, InRunWindow
    <3> QED
      BY <3>1, <3>2
  <2>3. \A q \in Runs : pc'[q] \in Fetched => start'[q] <= fetched'[q]
    BY SMTT(60), <1>11 DEF UpsertResults, RunAccounted
  <2> QED
    BY <1>11, <2>1, <2>2, <2>3, ScriptAccounted DEF UpsertResults
<1>12. CASE UpsertFails(r)
  BY <1>12, AccountingKept, AccountedGrows DEF UpsertFails, Grows
<1>13. CASE MarkSuccess(r)
  <2>1. ended[r] = 0 /\ start[r] <= fetched[r] /\ Accounted(fetched[r])
    BY <1>13 DEF MarkSuccess, RunAccounted
  <2>2. Grows /\ Accounted(lastDate)'
    BY <1>13, <2>1, AccountedGrows DEF MarkSuccess, UpdateSyncJobStatus, Grows
  <2>3. Accounted(now)'
    <3>1. ended'[r] = now /\ start'[r] = start[r] /\ now' = now
      BY <1>13 DEF MarkSuccess
    <3>2. Accounted(start[r])'
      BY <2>1, <2>2, <3>1, AccountedBelow, AccountedGrows
         DEF Accounted, Waived, InRunWindow
    <3>3. SUFFICES ASSUME NEW t \in 1..now
                   PROVE  (t \in delivered \/ Waived(t) \/ InRunWindow(t))'
      BY <3>1 DEF Accounted, Waived, InRunWindow
    <3>4. CASE t <= start[r]
      BY SMTT(60), <3>1, <3>2, <3>4 DEF Accounted, Waived, InRunWindow
    <3>5. CASE start[r] < t
      BY <3>1, <3>5 DEF InRunWindow
    <3> QED
      BY <3>4, <3>5
  <2>4. ASSUME NEW q \in Runs PROVE RunAccounted(q)'
    <3>1. Accounted(cursor[q])' /\ Accounted(fetched[q])'
      BY <1>13, <2>2, AccountedGrows
         DEF MarkSuccess, RunAccounted, Accounted, Waived, InRunWindow
    <3>2. (job[q] = "SUCCESS" => Accounted(updated[q]))'
      <4>1. q = r \/ (job'[q] = job[q] /\ updated'[q] = updated[q])
        BY <1>13 DEF MarkSuccess, UpdateSyncJobStatus
      <4>2. q = r => updated'[q] = now /\ now' = now
        BY <1>13 DEF MarkSuccess, UpdateSyncJobStatus
      <4>3. CASE q = r
        BY <2>3, <4>2, <4>3 DEF Accounted, Waived, InRunWindow
      <4>4. CASE q # r
        BY ZenonT(60), <2>2, <4>1, <4>4, AccountedGrows DEF RunAccounted, Accounted, Waived,
           InRunWindow
      <4> QED
        BY <4>3, <4>4
    <3>3. (pc[q] \in Unmarked => ended[q] = 0)' /\ (pc[q] \in Fetched => start[q] <= fetched[q])'
      BY <1>13 DEF MarkSuccess, RunAccounted
    <3> QED
      BY <3>1, <3>2, <3>3 DEF RunAccounted
  <2> QED
    BY <2>2, <2>4 DEF DatesAccounted
<1>14. CASE CheckDate(r)
  BY <1>14, AccountingKept, AccountedGrows DEF CheckDate, Grows
<1>15. CASE WriteDate(r)
  <2>1. Grows /\ lastDate' = start[r]
    BY <1>15 DEF WriteDate, SetLastSyncDate, Grows
  <2>2. Accounted(start[r])
    BY <1>15, AccountedBelow DEF WriteDate, RunAccounted
  <2>3. Accounted(lastDate)'
    BY <2>1, <2>2, AccountedGrows DEF Accounted, Waived, InRunWindow
  <2> QED
    BY <1>15, <2>1, <2>3, AccountingKept DEF WriteDate
<1>16. CASE FinishResults(r)
  BY <1>16, AccountingKept, AccountedGrows DEF FinishResults, Grows
<1>17. CASE FinishWithoutJob(r)
  BY <1>17, AccountingKept, AccountedGrows DEF FinishWithoutJob, Grows
<1>18. CASE LastModelMissing(r)
  BY <1>18, AccountingKept, AccountedGrows DEF LastModelMissing, Grows
<1>19. CASE RestoreCheck(r)
  BY <1>19, AccountingKept, AccountedGrows DEF RestoreCheck, Grows
<1>20. CASE RestoreWrite(r)
  <2>1. Grows /\ lastDate' = cursor[r]
    BY <1>20 DEF RestoreWrite, SetLastSyncDate, Grows
  <2>2. Accounted(lastDate)'
    BY <2>1, AccountedGrows DEF RunAccounted, Accounted, Waived, InRunWindow
  <2> QED
    BY <1>20, <2>1, <2>2, AccountingKept DEF RestoreWrite
<1>21. CASE ReportFailure(r)
  BY <1>21, AccountingKept, AccountedGrows DEF ReportFailure, UpdateSyncJobStatus, Grows
<1> QED
  BY <1>1, <1>2, <1>3, <1>4, <1>5, <1>6, <1>7, <1>8, <1>9, <1>10, <1>11, <1>12, <1>13, <1>14,
     <1>15, <1>16, <1>17, <1>18, <1>19, <1>20, <1>21 DEF WorkerStep

LEMMA NextAccounted == TypeOK /\ DatesAccounted /\ [Next]_vars => DatesAccounted'
<1> SUFFICES ASSUME TypeOK, DatesAccounted, [Next]_vars PROVE DatesAccounted'
  OBVIOUS
<1> USE DEF Goto, EndsAs, sharedVars, jobVars, runVars, dataVars, Unmarked, Fetched
<1> lastDate \in Nat /\ Accounted(lastDate) /\ pc \in [Runs -> Locations]
      /\ job \in [Runs -> Statuses]
  BY DEF TypeOK, DatesAccounted
<1>1. CASE Change
  BY <1>1, AccountingKept, AccountedGrows DEF Change, Grows
<1>2. ASSUME NEW r \in Runs, NEW inserted \in BOOLEAN, ScheduleAndRouteSync(r, inserted)
      PROVE  DatesAccounted'
  BY <1>2, AccountingKept, AccountedGrows DEF ScheduleAndRouteSync, Grows
<1>3. ASSUME NEW r \in Runs, WorkerStep(r) PROVE DatesAccounted'
  BY <1>3, WorkerAccounted
<1>4. ASSUME NEW r \in Runs, Throws(r) PROVE DatesAccounted'
  <2>1. \A q \in Runs : job'[q] = "SUCCESS" => job[q] = "SUCCESS" /\ updated'[q] = updated[q]
    BY <1>4 DEF Throws, UpdateSyncJobStatus, TypeOK
  <2>2. \A q \in Runs : /\ pc'[q] \in Unmarked => pc[q] \in Unmarked
                        /\ pc'[q] \in Fetched => pc[q] \in Fetched
    BY <1>4 DEF Throws
  <2> QED
    BY <1>4, <2>1, <2>2, AccountingKept, AccountedGrows DEF Throws, Grows
<1>5. ASSUME NEW r \in Runs, Aborts(r) PROVE DatesAccounted'
  BY <1>5, AccountingKept, AccountedGrows DEF Aborts, Grows
<1>6. ASSUME NEW r \in Runs, Crash(r) PROVE DatesAccounted'
  BY <1>6, AccountingKept, AccountedGrows DEF Crash, Grows
<1>7. ASSUME NEW r \in Runs, Timeout(r) PROVE DatesAccounted'
  BY <1>7, AccountingKept, AccountedGrows DEF Timeout, Grows
<1>8. ASSUME NEW r \in Runs, NEW d \in UserDates, ScriptSetsDate(r, d) PROVE DatesAccounted'
  <2>1. Grows /\ Accounted(lastDate)'
    BY <1>8 DEF ScriptSetsDate, SetLastSyncDate, Grows, Accounted, Waived
  <2> QED
    BY <1>8, <2>1, AccountingKept DEF ScriptSetsDate
<1>9. CASE UNCHANGED vars
  BY <1>9, AccountingKept, AccountedGrows DEF vars, Grows
<1> QED
  BY <1>1, <1>2, <1>3, <1>4, <1>5, <1>6, <1>7, <1>8, <1>9 DEF Next, Fires, Mishappens

\* run.service.ts:515 sets the last sync date to the start of the run so as not to
\* miss changes: whatever fails, crashes or overlaps, the column and the backup
\* never skip a change that no run saved and no script waived, save one made
\* within a run that was marked SUCCESS.
THEOREM CursorsAccounted == Spec => []CursorAccounted
<1>1. Init => TypeOK /\ DatesAccounted
  BY InitTypeOK, InitAccounted
<1>2. (TypeOK /\ DatesAccounted) /\ [Next]_vars => (TypeOK /\ DatesAccounted)'
  BY NextTypeOK, NextAccounted
<1>3. TypeOK /\ DatesAccounted => CursorAccounted
  BY DEF TypeOK, DatesAccounted, RunAccounted, CursorAccounted, IsLastSyncDate,
         IsJobLastSyncDate, Accounted
<1> QED
  BY <1>1, <1>2, <1>3, PTL DEF Spec

(***************************************************************************)
(* UserDateKept.  As long as no two runs have been in progress at once,    *)
(* what a run found in the column before it writes is still what is there. *)
(***************************************************************************)

Undisturbed ==
    /\ \A q, r \in Runs : InProgress(q) /\ InProgress(r) => q = r
    /\ \A r \in Runs : pc[r] \in {"backup", "write", "restoreWrite"} => lastDate = NoDate
    /\ \A r \in Runs : pc[r] = "clear" => lastDate \in {cursor[r], NoDate}

DateIsSetters == setter = "script" => lastDate # NoDate

Alone == DateIsSetters /\ (~overlap => Undisturbed)

LEMMA InitAlone == Init => Alone
BY DEF Init, Alone, Undisturbed, DateIsSetters, InProgress

\* A step of one run that leaves the column alone, and the cursor of a run that
\* is about to clear it.
LEMMA AloneKept ==
  ASSUME TypeOK, Alone, NEW r \in Runs, UNCHANGED <<lastDate, setter, overlap>>,
         \A q \in Runs \ {r} : pc'[q] = pc[q] /\ cursor'[q] = cursor[q],
         InProgress(r) \/ ~InProgress(r)',
         pc'[r] \in {"backup", "write", "restoreWrite"} => lastDate = NoDate,
         pc'[r] = "clear" => lastDate \in {cursor'[r], NoDate}
  PROVE  Alone'
BY DEF Alone, Undisturbed, DateIsSetters, InProgress

\* A step of a run in progress that writes the column.
LEMMA AloneWritten ==
  ASSUME TypeOK, Alone, NEW r \in Runs, InProgress(r), UNCHANGED overlap,
         \A q \in Runs \ {r} : pc'[q] = pc[q] /\ cursor'[q] = cursor[q],
         pc'[r] \notin {"backup", "write", "restoreWrite", "clear"},
         DateIsSetters'
  PROVE  Alone'
BY DEF Alone, Undisturbed, InProgress

LEMMA WorkerAlone ==
  ASSUME TypeOK, Alone, NEW r \in Runs, WorkerStep(r)
  PROVE  Alone'
<1> USE DEF Goto, EndsAs, sharedVars, jobVars, runVars, dataVars, InProgress
<1> pc \in [Runs -> Locations] /\ cursor \in [Runs -> Nat]
  BY DEF TypeOK
<1>1. CASE Prepare(r)
  BY <1>1, AloneKept DEF Prepare
<1>2. CASE PrepareFails(r)
  BY <1>2, AloneKept DEF PrepareFails
<1>3. CASE ReadDate(r)
  BY <1>3, AloneKept DEF ReadDate
<1>4. CASE ReadBackupDate(r)
  <2>1. \A q \in Runs \ {r} : pc'[q] = pc[q] /\ cursor'[q] = cursor[q]
    BY <1>4 DEF ReadBackupDate
  <2>2. DateIsSetters'
    BY <1>4 DEF ReadBackupDate, Alone, DateIsSetters
  <2>3. ~overlap => Undisturbed'
    <3> SUFFICES ASSUME ~overlap PROVE Undisturbed'
      OBVIOUS
    <3>1. lastDate = NoDate /\ lastDate' = lastDate /\ pc' = [pc EXCEPT ![r] = "clear"]
      BY <1>4 DEF ReadBackupDate, Alone, Undisturbed
    <3> QED
      BY <1>4, <2>1, <3>1 DEF ReadBackupDate, Alone, Undisturbed
  <2> QED
    BY <1>4, <2>2, <2>3 DEF ReadBackupDate, Alone
<1>5. CASE ClearDate(r)
  BY <1>5, AloneWritten DEF ClearDate, ClearLastSyncDate, SetLastSyncDate, DateIsSetters
<1>6. CASE StartScript(r)
  BY <1>6, AloneKept DEF StartScript
<1>7. CASE ScriptSaves(r)
  BY <1>7, AloneKept DEF ScriptSaves
<1>8. CASE ScriptReturnsVoid(r)
  BY <1>8, AloneKept DEF ScriptReturnsVoid
<1>9. CASE ScriptFails(r)
  BY <1>9, AloneKept DEF ScriptFails
<1>10. CASE ScriptReturnsRecords(r)
  BY <1>10, AloneKept DEF ScriptReturnsRecords
<1>11. CASE UpsertResults(r)
  BY <1>11, AloneKept DEF UpsertResults
<1>12. CASE UpsertFails(r)
  BY <1>12, AloneKept DEF UpsertFails
<1>13. CASE MarkSuccess(r)
  BY <1>13, AloneKept DEF MarkSuccess
<1>14. CASE CheckDate(r)
  BY <1>14, AloneKept DEF CheckDate
<1>15. CASE WriteDate(r)
  BY <1>15, AloneWritten DEF WriteDate, SetLastSyncDate, DateIsSetters
<1>16. CASE FinishResults(r)
  BY <1>16, AloneKept DEF FinishResults
<1>17. CASE FinishWithoutJob(r)
  BY <1>17, AloneKept DEF FinishWithoutJob
<1>18. CASE LastModelMissing(r)
  BY <1>18, AloneKept DEF LastModelMissing
<1>19. CASE RestoreCheck(r)
  BY <1>19, AloneKept DEF RestoreCheck
<1>20. CASE RestoreWrite(r)
  BY <1>20, AloneWritten DEF RestoreWrite, SetLastSyncDate, DateIsSetters
<1>21. CASE ReportFailure(r)
  BY <1>21, AloneKept DEF ReportFailure
<1> QED
  BY <1>1, <1>2, <1>3, <1>4, <1>5, <1>6, <1>7, <1>8, <1>9, <1>10, <1>11, <1>12, <1>13, <1>14,
     <1>15, <1>16, <1>17, <1>18, <1>19, <1>20, <1>21 DEF WorkerStep

LEMMA NextAlone == TypeOK /\ Alone /\ [Next]_vars => Alone'
<1> SUFFICES ASSUME TypeOK, Alone, [Next]_vars PROVE Alone'
  OBVIOUS
<1> USE DEF Goto, EndsAs, sharedVars, jobVars, runVars, dataVars, InProgress
<1> pc \in [Runs -> Locations] /\ cursor \in [Runs -> Nat]
  BY DEF TypeOK
<1>1. CASE Change
  BY <1>1 DEF Change, Alone, Undisturbed, DateIsSetters
<1>2. ASSUME NEW r \in Runs, NEW inserted \in BOOLEAN, ScheduleAndRouteSync(r, inserted)
      PROVE  Alone'
  BY <1>2 DEF ScheduleAndRouteSync, Alone, Undisturbed, DateIsSetters
<1>3. ASSUME NEW r \in Runs, WorkerStep(r) PROVE Alone'
  BY <1>3, WorkerAlone
<1>4. ASSUME NEW r \in Runs, Throws(r) PROVE Alone'
  BY <1>4, AloneKept DEF Throws
<1>5. ASSUME NEW r \in Runs, Aborts(r) PROVE Alone'
  BY <1>5, AloneKept DEF Aborts
<1>6. ASSUME NEW r \in Runs, Crash(r) PROVE Alone'
  BY <1>6, AloneKept DEF Crash
<1>7. ASSUME NEW r \in Runs, Timeout(r) PROVE Alone'
  BY <1>7 DEF Timeout, Alone, Undisturbed, DateIsSetters
<1>8. ASSUME NEW r \in Runs, NEW d \in UserDates, ScriptSetsDate(r, d) PROVE Alone'
  BY <1>8, DatesAssumption, AloneWritten DEF ScriptSetsDate, SetLastSyncDate, DateIsSetters
<1>9. CASE UNCHANGED vars
  BY <1>9 DEF vars, Alone, Undisturbed, DateIsSetters
<1> QED
  BY <1>1, <1>2, <1>3, <1>4, <1>5, <1>6, <1>7, <1>8, <1>9 DEF Next, Fires, Mishappens

\* Who may take the place of a date the script set: only the run that starts from it.
UserDateStep ==
    (setter = "script" /\ ~overlap /\ setter' # "script") =>
        \E r \in Runs : pc[r] = "clear" /\ pc'[r] = "start" /\ cursor[r] = lastDate

LEMMA NextKeepsUserDate == TypeOK /\ Alone /\ [Next]_vars => [UserDateStep]_vars
<1> SUFFICES ASSUME TypeOK, Alone, [Next]_vars,
                    setter = "script", ~overlap, setter' # "script"
             PROVE  \E r \in Runs : pc[r] = "clear" /\ pc'[r] = "start" /\ cursor[r] = lastDate
  BY DEF UserDateStep
<1> USE DEF Goto, EndsAs, sharedVars, jobVars, runVars, dataVars
<1>1. lastDate # NoDate /\ Undisturbed
  BY DEF Alone, DateIsSetters
<1>2. ASSUME NEW r \in Runs, ClearDate(r)
      PROVE  pc[r] = "clear" /\ pc'[r] = "start" /\ cursor[r] = lastDate
  BY <1>1, <1>2 DEF ClearDate, Undisturbed, TypeOK
<1>3. ASSUME NEW r \in Runs, WriteDate(r) \/ RestoreWrite(r) PROVE FALSE
  BY <1>1, <1>3 DEF WriteDate, RestoreWrite, Undisturbed
<1>4. ASSUME NEW r \in Runs, WorkerStep(r), ~ClearDate(r), ~WriteDate(r), ~RestoreWrite(r)
      PROVE  FALSE
  BY <1>4 DEF WorkerStep, Prepare, PrepareFails, ReadDate, ReadBackupDate, StartScript,
              ScriptSaves, ScriptReturnsVoid, ScriptFails, ScriptReturnsRecords, UpsertResults,
              UpsertFails, MarkSuccess, CheckDate, FinishResults, FinishWithoutJob,
              LastModelMissing, RestoreCheck, ReportFailure
<1>5. ASSUME NEW r \in Runs, Mishappens(r) PROVE FALSE
  BY <1>5 DEF Mishappens, Throws, Aborts, Crash, Timeout
<1>6. ASSUME NEW r \in Runs, NEW d \in UserDates, ScriptSetsDate(r, d) PROVE FALSE
  BY <1>6 DEF ScriptSetsDate, SetLastSyncDate
<1>7. ~Change /\ ~Fires /\ ~UNCHANGED vars
  BY DEF Change, Fires, ScheduleAndRouteSync, vars
<1> QED
  BY <1>2, <1>3, <1>4, <1>5, <1>6, <1>7 DEF Next

\* Comment at run.service.ts:518: if the date "was set by the user in the integration
\* script, then don't override it".  It stays until a run reads and clears it.
THEOREM UserDatesKept == Spec => UserDateKept
<1>1. Init => TypeOK /\ Alone
  BY InitTypeOK, InitAlone
<1>2. (TypeOK /\ Alone) /\ [Next]_vars => (TypeOK /\ Alone)'
  BY NextTypeOK, NextAlone
<1>3. TypeOK /\ Alone /\ [Next]_vars => [UserDateStep]_vars
  BY NextKeepsUserDate
<1> QED
  BY <1>1, <1>2, <1>3, PTL DEF Spec, UserDateKept, UserDateStep

(***************************************************************************)
(* NoMissedChangeInOrder.  Without the windows of successful runs, the     *)
(* backup accounts for nothing: the updated_at of a job may lie after      *)
(* changes that its run never saw.  What saves it is that, as long as      *)
(* runs come one by one and fail in no other way than by an exception      *)
(* that run catches, the date is kept: a job that succeeded leaves one in  *)
(* the column, the run that clears it holds it and puts it back.  So no    *)
(* run resorts to the backup once a job has succeeded.                     *)
(***************************************************************************)

InOrder == ~overlap /\ mishaps \subseteq {"throw"}

OtherSuccess(r) == \E q \in Runs \ {r} : job[q] = "SUCCESS"

\* Where the date of an earlier success is while a run is in progress.
KeepsDate(r) ==
    /\ job[r] # "NONE" /\ pc[r] # "failed"
    /\ pc[r] \in Unmarked => job[r] # "SUCCESS"
    /\ pc[r] \in {"prepare", "read", "report"} /\ OtherSuccess(r) => lastDate # NoDate
    /\ pc[r] = "backup" => ~OtherSuccess(r)
    /\ pc[r] \notin {"prepare", "read", "backup", "report"} /\ OtherSuccess(r) => cursor[r] # NoDate
    /\ pc[r] = "results" => lastDate # NoDate

DateIsKept ==
    /\ (\A r \in Runs : ~InProgress(r)) /\ (\E q \in Runs : job[q] = "SUCCESS") =>
          lastDate # NoDate
    /\ \A r \in Runs : InProgress(r) => KeepsDate(r)

\* Every date at hand has all the changes up to it saved or waived.
DatesDelivered ==
    /\ Delivered(lastDate)
    /\ \A r \in Runs : Delivered(cursor[r]) /\ Delivered(fetched[r])

\* The clock starts at 1, so that the start of a run is never the null of the column.
StartIsDate ==
    /\ now # 0
    /\ \A r \in Runs : pc[r] \in {"script", "upsert", "finish", "check", "write"} => start[r] # 0

OrderInv == StartIsDate /\ (InOrder => DateIsKept /\ DatesDelivered)

LEMMA NextStartIsDate == TypeOK /\ StartIsDate /\ [Next]_vars => StartIsDate'
<1> SUFFICES ASSUME TypeOK, StartIsDate, [Next]_vars PROVE StartIsDate'
  OBVIOUS
<1> USE DEF Goto, EndsAs, sharedVars, jobVars, runVars, dataVars, StartIsDate
<1> pc \in [Runs -> Locations] /\ now \in Nat /\ start \in [Runs -> Nat]
  BY DEF TypeOK
<1>1. CASE Change
  BY <1>1 DEF Change
<1>2. ASSUME NEW r \in Runs, NEW inserted \in BOOLEAN, ScheduleAndRouteSync(r, inserted)
      PROVE  StartIsDate'
  BY <1>2 DEF ScheduleAndRouteSync
<1>3. ASSUME NEW r \in Runs, StartScript(r) PROVE StartIsDate'
  BY <1>3 DEF StartScript
<1>4. ASSUME NEW r \in Runs, WorkerStep(r), ~StartScript(r) PROVE StartIsDate'
  <2>1. now' = now /\ start' = start /\ \A q \in Runs \ {r} : pc'[q] = pc[q]
    BY <1>4 DEF WorkerStep, Prepare, PrepareFails, ReadDate, ReadBackupDate, ClearDate,
              ScriptSaves, ScriptReturnsVoid, ScriptFails, ScriptReturnsRecords, UpsertResults,
              UpsertFails, MarkSuccess, CheckDate, WriteDate, FinishResults, FinishWithoutJob,
              LastModelMissing, RestoreCheck, RestoreWrite, ReportFailure
  <2>2. pc'[r] \in {"script", "upsert", "finish", "check", "write"} =>
        pc[r] \in {"script", "upsert", "finish", "check", "write"}
    BY <1>4 DEF WorkerStep, Prepare, PrepareFails, ReadDate, ReadBackupDate, ClearDate,
              ScriptSaves, ScriptReturnsVoid, ScriptFails, ScriptReturnsRecords, UpsertResults,
              UpsertFails, MarkSuccess, CheckDate, WriteDate, FinishResults, FinishWithoutJob,
              LastModelMissing, RestoreCheck, RestoreWrite, ReportFailure
  <2> QED
    BY <2>1, <2>2
<1>5. ASSUME NEW r \in Runs, Mishappens(r) PROVE StartIsDate'
  BY <1>5 DEF Mishappens, Throws, Aborts, Crash, Timeout
<1>6. ASSUME NEW r \in Runs, NEW d \in UserDates, ScriptSetsDate(r, d) PROVE StartIsDate'
  BY <1>6 DEF ScriptSetsDate
<1>7. CASE UNCHANGED vars
  BY <1>7 DEF vars
<1> QED
  BY <1>1, <1>2, <1>3, <1>4, <1>5, <1>6, <1>7 DEF Next, Fires

\* A step of the only run in progress.
LEMMA KeptByOne ==
  ASSUME TypeOK, Alone, ~overlap, NEW r \in Runs, InProgress(r),
         \A q \in Runs \ {r} : pc'[q] = pc[q] /\ job'[q] = job[q],
         ~InProgress(r)' => ((\E q \in Runs : job'[q] = "SUCCESS") => lastDate' # NoDate),
         InProgress(r)' => KeepsDate(r)'
  PROVE  DateIsKept'
BY DEF Alone, Undisturbed, DateIsKept, InProgress

LEMMA WorkerKeepsDate ==
  ASSUME TypeOK, Alone, StartIsDate, InOrder, DateIsKept, NEW r \in Runs, WorkerStep(r), InOrder'
  PROVE  DateIsKept'
<1> USE DEF Undisturbed, StartIsDate
<1> USE DEF Goto, EndsAs, sharedVars, jobVars, runVars, dataVars, InProgress, InOrder, Unmarked,
            Mishap
<1> pc \in [Runs -> Locations] /\ cursor \in [Runs -> Nat] /\ job \in [Runs -> Statuses]
      /\ start \in [Runs -> Nat]
  BY DEF TypeOK
<1>24. InProgress(r)
  BY DEF WorkerStep, Prepare, PrepareFails, ReadDate, ReadBackupDate, ClearDate, StartScript,
         ScriptSaves, ScriptReturnsVoid, ScriptFails, ScriptReturnsRecords, UpsertResults,
         UpsertFails, MarkSuccess, CheckDate, WriteDate, FinishResults, FinishWithoutJob,
         LastModelMissing, RestoreCheck, RestoreWrite, ReportFailure
<1>22. KeepsDate(r)
  BY <1>24 DEF DateIsKept
<1>23. Undisturbed
  BY DEF Alone
<1> USE DEF KeepsDate, OtherSuccess
<1>1. CASE Prepare(r)
  BY <1>24, <1>22, <1>23, <1>1, KeptByOne DEF Prepare
<1>2. CASE PrepareFails(r)
  BY <1>24, <1>22, <1>23, <1>2, KeptByOne DEF PrepareFails
<1>3. CASE ReadDate(r)
  BY <1>24, <1>22, <1>23, <1>3, KeptByOne DEF ReadDate
<1>4. CASE ReadBackupDate(r)
  BY <1>24, <1>22, <1>23, <1>4, KeptByOne DEF ReadBackupDate
<1>5. CASE ClearDate(r)
  BY <1>24, <1>22, <1>23, <1>5, KeptByOne DEF ClearDate, ClearLastSyncDate, SetLastSyncDate
<1>6. CASE StartScript(r)
  BY <1>24, <1>22, <1>23, <1>6, KeptByOne DEF StartScript
<1>7. CASE ScriptSaves(r)
  BY <1>24, <1>22, <1>23, <1>7, KeptByOne DEF ScriptSaves
<1>8. CASE ScriptReturnsVoid(r)
  BY <1>24, <1>22, <1>23, <1>8, KeptByOne DEF ScriptReturnsVoid
<1>9. CASE ScriptFails(r)
  BY <1>24, <1>22, <1>23, <1>9, KeptByOne DEF ScriptFails
<1>10. CASE ScriptReturnsRecords(r)
  BY <1>24, <1>22, <1>23, <1>10, KeptByOne DEF ScriptReturnsRecords
<1>11. CASE UpsertResults(r)
  BY <1>24, <1>22, <1>23, <1>11, KeptByOne DEF UpsertResults
<1>12. CASE UpsertFails(r)
  BY <1>24, <1>22, <1>23, <1>12, KeptByOne DEF UpsertFails
<1>13. CASE MarkSuccess(r)
  BY <1>24, <1>22, <1>23, <1>13, KeptByOne DEF MarkSuccess, UpdateSyncJobStatus
<1>14. CASE CheckDate(r)
  BY <1>24, <1>22, <1>23, <1>14, KeptByOne DEF CheckDate
<1>15. CASE WriteDate(r)
  BY <1>24, <1>22, <1>23, <1>15, KeptByOne DEF WriteDate, SetLastSyncDate
<1>16. CASE FinishResults(r)
  BY <1>24, <1>22, <1>23, <1>16, KeptByOne DEF FinishResults
<1>17. CASE FinishWithoutJob(r)
  BY <1>24, <1>22, <1>23, <1>17, KeptByOne DEF FinishWithoutJob
<1>18. CASE LastModelMissing(r)
  BY <1>24, <1>22, <1>23, <1>18, KeptByOne DEF LastModelMissing
<1>19. CASE RestoreCheck(r)
  BY <1>24, <1>22, <1>23, <1>19, KeptByOne DEF RestoreCheck
<1>20. CASE RestoreWrite(r)
  BY <1>24, <1>22, <1>23, <1>20, KeptByOne DEF RestoreWrite, SetLastSyncDate
<1>21. CASE ReportFailure(r)
  <2>1. job' = [job EXCEPT ![r] = "STOPPED"] /\ pc' = [pc EXCEPT ![r] = "done"] /\ lastDate' = lastDate
    BY <1>21, <1>22 DEF ReportFailure, UpdateSyncJobStatus
  <2>2. (\E q \in Runs : job'[q] = "SUCCESS") => OtherSuccess(r)
    BY <2>1
  <2> QED
    BY <1>24, <1>22, <1>21, <2>1, <2>2, KeptByOne DEF ReportFailure
<1> QED
  BY <1>1, <1>2, <1>3, <1>4, <1>5, <1>6, <1>7, <1>8, <1>9, <1>10, <1>11, <1>12, <1>13, <1>14,
     <1>15, <1>16, <1>17, <1>18, <1>19, <1>20, <1>21 DEF WorkerStep

LEMMA NextDateIsKept ==
  TypeOK /\ Alone /\ StartIsDate /\ InOrder /\ DateIsKept /\ [Next]_vars /\ InOrder' => DateIsKept'
<1> SUFFICES ASSUME TypeOK, Alone, StartIsDate, InOrder, DateIsKept, [Next]_vars, InOrder'
             PROVE  DateIsKept'
  OBVIOUS
<1> USE DEF Goto, EndsAs, sharedVars, jobVars, runVars, dataVars, InProgress, InOrder, Mishap,
            Unmarked
<1> pc \in [Runs -> Locations] /\ cursor \in [Runs -> Nat] /\ job \in [Runs -> Statuses]
  BY DEF TypeOK
<1>1. CASE Change
  BY <1>1 DEF Change, DateIsKept, KeepsDate, OtherSuccess
<1>2. ASSUME NEW r \in Runs, NEW inserted \in BOOLEAN, ScheduleAndRouteSync(r, inserted)
      PROVE  DateIsKept'
  BY <1>2 DEF ScheduleAndRouteSync, DateIsKept, KeepsDate, OtherSuccess
<1>3. ASSUME NEW r \in Runs, WorkerStep(r) PROVE DateIsKept'
  BY <1>3, WorkerKeepsDate
<1>4. ASSUME NEW r \in Runs, Throws(r) PROVE DateIsKept'
  <2>1. InProgress(r)
    BY <1>4 DEF Throws
  <2>2. KeepsDate(r) /\ KeepsDate(r)' /\ job' = job
    BY <1>4, <2>1 DEF Throws, DateIsKept, KeepsDate, OtherSuccess
  <2> QED
    BY <1>4, <2>1, <2>2, KeptByOne DEF Throws
<1>5. ASSUME NEW r \in Runs, Aborts(r) \/ Crash(r) PROVE FALSE
  BY <1>5 DEF Aborts, Crash
<1>6. ASSUME NEW r \in Runs, Timeout(r) PROVE DateIsKept'
  BY <1>6 DEF Timeout, DateIsKept, KeepsDate, OtherSuccess
<1>7. ASSUME NEW r \in Runs, NEW d \in UserDates, ScriptSetsDate(r, d) PROVE DateIsKept'
  BY <1>7, DatesAssumption DEF ScriptSetsDate, SetLastSyncDate, DateIsKept, KeepsDate,
     OtherSuccess
<1>8. CASE UNCHANGED vars
  BY <1>8 DEF vars, DateIsKept, KeepsDate, OtherSuccess
<1> QED
  BY <1>1, <1>2, <1>3, <1>4, <1>5, <1>6, <1>7, <1>8 DEF Next, Fires, Mishappens


LEMMA WorkerDelivers ==
  ASSUME TypeOK, DatesAccounted, Alone, InOrder, DateIsKept, DatesDelivered,
         NEW r \in Runs, WorkerStep(r)
  PROVE  DatesDelivered'
<1> USE DEF Goto, EndsAs, sharedVars, jobVars, runVars, dataVars
<1> lastDate \in Nat /\ Delivered(lastDate)
  BY DEF TypeOK, DatesDelivered
<1> cursor \in [Runs -> Nat] /\ fetched \in [Runs -> Nat] /\ start \in [Runs -> Nat] /\ now \in Nat
      /\ job \in [Runs -> Statuses]
  BY DEF TypeOK
<1> \A q \in Runs : Delivered(cursor[q]) /\ Delivered(fetched[q])
  BY DEF DatesDelivered
<1>1. CASE UNCHANGED <<lastDate, cursor, fetched, delivered, asked>>
  BY <1>1 DEF DatesDelivered, Delivered, Waived
<1>2. CASE ReadDate(r)
  <2>1. \A q \in Runs : cursor'[q] = cursor[q] \/ cursor'[q] = lastDate
    BY <1>2 DEF ReadDate
  <2> QED
    BY <1>2, <2>1 DEF ReadDate, DatesDelivered, Delivered, Waived
<1>3. CASE ReadBackupDate(r)
  <2>1. \A q \in Runs : job[q] # "SUCCESS"
    BY <1>3 DEF ReadBackupDate, DateIsKept, KeepsDate, OtherSuccess, InProgress, Unmarked
  <2>2. \A q \in Runs : cursor'[q] = cursor[q] \/ cursor'[q] = NoDate
    BY <1>3, <2>1 DEF ReadBackupDate, IsJobLastSyncDate
  <2>3. Delivered(NoDate)
    BY DEF Delivered
  <2> QED
    BY <1>3, <2>2, <2>3 DEF ReadBackupDate, DatesDelivered, Delivered, Waived
<1>4. CASE ClearDate(r)
  BY <1>4 DEF ClearDate, ClearLastSyncDate, SetLastSyncDate, DatesDelivered, Delivered, Waived
<1>5. CASE StartScript(r)
  <2>1. \A q \in Runs : fetched'[q] = fetched[q] \/ fetched'[q] = cursor[q]
    BY <1>5 DEF StartScript
  <2> QED
    BY <1>5, <2>1 DEF StartScript, DatesDelivered, Delivered, Waived
<1>6. CASE ScriptSaves(r)
  <2>1. PICK upto \in fetched[r] + 1 .. now :
          /\ delivered' = delivered \union (fetched[r] + 1 .. upto)
          /\ fetched' = [fetched EXCEPT ![r] = upto]
    BY <1>6 DEF ScriptSaves
  <2>2. \A t \in 1..upto : t \in delivered' \/ Waived(t)
    BY <2>1 DEF Delivered
  <2>3. \A q \in Runs : fetched'[q] = fetched[q] \/ fetched'[q] = upto
    BY <2>1
  <2> QED
    BY <1>6, <2>1, <2>2, <2>3 DEF ScriptSaves, DatesDelivered, Delivered, Waived
<1>7. CASE UpsertResults(r)
  <2>1. \A t \in 1..start[r] : t \in delivered' \/ Waived(t)
    BY <1>7 DEF UpsertResults, Delivered
  <2>2. \A q \in Runs : fetched'[q] = fetched[q] \/ fetched'[q] = start[r]
    BY <1>7 DEF UpsertResults
  <2> QED
    BY <1>7, <2>1, <2>2 DEF UpsertResults, DatesDelivered, Delivered, Waived
<1>8. CASE WriteDate(r)
  <2>1. start[r] <= fetched[r]
    BY <1>8 DEF WriteDate, DatesAccounted, RunAccounted, Fetched
  <2>2. Delivered(start[r])
    BY <2>1 DEF Delivered
  <2> QED
    BY <1>8, <2>2 DEF WriteDate, SetLastSyncDate, DatesDelivered, Delivered, Waived
<1>9. CASE RestoreWrite(r)
  BY <1>9 DEF RestoreWrite, SetLastSyncDate, DatesDelivered, Delivered, Waived
<1> QED
  BY <1>1, <1>2, <1>3, <1>4, <1>5, <1>6, <1>7, <1>8, <1>9
     DEF WorkerStep, Prepare, PrepareFails, ScriptReturnsVoid, ScriptFails, ScriptReturnsRecords,
         UpsertFails, MarkSuccess, CheckDate, FinishResults, FinishWithoutJob, LastModelMissing,
         RestoreCheck, ReportFailure

LEMMA NextDelivers ==
  TypeOK /\ DatesAccounted /\ Alone /\ InOrder /\ DateIsKept /\ DatesDelivered /\ [Next]_vars
  => DatesDelivered'
<1> SUFFICES ASSUME TypeOK, DatesAccounted, Alone, InOrder, DateIsKept, DatesDelivered, [Next]_vars
             PROVE  DatesDelivered'
  OBVIOUS
<1> USE DEF Goto, EndsAs, sharedVars, jobVars, runVars, dataVars, DatesDelivered, Delivered,
   Waived
<1>1. ASSUME NEW r \in Runs, WorkerStep(r) PROVE DatesDelivered'
  BY <1>1, WorkerDelivers
<1>2. ASSUME NEW r \in Runs, NEW d \in UserDates, ScriptSetsDate(r, d) PROVE DatesDelivered'
  BY <1>2 DEF ScriptSetsDate, SetLastSyncDate
<1>3. CASE UNCHANGED <<lastDate, cursor, fetched, delivered, asked>>
  BY <1>3
<1> QED
  BY <1>1, <1>2, <1>3 DEF Next, Fires, Mishappens, vars, Change, ScheduleAndRouteSync, Throws,
     Aborts, Crash, Timeout

\* Neither an overlap nor what went wrong is ever forgotten.
LEMMA InOrderBefore == TypeOK /\ [Next]_vars /\ InOrder' => InOrder
<1> SUFFICES ASSUME TypeOK, [Next]_vars PROVE mishaps \subseteq mishaps' /\ (overlap => overlap')
  BY DEF InOrder
<1> USE DEF sharedVars, jobVars, runVars, dataVars, Mishap
<1>1. ASSUME NEW r \in Runs, WorkerStep(r) PROVE mishaps \subseteq mishaps' /\ overlap' = overlap
  BY <1>1 DEF WorkerStep, Prepare, PrepareFails, ReadDate, ReadBackupDate, ClearDate,
     StartScript,
         ScriptSaves, ScriptReturnsVoid, ScriptFails, ScriptReturnsRecords, UpsertResults,
         UpsertFails, MarkSuccess, CheckDate, WriteDate, FinishResults, FinishWithoutJob,
         LastModelMissing, RestoreCheck, RestoreWrite, ReportFailure
<1>2. ASSUME NEW r \in Runs, Mishappens(r) PROVE mishaps \subseteq mishaps' /\ overlap' = overlap
  BY <1>2 DEF Mishappens, Throws, Aborts, Crash, Timeout
<1>3. CASE Fires
  BY <1>3 DEF Fires, ScheduleAndRouteSync, TypeOK
<1> QED
  BY <1>1, <1>2, <1>3 DEF Next, Change, ScriptSetsDate, vars

LEMMA InitOrderInv == Init => OrderInv
BY DEF Init, OrderInv, StartIsDate, InOrder, DateIsKept, DatesDelivered, KeepsDate,
   OtherSuccess,
       Delivered, InProgress, Unmarked

\* As long as runs do not overlap and nothing worse happens than an exception that run
\* catches, every run starts from a date before which nothing is missed: the comment at
\* run.service.ts:515 then holds to the letter, although the column is cleared before
\* each run and the job's updated_at, its backup, would skip changes.
THEOREM NothingMissedInOrder == Spec => []NoMissedChangeInOrder
<1> DEFINE Inv == TypeOK /\ DatesAccounted /\ Alone /\ OrderInv
<1>1. Init => Inv
  BY InitTypeOK, InitAccounted, InitAlone, InitOrderInv
<1>2. Inv /\ [Next]_vars => Inv'
  BY NextTypeOK, NextAccounted, NextAlone, NextStartIsDate, NextDateIsKept, NextDelivers,
     InOrderBefore DEF OrderInv
<1>3. Inv => NoMissedChangeInOrder
  BY DEF OrderInv, InOrder, DatesDelivered, NoMissedChangeInOrder, NoMissedChange
<1> QED
  BY <1>1, <1>2, <1>3, PTL DEF Spec

-----------------------------------------------------------------------------
HIDE DEF Runs, Initial, NoDate

TableRows == [id : Keys, text : Texts]
ServerType == [pc : ServerLocations, key : EncryptionKeys \cup {NoKey}, cache : SUBSET Keys,
               row : RowType, table : DOMAIN Tables, rows : SUBSET TableRows]
TaskType == [pc : TaskLocations, at : Servers \cup {None}, row : RowType]

\* The type of every variable, without what EnvironmentsTypeOK says of the row.
Types ==
    /\ config \in [hash : EncryptionKeys \cup {NoKey}, complete : BOOLEAN]
    /\ row \in RowType /\ user \in BOOLEAN
    /\ tables \in [TableNames -> SUBSET TableRows]
    /\ server \in [Servers -> ServerType]
    /\ task \in [Requests -> TaskType]
    /\ starts \in 0..MaxStarts /\ stops \in 0..MaxStops
    /\ wanted \in [setting : Settings, rows : [TableNames -> SUBSET Keys]]
    /\ doubts \in [Servers -> SUBSET Doubts] /\ reasons \subseteq Reasons

(***************************************************************************)
(* The values the steps build.                                             *)
(***************************************************************************)

LEMMA TextTypes ==
    /\ \A key \in Keys \cup {None}, by \in EncryptionKeys \cup {NoKey} : Text(key, by) \in Texts
    /\ NoText \in Texts
BY DEF Text, Texts, NoText

LEMMA RowTypes == Absent \in RowType /\ Inserted \in RowType
<1>1. 0 \in Keys /\ 0 \in Settings
  BY BoundsAssumption DEF Keys, Settings
<1>2. Absent \in RowType
  BY <1>1, TextTypes DEF Absent, RowType
<1> QED BY <1>1, <1>2, TextTypes DEF Inserted, RowType

LEMMA EncryptTypes ==
    ASSUME NEW k \in EncryptionKeys \cup {NoKey}, NEW w \in RowType
    PROVE  /\ EncryptEnvironment(k, w) \in RowType
           /\ EncryptEnvironment(k, w).setting = w.setting
           /\ EncryptEnvironment(k, w).secret = IF k = NoKey THEN w.secret ELSE Text(w.secret.key, k)
           /\ EncryptEnvironment(k, w).pending =
                 IF k = NoKey \/ w.pending.key = None THEN w.pending ELSE Text(w.pending.key, k)
<1>1. w.secret.key \in Keys \cup {None} /\ w.pending.key \in Keys \cup {None}
  BY DEF RowType, Texts
<1> QED BY <1>1, TextTypes DEF EncryptEnvironment, RowType

LEMMA EncryptRowTypes ==
    ASSUME NEW k \in EncryptionKeys \cup {NoKey}, NEW x \in TableRows
    PROVE  /\ Encrypt(k, x) \in TableRows
           /\ Encrypt(k, x).id = x.id
           /\ Encrypt(k, x).text = IF k = NoKey THEN x.text ELSE Text(x.text.key, k)
<1>1. x.text.key \in Keys \cup {None}
  BY DEF TableRows, Texts
<1> QED BY <1>1, TextTypes DEF Encrypt, TableRows

LEMMA ClearTypes ==
    ASSUME NEW id \in Keys, NEW key \in Keys
    PROVE  InTheClear(id, key) \in TableRows
BY TextTypes DEF InTheClear, TableRows

LEMMA TableTypes ==
    /\ \A i \in DOMAIN Tables : Tables[i] \in TableNames
    /\ Tables[1] = "credentials" /\ Tables[2] = "variables" /\ DOMAIN Tables = {1, 2}
    /\ \A i \in DOMAIN Tables : i \in {1, 2} /\ i \in Int
BY DEF Tables, TableNames

LEMMA LocalTypes == Down \in ServerType /\ Idle \in TaskType /\ Done \in TaskType
BY RowTypes DEF Down, Idle, Done, ServerType, TaskType, ServerLocations, TaskLocations, Tables,
   Keys

LEMMA RequestTypes == \A r \in Requests : r \in Keys /\ r \in Settings /\ r # None /\ r \notin Servers
BY ServersAssumption DEF Requests, Keys, Settings, None

(***************************************************************************)
(* What becomes of one server, and of one request.                         *)
(***************************************************************************)

\* Server p has come to be s; request r, to be t.
Turns(p, s) ==
    /\ server' \in [Servers -> ServerType]
    /\ server'[p] = s
    /\ \A q \in Servers : q # p => server'[q] = server[q]

Moves(r, t) ==
    /\ task' \in [Requests -> TaskType]
    /\ task'[r] = t
    /\ \A q \in Requests : q # r => task'[q] = task[q]

LEMMA Becomes ==
    ASSUME Types, NEW p \in Servers, NEW s \in ServerType, Become(p, s)
    PROVE  Turns(p, s)
BY DEF Types, Become, Turns

LEMMA Sets ==
    ASSUME Types, NEW r \in Requests, NEW t \in TaskType, Set(r, t)
    PROVE  Moves(r, t)
BY DEF Types, Set, Moves

LEMMA Enters ==
    ASSUME Types, NEW p \in Servers, NEW place \in ServerLocations, Enter(p, place)
    PROVE  Turns(p, [server[p] EXCEPT !.pc = place])
<1>1. [server[p] EXCEPT !.pc = place] \in ServerType
  BY DEF Types, ServerType
<1> QED BY <1>1, Becomes DEF Enter

LEMMA Goes ==
    ASSUME Types, NEW r \in Requests, NEW place \in TaskLocations, Advance(r, place)
    PROVE  Moves(r, [task[r] EXCEPT !.pc = place])
<1>1. [task[r] EXCEPT !.pc = place] \in TaskType
  BY DEF Types, TaskType
<1> QED BY <1>1, Sets DEF Advance

LEMMA Ends ==
    ASSUME Types, NEW r \in Requests, End(r)
    PROVE  Moves(r, Done)
BY LocalTypes, Sets DEF End

(***************************************************************************)
(* What every step does: its guard, what becomes of the server and of the  *)
(* request that take it, field by field, and of the other variables.       *)
(***************************************************************************)

Turned(p, place, key, cache, w, table, rows) ==
    /\ server' \in [Servers -> ServerType]
    /\ server'[p].pc = place /\ server'[p].key = key /\ server'[p].cache = cache
    /\ server'[p].row = w /\ server'[p].table = table /\ server'[p].rows = rows
    /\ \A q \in Servers : q # p => server'[q] = server[q]

Moved(r, place, at, w) ==
    /\ task' \in [Requests -> TaskType]
    /\ task'[r].pc = place /\ task'[r].at = at /\ task'[r].row = w
    /\ \A q \in Requests : q # r => task'[q] = task[q]

LEMMA TurnsTurned ==
    ASSUME Types, NEW p \in Servers, NEW s \in ServerType, Turns(p, s)
    PROVE  Turned(p, s.pc, s.key, s.cache, s.row, s.table, s.rows)
BY DEF Turns, Turned

LEMMA MovesMoved ==
    ASSUME Types, NEW r \in Requests, NEW t \in TaskType, Moves(r, t)
    PROVE  Moved(r, t.pc, t.at, t.row)
BY DEF Moves, Moved

LEMMA EntersTurned ==
    ASSUME Types, NEW p \in Servers, NEW place \in ServerLocations, Enter(p, place)
    PROVE  Turned(p, place, server[p].key, server[p].cache, server[p].row, server[p].table, server[p].rows)
<1> DEFINE s == [server[p] EXCEPT !.pc = place]
<1>1. s \in ServerType /\ s.pc = place /\ s.key = server[p].key /\ s.cache = server[p].cache
      /\ s.row = server[p].row /\ s.table = server[p].table /\ s.rows = server[p].rows
  BY DEF Types, ServerType
<1>2. Turns(p, s)
  BY Enters
<1> HIDE DEF s
<1>3. Turned(p, s.pc, s.key, s.cache, s.row, s.table, s.rows)
  BY <1>1, <1>2, TurnsTurned
<1> QED BY <1>1, <1>3

LEMMA GoesMoved ==
    ASSUME Types, NEW r \in Requests, NEW place \in TaskLocations, Advance(r, place)
    PROVE  Moved(r, place, task[r].at, task[r].row)
<1> DEFINE t == [task[r] EXCEPT !.pc = place]
<1>1. t \in TaskType /\ t.pc = place /\ t.at = task[r].at /\ t.row = task[r].row
  BY DEF Types, TaskType
<1>2. Moves(r, t)
  BY Goes
<1> HIDE DEF t
<1>3. Moved(r, t.pc, t.at, t.row)
  BY <1>1, <1>2, MovesMoved
<1> QED BY <1>1, <1>3

LEMMA EndsMoved ==
    ASSUME Types, NEW r \in Requests, End(r)
    PROVE  Moved(r, "done", None, Absent)
<1>1. Moved(r, Done.pc, Done.at, Done.row)
  BY Ends, LocalTypes, MovesMoved
<1>2. Done.pc = "done" /\ Done.at = None /\ Done.row = Absent
  BY DEF Done, Idle
<1> QED BY <1>1, <1>2

LEMMA DownTurned ==
    ASSUME Types, NEW p \in Servers, Become(p, Down)
    PROVE  Turned(p, "down", NoKey, {}, Absent, 1, {})
<1>1. Turned(p, Down.pc, Down.key, Down.cache, Down.row, Down.table, Down.rows)
  BY Becomes, LocalTypes, TurnsTurned
<1>2. Down.pc = "down" /\ Down.key = NoKey /\ Down.cache = {} /\ Down.row = Absent
      /\ Down.table = 1 /\ Down.rows = {}
  BY DEF Down
<1> QED BY <1>1, <1>2

LEMMA StartDoes ==
    ASSUME Types, NEW p \in Servers, NEW k \in EncryptionKeys \cup {NoKey}, Start(p, k)
    PROVE  /\ server[p].pc = "down"
           /\ Turned(p, "migrate", k, {}, Absent, 1, {})
           /\ starts' \in 0..MaxStarts
           /\ reasons' = IF \E q \in Up : server[q].key # k THEN reasons \cup {"keys"} ELSE reasons
           /\ UNCHANGED <<config, row, tables, user, task, stops, wanted, doubts>>
<1> DEFINE s == [Down EXCEPT !.pc = "migrate", !.key = k]
<1>1. s \in ServerType /\ s.pc = "migrate" /\ s.key = k /\ s.cache = {} /\ s.row = Absent
      /\ s.table = 1 /\ s.rows = {}
  BY LocalTypes DEF ServerType, Down, ServerLocations
<1>2. Become(p, s)
  BY DEF Start
<1> HIDE DEF s
<1>3. Turned(p, s.pc, s.key, s.cache, s.row, s.table, s.rows)
  BY <1>1, <1>2, Becomes, TurnsTurned
<1>4. starts' \in 0..MaxStarts
  BY BoundsAssumption DEF Start, Types
<1> QED BY <1>1, <1>3, <1>4 DEF Start

LEMMA EncryptDatabaseIfNeededDoes ==
    ASSUME Types, NEW p \in Servers, EncryptDatabaseIfNeeded(p)
    PROVE  /\ server[p].pc = "migrate"
           /\ \/ /\ config # NoConfig /\ config.hash # server[p].key
                 /\ Turned(p, "down", NoKey, {}, Absent, 1, {})
              \/ \E place \in {"cache", "drop", "read"} :
                    /\ Turned(p, place, server[p].key, server[p].cache, server[p].row, server[p].table,
                              server[p].rows)
                    /\ place = "drop" => config = NoConfig /\ server[p].key # NoKey
                    /\ place = "read" => config # NoConfig /\ config.hash = server[p].key /\ ~config.complete
                    /\ place = "cache" =>
                          \/ config = NoConfig /\ server[p].key = NoKey
                          \/ config # NoConfig /\ config.hash = server[p].key /\ config.complete
           /\ UNCHANGED <<config, row, tables, user, task, starts, stops, wanted, doubts, reasons>>
<1> DEFINE k == server[p].key
<1>1. server[p].pc = "migrate"
      /\ UNCHANGED <<config, row, tables, user, task, starts, stops, wanted, doubts, reasons>>
  BY DEF EncryptDatabaseIfNeeded, Resting, bounds
<1>2. CASE config = NoConfig
  <2>1. Enter(p, IF k = NoKey THEN "cache" ELSE "drop")
    BY <1>2 DEF EncryptDatabaseIfNeeded
  <2>2. CASE k = NoKey
    <3>1. Enter(p, "cache")
      BY <2>1, <2>2
    <3> QED BY <1>1, <1>2, <2>2, <3>1, EntersTurned DEF ServerLocations
  <2>3. CASE k # NoKey
    <3>1. Enter(p, "drop")
      BY <2>1, <2>3
    <3> QED BY <1>1, <1>2, <2>3, <3>1, EntersTurned DEF ServerLocations
  <2> QED BY <2>2, <2>3
<1>3. CASE config # NoConfig /\ config.hash # k
  <2>1. Become(p, Down)
    BY <1>3 DEF EncryptDatabaseIfNeeded
  <2> QED BY <1>1, <1>3, <2>1, DownTurned
<1>4. CASE config # NoConfig /\ config.hash = k
  <2>1. Enter(p, IF config.complete THEN "cache" ELSE "read")
    BY <1>4 DEF EncryptDatabaseIfNeeded
  <2>2. CASE config.complete
    <3>1. Enter(p, "cache")
      BY <2>1, <2>2
    <3> QED BY <1>1, <1>4, <2>2, <3>1, EntersTurned DEF ServerLocations
  <2>3. CASE ~config.complete
    <3>1. Enter(p, "read")
      BY <2>1, <2>3
    <3> QED BY <1>1, <1>4, <2>3, <3>1, EntersTurned DEF ServerLocations
  <2> QED BY <2>2, <2>3
<1> QED BY <1>2, <1>3, <1>4

LEMMA DropConfigDoes ==
    ASSUME Types, NEW p \in Servers, DropConfig(p)
    PROVE  /\ config' = NoConfig
           /\ \E place \in {"drop", "redrop"} :
                 /\ server[p].pc = place
                 /\ Turned(p, IF place = "drop" THEN "insert" ELSE "reinsert", server[p].key,
                           server[p].cache, server[p].row, server[p].table, server[p].rows)
           /\ UNCHANGED <<row, tables, user, task, starts, stops, wanted, doubts, reasons>>
<1>1. CASE server[p].pc = "drop"
  <2>1. Enter(p, "insert")
    BY <1>1 DEF DropConfig
  <2> QED BY <1>1, <2>1, EntersTurned DEF ServerLocations, DropConfig, Resting, bounds
<1>2. CASE server[p].pc = "redrop"
  <2>1. Enter(p, "reinsert")
    BY <1>2 DEF DropConfig
  <2> QED BY <1>2, <2>1, EntersTurned DEF ServerLocations, DropConfig, Resting, bounds
<1> QED BY <1>1, <1>2 DEF DropConfig

LEMMA InsertConfigDoes ==
    ASSUME Types, NEW p \in Servers, InsertConfig(p)
    PROVE  \E place \in {"insert", "reinsert"} :
              /\ server[p].pc = place
              /\ config' = [hash |-> server[p].key, complete |-> place = "reinsert"]
              /\ Turned(p, IF place = "insert" THEN "read" ELSE "cache", server[p].key,
                        server[p].cache, server[p].row, server[p].table, server[p].rows)
              /\ UNCHANGED <<row, tables, user, task, starts, stops, wanted, doubts, reasons>>
<1>1. CASE server[p].pc = "insert"
  <2>1. Enter(p, "read")
    BY <1>1 DEF InsertConfig
  <2> QED BY <1>1, <2>1, EntersTurned DEF ServerLocations, InsertConfig, Resting, bounds
<1>2. CASE server[p].pc = "reinsert"
  <2>1. Enter(p, "cache")
    BY <1>2 DEF InsertConfig
  <2> QED BY <1>2, <2>1, EntersTurned DEF ServerLocations, InsertConfig, Resting, bounds
<1> QED BY <1>1, <1>2 DEF InsertConfig

LEMMA ReadEnvironmentsDoes ==
    ASSUME Types, NEW p \in Servers, ReadEnvironments(p)
    PROVE  /\ server[p].pc = "read"
           /\ \/ /\ row = Absent \/ row.secret.iv
                 /\ Turned(p, "readRows", server[p].key, server[p].cache, server[p].row,
                           server[p].table, server[p].rows)
              \/ /\ row # Absent /\ ~row.secret.iv
                 /\ Turned(p, "encrypt", server[p].key, server[p].cache, row, server[p].table,
                           server[p].rows)
           /\ UNCHANGED <<config, row, tables, user, task, starts, stops, wanted, doubts, reasons>>
<1>1. CASE row = Absent \/ row.secret.iv
  <2>1. Enter(p, "readRows")
    BY <1>1 DEF ReadEnvironments
  <2> QED BY <1>1, <2>1, EntersTurned DEF ServerLocations, ReadEnvironments, Resting, bounds
<1>2. CASE ~(row = Absent \/ row.secret.iv)
  <2> DEFINE s == [server[p] EXCEPT !.pc = "encrypt", !.row = row]
  <2>1. s \in ServerType /\ s.pc = "encrypt" /\ s.key = server[p].key /\ s.cache = server[p].cache
        /\ s.row = row /\ s.table = server[p].table /\ s.rows = server[p].rows
    BY ZenonT(60) DEF Types, ServerType, ServerLocations
  <2>2. Become(p, s)
    BY <1>2 DEF ReadEnvironments
  <2> HIDE DEF s
  <2>3. Turned(p, s.pc, s.key, s.cache, s.row, s.table, s.rows)
    BY <2>1, <2>2, Becomes, TurnsTurned
  <2> QED BY <1>2, <2>1, <2>3 DEF ReadEnvironments, Resting, bounds
<1> QED BY <1>1, <1>2

LEMMA EncryptDatabaseDoes ==
    ASSUME Types, NEW p \in Servers, EncryptDatabase(p)
    PROVE  /\ server[p].pc = "encrypt"
           /\ row' = EncryptEnvironment(server[p].key, server[p].row)
           /\ Turned(p, "readRows", server[p].key, server[p].cache, Absent, server[p].table,
                     server[p].rows)
           /\ reasons' = IF Holding = {p} THEN reasons ELSE reasons \cup {"overlap"}
           /\ UNCHANGED <<config, tables, user, task, starts, stops, wanted, doubts>>
<1> DEFINE s == [server[p] EXCEPT !.pc = "readRows", !.row = Absent]
<1>1. s \in ServerType /\ s.pc = "readRows" /\ s.key = server[p].key /\ s.cache = server[p].cache
      /\ s.row = Absent /\ s.table = server[p].table /\ s.rows = server[p].rows
  BY ZenonT(60), RowTypes DEF Types, ServerType, ServerLocations
<1>2. Become(p, s)
  BY DEF EncryptDatabase
<1> HIDE DEF s
<1>3. Turned(p, s.pc, s.key, s.cache, s.row, s.table, s.rows)
  BY <1>1, <1>2, Becomes, TurnsTurned
<1> QED BY <1>1, <1>3 DEF EncryptDatabase, Resting, bounds

\* After the rows of a table come those that are left, the next table, or the configuration.
NextRowTurned(p, rows) ==
    \/ rows # {} /\ Turned(p, "encryptRows", server[p].key, server[p].cache, server[p].row,
                           server[p].table, rows)
    \/ rows = {} /\ server[p].table = 1
       /\ Turned(p, "readRows", server[p].key, server[p].cache, server[p].row, 2, {})
    \/ rows = {} /\ server[p].table = 2
       /\ Turned(p, "redrop", server[p].key, server[p].cache, server[p].row, 1, {})

LEMMA NextRowDoes ==
    ASSUME Types, NEW p \in Servers, NEW rows \in SUBSET TableRows, NextRow(p, rows)
    PROVE  NextRowTurned(p, rows)
<1>1. server[p].table \in {1, 2} /\ Len(Tables) = 2
  BY DEF Types, ServerType, Tables
<1>2. CASE rows # {}
  <2> DEFINE s == [server[p] EXCEPT !.pc = "encryptRows", !.rows = rows]
  <2>1. s \in ServerType /\ s.pc = "encryptRows" /\ s.key = server[p].key /\ s.cache = server[p].cache
        /\ s.row = server[p].row /\ s.table = server[p].table /\ s.rows = rows
    BY ZenonT(60) DEF Types, ServerType, ServerLocations
  <2>2. Become(p, s)
    BY <1>2 DEF NextRow
  <2> HIDE DEF s
  <2>3. Turned(p, s.pc, s.key, s.cache, s.row, s.table, s.rows)
    BY <2>1, <2>2, Becomes, TurnsTurned
  <2> QED BY <1>2, <2>1, <2>3 DEF NextRowTurned
<1>3. CASE rows = {} /\ server[p].table = 1
  <2> DEFINE s == [server[p] EXCEPT !.pc = "readRows", !.rows = {}, !.table = @ + 1]
  <2>0. 2 \in DOMAIN Tables /\ {} \in SUBSET TableRows /\ "readRows" \in ServerLocations /\ server[p].table + 1 = 2
    BY <1>3, TableTypes DEF ServerLocations
  <2>1. s \in ServerType /\ s.pc = "readRows" /\ s.key = server[p].key /\ s.cache = server[p].cache
        /\ s.row = server[p].row /\ s.table = 2 /\ s.rows = {}
    BY ZenonT(60), <2>0 DEF Types, ServerType
  <2>2. Become(p, s)
    BY <1>1, <1>3 DEF NextRow
  <2> HIDE DEF s
  <2>3. Turned(p, s.pc, s.key, s.cache, s.row, s.table, s.rows)
    BY <2>1, <2>2, Becomes, TurnsTurned
  <2> QED BY <1>3, <2>1, <2>3 DEF NextRowTurned
<1>4. CASE rows = {} /\ server[p].table = 2
  <2> DEFINE s == [server[p] EXCEPT !.pc = "redrop", !.rows = {}, !.table = 1]
  <2>0. 1 \in DOMAIN Tables /\ {} \in SUBSET TableRows /\ "redrop" \in ServerLocations
    BY <1>4, TableTypes DEF ServerLocations
  <2>1. s \in ServerType /\ s.pc = "redrop" /\ s.key = server[p].key /\ s.cache = server[p].cache
        /\ s.row = server[p].row /\ s.table = 1 /\ s.rows = {}
    BY <2>0 DEF Types, ServerType
  <2>2. Become(p, s)
    BY <1>1, <1>4 DEF NextRow
  <2> HIDE DEF s
  <2>3. Turned(p, s.pc, s.key, s.cache, s.row, s.table, s.rows)
    BY <2>1, <2>2, Becomes, TurnsTurned
  <2> QED BY <1>4, <2>1, <2>3 DEF NextRowTurned
<1> QED BY <1>1, <1>2, <1>3, <1>4

LEMMA ReadRowsDoes ==
    ASSUME Types, NEW p \in Servers, ReadRows(p)
    PROVE  /\ server[p].pc = "readRows"
           /\ NextRowTurned(p, {x \in tables[Tables[server[p].table]] : ~x.text.iv})
           /\ UNCHANGED <<config, row, tables, user, task, starts, stops, wanted, doubts, reasons>>
<1>1. tables[Tables[server[p].table]] \in SUBSET TableRows
  BY TableTypes DEF Types, ServerType
<1> QED BY <1>1, NextRowDoes DEF ReadRows, Resting, bounds

LEMMA EncryptRowDoes ==
    ASSUME Types, NEW p \in Servers, NEW x \in server[p].rows, EncryptRow(p, x)
    PROVE  LET t == Tables[server[p].table]
               same == {y \in tables[t] : y.id = x.id}
           IN  /\ server[p].pc = "encryptRows"
               /\ x \in TableRows /\ t \in TableNames
               /\ tables' \in [TableNames -> SUBSET TableRows]
               /\ tables'[t] = IF same = {} THEN tables[t]
                               ELSE (tables[t] \ same) \cup {Encrypt(server[p].key, x)}
               /\ \A u \in TableNames : u # t => tables'[u] = tables[u]
               /\ reasons' = IF \A y \in same : y.text.key = x.text.key THEN reasons
                             ELSE reasons \cup {"overlap"}
               /\ NextRowTurned(p, server[p].rows \ {x})
               /\ UNCHANGED <<config, row, user, task, starts, stops, wanted, doubts>>
<1> DEFINE t == Tables[server[p].table]
           same == {y \in tables[t] : y.id = x.id}
           to == IF same = {} THEN tables[t] ELSE (tables[t] \ same) \cup {Encrypt(server[p].key, x)}
<1>1. t \in TableNames /\ x \in TableRows /\ server[p].rows \ {x} \in SUBSET TableRows
      /\ server[p].key \in EncryptionKeys \cup {NoKey}
  BY TableTypes DEF Types, ServerType
<1>2. to \in SUBSET TableRows
  BY ZenonT(60), <1>1, EncryptRowTypes DEF Types
<1>3. tables' = [tables EXCEPT ![t] = to]
  BY DEF EncryptRow
<1>4. server[p].pc = "encryptRows" /\ NextRow(p, server[p].rows \ {x})
      /\ UNCHANGED <<config, row, user, task, starts, stops, wanted, doubts>>
      /\ reasons' = IF \A y \in same : y.text.key = x.text.key THEN reasons
                    ELSE reasons \cup {"overlap"}
  BY DEF EncryptRow, Resting, bounds
<1>5. NextRowTurned(p, server[p].rows \ {x})
  BY <1>1, <1>4, NextRowDoes
<1> HIDE DEF t, same, to
<1>6. tables' \in [TableNames -> SUBSET TableRows] /\ tables'[t] = to
      /\ \A u \in TableNames : u # t => tables'[u] = tables[u]
  BY <1>1, <1>2, <1>3 DEF Types
<1> QED BY <1>1, <1>4, <1>5, <1>6 DEF t, same, to

LEMMA CacheSecretsDoes ==
    ASSUME Types, NEW p \in Servers, row # Absent => row.secret.key # None, CacheSecrets(p)
    PROVE  /\ server[p].pc = "cache"
           /\ \/ /\ row = Absent
                 /\ Turned(p, "serving", server[p].key, server[p].cache, server[p].row,
                           server[p].table, server[p].rows)
              \/ /\ row # Absent /\ Decrypts(server[p].key, row)
                 /\ Turned(p, "serving", server[p].key, {row.secret.key}, server[p].row,
                           server[p].table, server[p].rows)
              \/ /\ row # Absent /\ ~Decrypts(server[p].key, row)
                 /\ Turned(p, "down", NoKey, {}, Absent, 1, {})
           /\ doubts' \in [Servers -> SUBSET Doubts]
           /\ doubts'[p] = {} /\ \A q \in Servers : q # p => doubts'[q] = doubts[q]
           /\ UNCHANGED <<config, row, tables, user, task, starts, stops, wanted, reasons>>
<1>1. /\ server[p].pc = "cache" /\ doubts' = [doubts EXCEPT ![p] = {}]
      /\ UNCHANGED <<config, row, tables, user, task, starts, stops, wanted, reasons>>
  BY DEF CacheSecrets, Resting, bounds
<1>2. /\ doubts' \in [Servers -> SUBSET Doubts]
      /\ doubts'[p] = {} /\ \A q \in Servers : q # p => doubts'[q] = doubts[q]
  BY <1>1 DEF Types
<1>3. CASE row = Absent
  <2>1. Enter(p, "serving")
    BY <1>3 DEF CacheSecrets, Enter
  <2> QED BY <1>1, <1>2, <1>3, <2>1, EntersTurned DEF ServerLocations
<1>4. CASE row # Absent /\ Decrypts(server[p].key, row)
  <2> DEFINE s == [server[p] EXCEPT !.pc = "serving", !.cache = {row.secret.key}]
  <2>1. row.secret.key \in Keys
    BY <1>4 DEF Types, RowType, Texts
  <2>2. s \in ServerType /\ s.pc = "serving" /\ s.key = server[p].key /\ s.cache = {row.secret.key}
        /\ s.row = server[p].row /\ s.table = server[p].table /\ s.rows = server[p].rows
    BY ZenonT(60), <2>1 DEF Types, ServerType, ServerLocations
  <2>3. Become(p, s)
    BY <1>4 DEF CacheSecrets
  <2> HIDE DEF s
  <2>4. Turned(p, s.pc, s.key, s.cache, s.row, s.table, s.rows)
    BY <2>2, <2>3, Becomes, TurnsTurned
  <2> QED BY <1>1, <1>2, <1>4, <2>2, <2>4
<1>5. CASE row # Absent /\ ~Decrypts(server[p].key, row)
  <2>1. Become(p, Down)
    BY <1>5 DEF CacheSecrets
  <2> QED BY <1>1, <1>2, <1>5, <2>1, DownTurned
<1> QED BY <1>3, <1>4, <1>5

LEMMA StopDoes ==
    ASSUME Types, NEW p \in Servers, Stop(p)
    PROVE  /\ server[p].pc # "down"
           /\ Turned(p, "down", NoKey, {}, Absent, 1, {})
           /\ task' \in [Requests -> TaskType]
           /\ \A r \in Requests : task'[r] = IF r \in Active /\ task[r].at = p THEN Done ELSE task[r]
           /\ reasons' = reasons \cup LeftBy(p) /\ reasons' \subseteq Reasons
           /\ stops' \in 0..MaxStops
           /\ UNCHANGED <<config, row, tables, user, starts, wanted, doubts>>
<1>1. Turned(p, "down", NoKey, {}, Absent, 1, {})
  BY DownTurned DEF Stop
<1>2. task' \in [Requests -> TaskType]
      /\ \A r \in Requests : task'[r] = IF r \in Active /\ task[r].at = p THEN Done ELSE task[r]
  BY LocalTypes DEF Stop, Types
<1>3. stops' \in 0..MaxStops
  BY BoundsAssumption DEF Stop, Types
<1>4. LeftBy(p) \subseteq Reasons
  BY DEF LeftBy, Reasons
<1> QED BY <1>1, <1>2, <1>3, <1>4 DEF Stop, Up, Types

\* Request r, that has done nothing, is taken up by server p.
Taken(r, p) == server[p].pc = "serving" /\ task[r].pc = "idle"

LEMMA TakeDoes ==
    ASSUME Types, NEW r \in Requests, NEW p \in Servers, NEW place \in TaskLocations, NEW w \in RowType,
           place # "done", Take(r, p, [Idle EXCEPT !.pc = place, !.row = w])
    PROVE  Taken(r, p) /\ Moved(r, place, p, w)
<1> DEFINE t == [Idle EXCEPT !.pc = place, !.row = w]
           u == [t EXCEPT !.at = p]
<1>1. u \in TaskType /\ u.pc = place /\ u.at = p /\ u.row = w
  BY LocalTypes DEF Idle, TaskType
<1>2. t.pc = place /\ Done.pc = "done" /\ Idle.pc = "idle"
  BY DEF Idle, Done
<1>3. t # Done
  BY <1>2
<1>4. Set(r, IF t = Done THEN Done ELSE u) /\ p \in Serving /\ task[r] = Idle
  BY DEF Take
<1>5. Set(r, u)
  BY <1>3, <1>4
<1> HIDE DEF u, t
<1>6. Moved(r, u.pc, u.at, u.row)
  BY <1>1, <1>5, Sets, MovesMoved
<1> QED BY <1>1, <1>2, <1>4, <1>6 DEF Taken, Serving

LEMMA TakeDoneDoes ==
    ASSUME Types, NEW r \in Requests, NEW p \in Servers, Take(r, p, Done)
    PROVE  Taken(r, p) /\ Moved(r, "done", None, Absent)
<1>1. Set(r, Done) /\ p \in Serving /\ task[r] = Idle
  BY DEF Take
<1>2. Moved(r, "done", None, Absent)
  BY <1>1, EndsMoved DEF End
<1> QED BY <1>1, <1>2 DEF Taken, Serving, Idle

LEMMA SessionDoes ==
    ASSUME Types, NEW r \in Requests, NEW p \in Servers, NEW place \in TaskLocations, NEW w \in RowType,
           place # "done", Session(r, p, place, w)
    PROVE  /\ user /\ row # Absent /\ Decrypts(server[p].key, row)
           /\ Taken(r, p) /\ Moved(r, place, p, w)
BY TakeDoes DEF Session, GetAccountAndEnvironmentById

LEMMA RotateKeyDoes ==
    ASSUME Types, NEW r \in Requests, NEW p \in Servers, RotateKey(r, p)
    PROVE  /\ user /\ row # Absent /\ Decrypts(server[p].key, row)
           /\ Taken(r, p) /\ Moved(r, "pending", p, row)
           /\ UNCHANGED <<config, row, tables, user, server, starts, stops, wanted, doubts, reasons>>
<1>1. Session(r, p, "pending", row) /\ row \in RowType /\ "pending" \in TaskLocations
  BY DEF RotateKey, Types, TaskLocations
<1> QED BY <1>1, SessionDoes DEF RotateKey, Reads, Still, bounds

LEMMA RevertKeyDoes ==
    ASSUME Types, NEW r \in Requests, NEW p \in Servers, RevertKey(r, p)
    PROVE  /\ user /\ row # Absent /\ Decrypts(server[p].key, row)
           /\ Taken(r, p) /\ Moved(r, "reverted", p, Absent)
           /\ UNCHANGED <<config, row, tables, user, server, starts, stops, wanted, doubts, reasons>>
<1>1. Session(r, p, "reverted", Absent) /\ Absent \in RowType /\ "reverted" \in TaskLocations
  BY RowTypes DEF RevertKey, TaskLocations
<1> QED BY <1>1, SessionDoes DEF RevertKey, Reads, Still, bounds

LEMMA ActivateKeyDoes ==
    ASSUME Types, NEW r \in Requests, NEW p \in Servers, ActivateKey(r, p)
    PROVE  /\ user /\ row # Absent /\ Decrypts(server[p].key, row)
           /\ Taken(r, p) /\ Moved(r, "replace", p, row)
           /\ UNCHANGED <<config, row, tables, user, server, starts, stops, wanted, doubts, reasons>>
<1>1. Session(r, p, "replace", row) /\ row \in RowType /\ "replace" \in TaskLocations
  BY DEF ActivateKey, Types, TaskLocations
<1> QED BY <1>1, SessionDoes DEF ActivateKey, Reads, Still, bounds

\* The row with a pending key in the clear, and the row with another setting.
Pend(w, r) == [w EXCEPT !.pending.key = r, !.pending.by = NoKey]
Configured(w, r) == [w EXCEPT !.setting = r]

LEMMA PendTypes ==
    ASSUME NEW w \in RowType, NEW r \in Requests
    PROVE  /\ Pend(w, r) \in RowType /\ Pend(w, r).secret = w.secret /\ Pend(w, r).setting = w.setting
           /\ Pend(w, r).pending.key = r /\ Pend(w, r).pending.by = NoKey
           /\ Pend(w, r).pending.iv = w.pending.iv
<1>1. r \in Keys
  BY RequestTypes
<1>2. w.pending \in Texts
  BY DEF RowType
<1> DEFINE x == [w.pending EXCEPT !.key = r, !.by = NoKey]
<1>3. x \in Texts /\ x.key = r /\ x.by = NoKey /\ x.iv = w.pending.iv
  BY <1>1, <1>2 DEF Texts
<1>4. Pend(w, r) = [w EXCEPT !.pending = x]
  BY <1>2 DEF Pend, RowType, Texts
<1> HIDE DEF x
<1> QED BY <1>3, <1>4 DEF RowType

LEMMA ConfiguredTypes ==
    ASSUME NEW w \in RowType, NEW r \in Requests
    PROVE  /\ Configured(w, r) \in RowType /\ Configured(w, r).secret = w.secret
           /\ Configured(w, r).pending = w.pending /\ Configured(w, r).setting = r
<1>1. r \in Settings
  BY RequestTypes
<1> QED BY <1>1 DEF Configured, RowType

LEMMA WritePendingDoes ==
    ASSUME Types, NEW r \in Requests, WritePending(r)
    PROVE  /\ task[r].pc = "pending"
           /\ row' = Pend(row, r)
           /\ Moved(r, "rotated", task[r].at, Pend(task[r].row, r))
           /\ reasons' = IF Holding = {r} THEN reasons ELSE reasons \cup {"overlap"}
           /\ UNCHANGED <<config, tables, user, server, starts, stops, wanted, doubts>>
<1>1. task[r] \in TaskType /\ task[r].row \in RowType
  BY DEF Types, TaskType
<1> DEFINE t == [task[r] EXCEPT !.pc = "rotated", !.row = Pend(@, r)]
<1>2. t \in TaskType /\ t.pc = "rotated" /\ t.at = task[r].at /\ t.row = Pend(task[r].row, r)
  BY <1>1, PendTypes DEF TaskType, TaskLocations
<1>3. t = [task[r] EXCEPT !.pc = "rotated", !.row.pending.key = r, !.row.pending.by = NoKey]
  BY <1>1 DEF Pend, TaskType, RowType, Texts
<1>4. Set(r, t)
  BY <1>3 DEF WritePending
<1> HIDE DEF t
<1>5. Moved(r, t.pc, t.at, t.row)
  BY <1>2, <1>4, Sets, MovesMoved
<1> QED BY <1>2, <1>5 DEF WritePending, At, Pend, Still, bounds

LEMMA WriteRotatedDoes ==
    ASSUME Types, NEW r \in Requests, WriteRotated(r)
    PROVE  /\ task[r].pc = "rotated"
           /\ row' = EncryptEnvironment(Key(r), task[r].row)
           /\ Moved(r, "done", None, Absent)
           /\ reasons' = IF Holding = {r} THEN reasons ELSE reasons \cup {"overlap"}
           /\ UNCHANGED <<config, tables, user, server, starts, stops, wanted, doubts>>
BY EndsMoved DEF WriteRotated, At, Still, bounds

LEMMA RevertSecretKeyDoes ==
    ASSUME Types, NEW r \in Requests, RevertSecretKey(r)
    PROVE  /\ task[r].pc = "reverted"
           /\ row' \in RowType /\ row'.secret = row.secret /\ row'.pending = NoText
           /\ row'.setting = row.setting
           /\ Moved(r, "done", None, Absent)
           /\ reasons' = Overlapping
           /\ UNCHANGED <<config, tables, user, server, starts, stops, wanted, doubts>>
<1>1. row' = [row EXCEPT !.pending = NoText] /\ row \in RowType
  BY DEF RevertSecretKey, Types
<1>2. row' \in RowType /\ row'.secret = row.secret /\ row'.pending = NoText /\ row'.setting = row.setting
  BY <1>1, TextTypes DEF RowType
<1> QED BY <1>2, EndsMoved DEF RevertSecretKey, At, Still, bounds

\* The caches are doubted, but for the one of server p, of which S is.
DoubtedTo(p, S) ==
    /\ doubts' \in [Servers -> SUBSET Doubts]
    /\ \A q \in Servers :
          doubts'[q] = IF q = p THEN doubts[q] \cup S ELSE doubts[q] \cup {"elsewhere"}

LEMMA DoubtedDoes ==
    ASSUME Types, NEW p, NEW S \in SUBSET Doubts, Doubted(p, S)
    PROVE  DoubtedTo(p, S)
<1>1. "elsewhere" \in Doubts
  BY DEF Doubts
<1> QED BY <1>1 DEF Types, Doubted, DoubtedTo

\* The cache of server p has come to be, and nothing else of the servers.
Cached(p, cache) ==
    Turned(p, server[p].pc, server[p].key, cache, server[p].row, server[p].table, server[p].rows)

LEMMA SameCached ==
    ASSUME Types, NEW p \in Servers, UNCHANGED server
    PROVE  Cached(p, server[p].cache)
BY DEF Types, Cached, Turned

LEMMA CachedDoes ==
    ASSUME Types, NEW p \in Servers, NEW cache \in SUBSET Keys, server' = [server EXCEPT ![p].cache = cache]
    PROVE  Cached(p, cache)
<1> DEFINE s == [server[p] EXCEPT !.cache = cache]
<1>1. s \in ServerType /\ s.pc = server[p].pc /\ s.key = server[p].key /\ s.cache = cache
      /\ s.row = server[p].row /\ s.table = server[p].table /\ s.rows = server[p].rows
  BY DEF Types, ServerType
<1>2. Become(p, s)
  BY DEF Types, Become
<1> HIDE DEF s
<1>3. Turned(p, s.pc, s.key, s.cache, s.row, s.table, s.rows)
  BY <1>1, <1>2, Becomes, TurnsTurned
<1> QED BY <1>1, <1>3 DEF Cached

LEMMA ReplaceKeyDoes ==
    ASSUME Types, NEW r \in Requests, NEW p \in Servers, task[r].at = p, ReplaceKey(r)
    PROVE  LET old == task[r].row.secret
               new == task[r].row.pending
           IN  /\ task[r].pc = "replace"
               /\ \/ /\ new.key # None
                     /\ row' \in RowType /\ row'.secret = new /\ row'.pending = NoText
                     /\ row'.setting = row.setting
                     /\ Moved(r, "recache", p, task[r].row)
                     /\ \/ /\ old.by = NoKey /\ Cached(p, server[p].cache \ {old.key}) /\ DoubtedTo(p, {})
                        \/ /\ old.by # NoKey /\ Cached(p, server[p].cache) /\ DoubtedTo(p, {"encrypted"})
                     /\ reasons' = IF row.secret = old /\ row.pending = new THEN Overlapping
                                   ELSE reasons \cup {"overlap"}
                     /\ UNCHANGED <<config, tables, user, starts, stops, wanted>>
                  \/ /\ new.key = None
                     /\ Moved(r, "done", None, Absent)
                     /\ UNCHANGED <<config, row, tables, user, server, starts, stops, wanted, doubts,
                                    reasons>>
<1> DEFINE old == task[r].row.secret
           new == task[r].row.pending
<1>1. task[r].pc = "replace" /\ task[r].row \in RowType /\ new \in Texts /\ old \in Texts
  BY DEF ReplaceKey, At, Types, TaskType, RowType
<1>2. CASE new.key = None /\ End(r) /\ Reads
  BY <1>1, <1>2, EndsMoved DEF Reads, Still, bounds
<1>3. CASE new.key # None /\ Replace(r, new)
  <2>1. row' = [row EXCEPT !.secret = new, !.pending = NoText] /\ row \in RowType
    BY <1>3 DEF Replace, Types
  <2>2. row' \in RowType /\ row'.secret = new /\ row'.pending = NoText /\ row'.setting = row.setting
    BY <1>1, <2>1, TextTypes DEF RowType
  <2>3. Moved(r, "recache", p, task[r].row)
    BY <1>3, GoesMoved DEF Replace, TaskLocations
  <2>4. CASE old.by = NoKey
    <3>1. server' = [server EXCEPT ![p].cache = @ \ {old.key}] /\ Doubted(p, {})
      BY <1>3, <2>4 DEF Replace
    <3>2. server' = [server EXCEPT ![p].cache = server[p].cache \ {old.key}]
          /\ server[p].cache \ {old.key} \in SUBSET Keys
      BY <3>1 DEF Types, ServerType
    <3>3. Cached(p, server[p].cache \ {old.key}) /\ DoubtedTo(p, {})
      BY <3>1, <3>2, CachedDoes, DoubtedDoes, {} \in SUBSET Doubts
    <3> QED BY <1>1, <1>3, <2>2, <2>3, <2>4, <3>3 DEF Replace, Still, bounds
  <2>5. CASE old.by # NoKey
    <3>1. UNCHANGED server /\ Doubted(p, {"encrypted"})
      BY <1>3, <2>5 DEF Replace
    <3>2. Cached(p, server[p].cache) /\ DoubtedTo(p, {"encrypted"})
      BY <3>1, SameCached, DoubtedDoes DEF Doubts
    <3> QED BY <1>1, <1>3, <2>2, <2>3, <2>5, <3>2 DEF Replace, Still, bounds
  <2> QED BY <2>4, <2>5
<1> QED BY <1>2, <1>3 DEF ReplaceKey

LEMMA AddToEnvironmentSecretCacheDoes ==
    ASSUME Types, NEW r \in Requests, NEW p \in Servers, task[r].at = p, row.secret.key # None,
           AddToEnvironmentSecretCache(r)
    PROVE  /\ task[r].pc = "recache"
           /\ \/ /\ Decrypts(server[p].key, row) /\ Cached(p, server[p].cache \cup {row.secret.key})
              \/ /\ ~Decrypts(server[p].key, row) /\ Cached(p, server[p].cache)
           /\ Moved(r, "done", None, Absent)
           /\ reasons' = Overlapping
           /\ UNCHANGED <<config, row, tables, user, starts, stops, wanted, doubts>>
<1>1. /\ task[r].pc = "recache" /\ Moved(r, "done", None, Absent) /\ reasons' = Overlapping
      /\ UNCHANGED <<config, row, tables, user, starts, stops, wanted, doubts>>
  BY EndsMoved DEF AddToEnvironmentSecretCache, At, Still, bounds
<1>2. CASE Decrypts(server[p].key, row)
  <2>1. server' = [server EXCEPT ![p].cache = @ \cup {row.secret.key}]
    BY <1>2 DEF AddToEnvironmentSecretCache, Key
  <2>2. server' = [server EXCEPT ![p].cache = server[p].cache \cup {row.secret.key}]
        /\ server[p].cache \cup {row.secret.key} \in SUBSET Keys
    BY <2>1 DEF Types, ServerType, RowType, Texts
  <2>3. Cached(p, server[p].cache \cup {row.secret.key})
    BY <2>2, CachedDoes
  <2> QED BY <1>1, <1>2, <2>3
<1>3. CASE ~Decrypts(server[p].key, row)
  <2>1. UNCHANGED server
    BY <1>3 DEF AddToEnvironmentSecretCache, Key
  <2> QED BY <1>1, <1>3, <2>1, SameCached
<1> QED BY <1>2, <1>3

LEMMA UpdateSettingDoes ==
    ASSUME Types, NEW r \in Requests, NEW p \in Servers, UpdateSetting(r, p)
    PROVE  /\ user /\ row # Absent /\ Decrypts(server[p].key, row)
           /\ Taken(r, p) /\ Moved(r, "done", None, Absent)
           /\ row' = Configured(row, r)
           /\ wanted' \in [setting : Settings, rows : [TableNames -> SUBSET Keys]]
           /\ wanted'.setting = r /\ wanted'.rows = wanted.rows
           /\ reasons' = Overlapping
           /\ UNCHANGED <<config, tables, user, server, starts, stops, doubts>>
<1>0. Idle \in TaskType /\ Idle.row = Absent
  BY LocalTypes DEF Idle
<1>1. [Idle EXCEPT !.pc = "done", !.row = Absent] = Done
  BY <1>0 DEF Done, TaskType
<1>2. user /\ row # Absent /\ Decrypts(server[p].key, row) /\ Take(r, p, Done)
  BY <1>1 DEF UpdateSetting, Session, GetAccountAndEnvironmentById
<1>3. /\ wanted' \in [setting : Settings, rows : [TableNames -> SUBSET Keys]]
      /\ wanted'.setting = r /\ wanted'.rows = wanted.rows
  BY RequestTypes DEF UpdateSetting, Types
<1> QED BY <1>2, <1>3, TakeDoneDoes DEF UpdateSetting, EditColumn, Configured, Still, bounds

LEMMA UpdateEnvironmentVariablesDoes ==
    ASSUME Types, NEW r \in Requests, NEW p \in Servers, UpdateEnvironmentVariables(r, p)
    PROVE  /\ user /\ row # Absent /\ Decrypts(server[p].key, row)
           /\ Taken(r, p) /\ Moved(r, "variables", p, Absent)
           /\ tables' \in [TableNames -> SUBSET TableRows]
           /\ tables'["variables"] = {} /\ tables'["credentials"] = tables["credentials"]
           /\ reasons' = IF \E q \in Requests : At(q, "variables") THEN reasons \cup {"variables"}
                         ELSE reasons
           /\ UNCHANGED <<config, row, user, server, starts, stops, wanted, doubts>>
<1>1. Session(r, p, "variables", Absent) /\ Absent \in RowType /\ "variables" \in TaskLocations
  BY RowTypes DEF UpdateEnvironmentVariables, TaskLocations
<1>2. /\ tables' \in [TableNames -> SUBSET TableRows]
      /\ tables'["variables"] = {} /\ tables'["credentials"] = tables["credentials"]
  BY DEF UpdateEnvironmentVariables, Types, TableNames
<1> QED BY <1>1, <1>2, SessionDoes DEF UpdateEnvironmentVariables, Still, bounds

LEMMA InsertVariablesDoes ==
    ASSUME Types, NEW r \in Requests, NEW p \in Servers, task[r].at = p, InsertVariables(r)
    PROVE  LET x == Encrypt(server[p].key, InTheClear(r, r)) IN
           /\ task[r].pc = "variables"
           /\ Moved(r, "done", None, Absent)
           /\ tables' \in [TableNames -> SUBSET TableRows]
           /\ tables'["variables"] = tables["variables"] \cup {x}
           /\ tables'["credentials"] = tables["credentials"]
           /\ wanted' \in [setting : Settings, rows : [TableNames -> SUBSET Keys]]
           /\ wanted'.setting = wanted.setting
           /\ wanted'.rows["variables"] = {r}
           /\ wanted'.rows["credentials"] = wanted.rows["credentials"]
           /\ UNCHANGED <<config, row, user, server, starts, stops, doubts, reasons>>
<1> DEFINE x == Encrypt(server[p].key, InTheClear(r, r))
<1>1. x \in TableRows
  BY RequestTypes, ClearTypes, EncryptRowTypes DEF Types, ServerType
<1>2. tables' = [tables EXCEPT !["variables"] = @ \cup {x}]
  BY DEF InsertVariables, Key
<1> HIDE DEF x
<1>3. /\ tables' \in [TableNames -> SUBSET TableRows]
      /\ tables'["variables"] = tables["variables"] \cup {x}
      /\ tables'["credentials"] = tables["credentials"]
  BY <1>1, <1>2 DEF Types, TableNames
<1>4. /\ wanted' \in [setting : Settings, rows : [TableNames -> SUBSET Keys]]
      /\ wanted'.setting = wanted.setting
      /\ wanted'.rows["variables"] = {r}
      /\ wanted'.rows["credentials"] = wanted.rows["credentials"]
  BY RequestTypes DEF InsertVariables, Types, TableNames
<1> QED BY <1>3, <1>4, EndsMoved DEF x, InsertVariables, At, Still, bounds

LEMMA SaveCredentialsDoes ==
    ASSUME Types, NEW r \in Requests, NEW p \in Servers, SaveCredentials(r, p)
    PROVE  LET x == Encrypt(server[p].key, InTheClear(0, r)) IN
           /\ row # Absent
           /\ Taken(r, p) /\ Moved(r, "done", None, Absent)
           /\ tables' \in [TableNames -> SUBSET TableRows]
           /\ tables'["credentials"] = {x} /\ tables'["variables"] = tables["variables"]
           /\ wanted' \in [setting : Settings, rows : [TableNames -> SUBSET Keys]]
           /\ wanted'.setting = wanted.setting
           /\ wanted'.rows["credentials"] = {r}
           /\ wanted'.rows["variables"] = wanted.rows["variables"]
           /\ UNCHANGED <<config, row, user, server, starts, stops, doubts, reasons>>
<1> DEFINE x == Encrypt(server[p].key, InTheClear(0, r))
<1>0. 0 \in Keys
  BY BoundsAssumption DEF Keys
<1>1. x \in TableRows
  BY <1>0, RequestTypes, ClearTypes, EncryptRowTypes DEF Types, ServerType
<1>2. tables' = [tables EXCEPT !["credentials"] = {x}]
  BY DEF SaveCredentials
<1> HIDE DEF x
<1>3. /\ tables' \in [TableNames -> SUBSET TableRows]
      /\ tables'["credentials"] = {x} /\ tables'["variables"] = tables["variables"]
  BY <1>1, <1>2 DEF Types, TableNames
<1>4. /\ wanted' \in [setting : Settings, rows : [TableNames -> SUBSET Keys]]
      /\ wanted'.setting = wanted.setting
      /\ wanted'.rows["credentials"] = {r}
      /\ wanted'.rows["variables"] = wanted.rows["variables"]
  BY RequestTypes DEF SaveCredentials, Types, TableNames
<1> QED BY <1>3, <1>4, TakeDoneDoes DEF x, SaveCredentials, Still, bounds

LEMMA CreateEnvironmentDoes ==
    ASSUME Types, NEW r \in Requests, NEW p \in Servers, CreateEnvironment(r, p)
    PROVE  /\ row = Absent
           /\ Taken(r, p) /\ Moved(r, "created", p, Absent)
           /\ row' = Inserted
           /\ reasons' = Overlapping
           /\ DoubtedTo(p, {})
           /\ UNCHANGED <<config, tables, user, server, starts, stops, wanted>>
<1>0. Idle \in TaskType /\ Idle.row = Absent
  BY LocalTypes DEF Idle
<1>1. Absent \in RowType /\ "created" \in TaskLocations /\ "created" # "done"
      /\ [Idle EXCEPT !.pc = "created"] = [Idle EXCEPT !.pc = "created", !.row = Absent]
  BY <1>0, RowTypes DEF TaskType, TaskLocations
<1>2. Take(r, p, [Idle EXCEPT !.pc = "created", !.row = Absent])
  BY <1>1 DEF CreateEnvironment
<1>3. Taken(r, p) /\ Moved(r, "created", p, Absent)
  BY <1>1, <1>2, TakeDoes
<1> QED BY <1>3, DoubtedDoes DEF CreateEnvironment, Still, bounds

LEMMA ReadCreatedDoes ==
    ASSUME Types, NEW r \in Requests, NEW p \in Servers, task[r].at = p, ReadCreated(r)
    PROVE  /\ task[r].pc = "created"
           /\ \/ Decrypts(server[p].key, row) /\ Moved(r, "encrypted", p, row)
              \/ ~Decrypts(server[p].key, row) /\ Moved(r, "user", p, task[r].row)
           /\ UNCHANGED <<config, row, tables, user, server, starts, stops, wanted, doubts, reasons>>
<1>1. /\ task[r].pc = "created"
      /\ UNCHANGED <<config, row, tables, user, server, starts, stops, wanted, doubts, reasons>>
  BY DEF ReadCreated, At, Reads, Still, bounds
<1>2. CASE Decrypts(server[p].key, row)
  <2> DEFINE t == [task[r] EXCEPT !.pc = "encrypted", !.row = row]
  <2>1. t \in TaskType /\ t.pc = "encrypted" /\ t.at = p /\ t.row = row
    BY DEF Types, TaskType, TaskLocations
  <2>2. Set(r, t)
    BY <1>2 DEF ReadCreated, Key
  <2> HIDE DEF t
  <2>3. Moved(r, t.pc, t.at, t.row)
    BY <2>1, <2>2, Sets, MovesMoved
  <2> QED BY <1>1, <1>2, <2>1, <2>3
<1>3. CASE ~Decrypts(server[p].key, row)
  <2>1. Advance(r, "user")
    BY <1>3 DEF ReadCreated, Key
  <2> QED BY <1>1, <1>3, <2>1, GoesMoved DEF TaskLocations
<1> QED BY <1>2, <1>3

LEMMA WriteCreatedDoes ==
    ASSUME Types, NEW r \in Requests, NEW p \in Servers, task[r].at = p, task[r].row.secret.key # None,
           WriteCreated(r)
    PROVE  /\ task[r].pc = "encrypted"
           /\ row' = EncryptEnvironment(Key(r), task[r].row)
           /\ Moved(r, "user", p, task[r].row)
           /\ Cached(p, server[p].cache \cup {task[r].row.secret.key})
           /\ reasons' = IF row = task[r].row THEN Overlapping ELSE reasons \cup {"overlap"}
           /\ UNCHANGED <<config, tables, user, starts, stops, wanted, doubts>>
<1>1. server' = [server EXCEPT ![p].cache = @ \cup {task[r].row.secret.key}]
  BY DEF WriteCreated
<1>2. server' = [server EXCEPT ![p].cache = server[p].cache \cup {task[r].row.secret.key}]
      /\ server[p].cache \cup {task[r].row.secret.key} \in SUBSET Keys
  BY <1>1 DEF Types, ServerType, TaskType, RowType, Texts
<1>3. Cached(p, server[p].cache \cup {task[r].row.secret.key})
  BY <1>2, CachedDoes
<1>4. Moved(r, "user", p, task[r].row)
  BY GoesMoved DEF WriteCreated, TaskLocations
<1> QED BY <1>3, <1>4 DEF WriteCreated, At, Still, bounds

LEMMA CreateUserDoes ==
    ASSUME Types, NEW r \in Requests, CreateUser(r)
    PROVE  /\ task[r].pc = "user" /\ user' = TRUE
           /\ Moved(r, "done", None, Absent)
           /\ UNCHANGED <<config, row, tables, server, starts, stops, wanted, doubts, reasons>>
BY EndsMoved DEF CreateUser, At, bounds

(***************************************************************************)
(* What holds of the rows, the requests and the servers, whatever happens. *)
(***************************************************************************)

\* What a request is at when its session has read the row, and when it makes the row;
\* when it holds the row that it has read; and where a server is between the drop of its
\* first configuration and the insertion of its second.
Sessions == {"pending", "rotated", "reverted", "replace", "recache", "variables"}
Creators == {"created", "encrypted", "user"}
Reading == {"pending", "rotated", "replace", "encrypted"}
Encrypting == {"drop", "insert", "read", "encrypt", "readRows", "encryptRows", "redrop", "reinsert"}

WellText(t) == t.iv <=> t.by # NoKey

WellRow(w) ==
    /\ w \in RowType
    /\ w # Absent => w.secret.key # None
    /\ WellText(w.secret)
    /\ w.pending.by # NoKey => w.pending.iv
    /\ w.pending.iv => w.secret.iv
    /\ w.pending.key = None => w.pending = NoText

ConfigFits == config.hash = NoKey => config = NoConfig

RowFits ==
    /\ WellRow(row)
    /\ user => row # Absent
    /\ ~user => row.pending = NoText

TablesFit ==
    /\ \A t \in TableNames : \A x \in tables[t] : WellText(x.text)
    /\ \A x \in tables["variables"] : x.id = x.text.key

TaskFits(r) ==
    LET t == task[r]
        w == task[r].row
    IN  /\ t.pc \notin {"idle", "done"} => t.at \in Servers /\ server[t.at].pc = "serving" /\ row # Absent
        /\ t.pc \in Sessions => user
        /\ t.pc \in Creators => ~user /\ \A q \in Requests : task[q].pc \in Creators => q = r
        /\ t.pc \in Reading => /\ WellRow(w) /\ w # Absent
                               /\ w.secret.iv => w.secret.by = server[t.at].key
        /\ t.pc = "rotated" => w.pending.by = NoKey
        /\ t.pc = "replace" => /\ w.pending.iv => w.pending.by # NoKey /\ w.pending.by = server[t.at].key
                               /\ w.secret.iv /\ w.pending.key # None => w.pending.iv
        /\ t.pc = "encrypted" => w.pending = NoText

TasksFit == \A r \in Requests : TaskFits(r)

ServerFits(p) ==
    LET s == server[p] IN
    /\ s.pc \in Encrypting => s.key # NoKey
    /\ s.pc # "serving" \/ row = Absent => s.cache = {}
    /\ s.pc = "encrypt" => /\ WellRow(s.row) /\ s.row # Absent /\ ~s.row.secret.iv /\ row # Absent
                           /\ ~user => s.row.pending = NoText
    /\ s.pc = "encryptRows" /\ s.table = 2 => \A x \in s.rows : x.id = x.text.key

ServersFit == \A p \in Servers : ServerFits(p)

CoreInv == Types /\ ConfigFits /\ RowFits /\ TablesFit /\ TasksFit /\ ServersFit

LEMMA CoreHolds ==
    ASSUME CoreInv
    PROVE  Types /\ ConfigFits /\ RowFits /\ TablesFit /\ TasksFit /\ ServersFit
BY DEF CoreInv

LEMMA AbsentFields ==
    /\ Absent.secret = NoText /\ Absent.pending = NoText /\ Absent.setting = 0
    /\ Inserted.secret = Text(0, NoKey) /\ Inserted.pending = NoText /\ Inserted.setting = 0
    /\ NoText.key = None /\ NoText.by = NoKey /\ NoText.iv = FALSE
    /\ NoConfig.hash = NoKey /\ NoConfig.complete = FALSE
BY DEF Absent, Inserted, NoText, Text, NoConfig

LEMMA TextFields ==
    \A key, by : Text(key, by).key = key /\ Text(key, by).by = by /\ (Text(key, by).iv <=> by # NoKey)
BY DEF Text

LEMMA AbsentWell == WellRow(Absent) /\ WellRow(Inserted) /\ Inserted # Absent
<1>1. 0 # None
  BY DEF None
<1> QED BY <1>1, RowTypes, AbsentFields, TextFields DEF WellRow, WellText

LEMMA NoneNotKey == None \notin Keys
BY DEF None, Keys

LEMMA WellPresent ==
    ASSUME NEW w, WellRow(w)
    PROVE  w # Absent <=> w.secret.key # None
BY AbsentFields DEF WellRow

\* A row whose secret no other key encrypted is a row still when it has been encrypted.
LEMMA EncryptWell ==
    ASSUME NEW k \in EncryptionKeys \cup {NoKey}, NEW w, WellRow(w)
    PROVE  LET e == EncryptEnvironment(k, w) IN
           /\ w # Absent => WellRow(e) /\ e # Absent
           /\ e.secret.key = w.secret.key /\ e.pending.key = w.pending.key
           /\ e.secret.by = IF k = NoKey THEN w.secret.by ELSE k
           /\ e.secret.iv <=> e.secret.by # NoKey
           /\ e.pending.by = IF k = NoKey \/ w.pending.key = None THEN w.pending.by ELSE k
           /\ w.pending = NoText => e.pending = NoText
           /\ e.setting = w.setting /\ e \in RowType
<1> DEFINE e == EncryptEnvironment(k, w)
<1>1. w \in RowType
  BY DEF WellRow
<1>2. /\ e \in RowType
      /\ e.setting = w.setting
      /\ e.secret = IF k = NoKey THEN w.secret ELSE Text(w.secret.key, k)
      /\ e.pending = IF k = NoKey \/ w.pending.key = None THEN w.pending ELSE Text(w.pending.key, k)
  BY <1>1, EncryptTypes
<1> HIDE DEF e
<1>3. CASE k = NoKey
  <2>1. e.secret = w.secret /\ e.pending = w.pending
    BY <1>2, <1>3
  <2>2. w # Absent => WellRow(e) /\ e # Absent
    BY <1>2, <2>1, AbsentFields DEF WellRow
  <2> QED BY <1>2, <1>3, <2>1, <2>2 DEF e, WellRow, WellText
<1>4. CASE k # NoKey
  <2>1. /\ e.secret.key = w.secret.key /\ e.secret.by = k /\ e.secret.iv = TRUE
        /\ e.pending.key = w.pending.key
        /\ w.pending.key = None => e.pending = w.pending
        /\ w.pending.key # None => e.pending.by = k /\ e.pending.iv = TRUE
    BY <1>2, <1>4, TextFields
  <2>2. w # Absent => WellRow(e) /\ e # Absent
    BY <1>2, <1>4, <2>1, AbsentFields DEF WellRow, WellText
  <2> QED BY <1>2, <1>4, <2>1, <2>2, AbsentFields DEF e
<1> QED BY <1>3, <1>4

LEMMA PendWell ==
    ASSUME NEW w, WellRow(w), w # Absent, NEW r \in Requests
    PROVE  WellRow(Pend(w, r)) /\ Pend(w, r) # Absent
<1>1. w \in RowType /\ r # None
  BY RequestTypes DEF WellRow
<1> QED BY <1>1, PendTypes, AbsentFields DEF WellRow

LEMMA ConfiguredWell ==
    ASSUME NEW w, WellRow(w), w # Absent, NEW r \in Requests
    PROVE  WellRow(Configured(w, r)) /\ Configured(w, r) # Absent
<1>1. w \in RowType
  BY DEF WellRow
<1> QED BY <1>1, ConfiguredTypes, AbsentFields DEF WellRow

\* The requests' steps are of a request that a server which serves has taken.
LEMMA StepAt ==
    ASSUME CoreInv, NEW r \in Requests, Step(r)
    PROVE  /\ task[r].at \in Servers /\ server[task[r].at].pc = "serving" /\ row # Absent
           /\ row.secret.key # None
<1>1. task[r].pc \notin {"idle", "done"}
  BY DEF Step, WritePending, WriteRotated, RevertSecretKey, ReplaceKey,
         AddToEnvironmentSecretCache, InsertVariables, ReadCreated, WriteCreated, CreateUser, At
<1>2. TaskFits(r) /\ WellRow(row)
  BY DEF CoreInv, TasksFit, RowFits
<1> QED BY <1>1, <1>2 DEF TaskFits, WellRow

LEMMA EncryptedPresent ==
    ASSUME CoreInv, NEW r \in Requests, WriteCreated(r)
    PROVE  task[r].row.secret.key # None
<1>1. task[r].pc = "encrypted" /\ TaskFits(r)
  BY DEF WriteCreated, At, CoreInv, TasksFit
<1> QED BY <1>1, WellPresent DEF TaskFits, Reading

LEMMA StepTypes ==
    ASSUME CoreInv, EnvironmentsNext
    PROVE  Types'
<1> USE DEF Types
<1>1. ASSUME NEW p \in Servers, NEW k \in EncryptionKeys \cup {NoKey}, Start(p, k)
      PROVE  Types'
  BY <1>1, StartDoes, CoreHolds DEF Turned, Reasons
<1>2. ASSUME NEW p \in Servers, EncryptDatabaseIfNeeded(p)
      PROVE  Types'
  BY <1>2, EncryptDatabaseIfNeededDoes, CoreHolds DEF Turned
<1>3. ASSUME NEW p \in Servers, DropConfig(p)
      PROVE  Types'
  <2>1. \E b \in BOOLEAN : config' = [hash |-> NoKey, complete |-> b]
    BY <1>3, DropConfigDoes, CoreHolds DEF NoConfig
  <2>2. NoKey \in EncryptionKeys \cup {NoKey}
    BY CoreHolds DEF ServerType
  <2>3. config' \in [hash : EncryptionKeys \cup {NoKey}, complete : BOOLEAN]
    BY <2>1, <2>2
  <2> QED BY <2>3, <1>3, DropConfigDoes, CoreHolds DEF Turned
<1>4. ASSUME NEW p \in Servers, InsertConfig(p)
      PROVE  Types'
  <2>1. \E b \in BOOLEAN : config' = [hash |-> server[p].key, complete |-> b]
    BY <1>4, InsertConfigDoes, CoreHolds DEF NoConfig
  <2>2. server[p].key \in EncryptionKeys \cup {NoKey}
    BY CoreHolds DEF ServerType
  <2>3. config' \in [hash : EncryptionKeys \cup {NoKey}, complete : BOOLEAN]
    BY <2>1, <2>2
  <2> QED BY <2>3, <1>4, InsertConfigDoes, CoreHolds DEF Turned
<1>5. ASSUME NEW p \in Servers, ReadEnvironments(p)
      PROVE  Types'
  BY <1>5, ReadEnvironmentsDoes, CoreHolds DEF Turned, Moved, Cached, NextRowTurned, DoubtedTo,
     Overlapping, Reasons, ServerType, TaskType
<1>6. ASSUME NEW p \in Servers, EncryptDatabase(p)
      PROVE  Types'
  <2>1. row' \in RowType
    BY <1>6, EncryptDatabaseDoes, CoreHolds, EncryptTypes DEF ServerType, TaskType
  <2>2. server' \in [Servers -> ServerType] /\ task' \in [Requests -> TaskType]
    BY <1>6, EncryptDatabaseDoes, CoreHolds, EncryptTypes DEF Turned, Cached, Moved
  <2>3. reasons' \subseteq Reasons
    BY <1>6, EncryptDatabaseDoes, CoreHolds, EncryptTypes DEF Overlapping, Reasons
  <2>4. /\ config' \in [hash : EncryptionKeys \cup {NoKey}, complete : BOOLEAN]
        /\ user' \in BOOLEAN
        /\ tables' \in [TableNames -> SUBSET TableRows]
        /\ starts' \in 0..MaxStarts /\ stops' \in 0..MaxStops
        /\ wanted' \in [setting : Settings, rows : [TableNames -> SUBSET Keys]]
        /\ doubts' \in [Servers -> SUBSET Doubts]
    BY <1>6, EncryptDatabaseDoes, CoreHolds, EncryptTypes DEF DoubtedTo
  <2> QED BY <2>1, <2>2, <2>3, <2>4
<1>7. ASSUME NEW p \in Servers, ReadRows(p)
      PROVE  Types'
  BY <1>7, ReadRowsDoes, CoreHolds DEF Turned, Moved, Cached, NextRowTurned, DoubtedTo,
     Overlapping, Reasons, ServerType, TaskType
<1>8. ASSUME NEW p \in Servers, NEW x \in server[p].rows, EncryptRow(p, x)
      PROVE  Types'
  <2>1. row' \in RowType
    BY <1>8, EncryptRowDoes, CoreHolds DEF ServerType, TaskType
  <2>2. server' \in [Servers -> ServerType] /\ task' \in [Requests -> TaskType]
    <3>1. server' \in [Servers -> ServerType]
      <4>1. NextRowTurned(p, server[p].rows \ {x})
        BY <1>8, EncryptRowDoes, CoreHolds
      <4> QED BY <4>1 DEF NextRowTurned, Turned
    <3>2. task' \in [Requests -> TaskType]
      <4>1. task' = task
        BY <1>8, EncryptRowDoes, CoreHolds
      <4> QED BY <4>1, CoreHolds
    <3> QED BY <3>1, <3>2
  <2>3. reasons' \subseteq Reasons
    BY <1>8, EncryptRowDoes, CoreHolds DEF Overlapping, Reasons
  <2>4. /\ config' \in [hash : EncryptionKeys \cup {NoKey}, complete : BOOLEAN]
        /\ user' \in BOOLEAN
        /\ tables' \in [TableNames -> SUBSET TableRows]
        /\ starts' \in 0..MaxStarts /\ stops' \in 0..MaxStops
        /\ wanted' \in [setting : Settings, rows : [TableNames -> SUBSET Keys]]
        /\ doubts' \in [Servers -> SUBSET Doubts]
    BY <1>8, EncryptRowDoes, CoreHolds DEF DoubtedTo
  <2> QED BY <2>1, <2>2, <2>3, <2>4
<1>9. ASSUME NEW p \in Servers, CacheSecrets(p)
      PROVE  Types'
  BY <1>9, CacheSecretsDoes, CoreHolds, WellPresent DEF Turned, Moved, Cached, NextRowTurned,
     DoubtedTo, Overlapping, Reasons, ServerType, TaskType, RowFits
<1>10. ASSUME NEW p \in Servers, Stop(p)
       PROVE  Types'
  BY <1>10, StopDoes, CoreHolds DEF Turned, Moved, Cached, NextRowTurned, DoubtedTo, Overlapping,
     Reasons, ServerType, TaskType
<1>11. ASSUME NEW r \in Requests, NEW p \in Servers, RotateKey(r, p)
       PROVE  Types'
  BY <1>11, RotateKeyDoes, CoreHolds DEF Turned, Moved, Cached, NextRowTurned, DoubtedTo,
     Overlapping, Reasons, ServerType, TaskType
<1>12. ASSUME NEW r \in Requests, NEW p \in Servers, RevertKey(r, p)
       PROVE  Types'
  BY <1>12, RevertKeyDoes, CoreHolds DEF Turned, Moved, Cached, NextRowTurned, DoubtedTo,
     Overlapping, Reasons, ServerType, TaskType
<1>13. ASSUME NEW r \in Requests, NEW p \in Servers, ActivateKey(r, p)
       PROVE  Types'
  BY <1>13, ActivateKeyDoes, CoreHolds DEF Turned, Moved, Cached, NextRowTurned, DoubtedTo,
     Overlapping, Reasons, ServerType, TaskType
<1>14. ASSUME NEW r \in Requests, NEW p \in Servers, UpdateSetting(r, p)
       PROVE  Types'
  <2>1. row' \in RowType
    BY <1>14, UpdateSettingDoes, CoreHolds, ConfiguredTypes DEF ServerType, TaskType
  <2>2. server' \in [Servers -> ServerType] /\ task' \in [Requests -> TaskType]
    BY <1>14, UpdateSettingDoes, CoreHolds, ConfiguredTypes DEF Turned, Cached, Moved
  <2>3. reasons' \subseteq Reasons
    BY <1>14, UpdateSettingDoes, CoreHolds, ConfiguredTypes DEF Overlapping, Reasons
  <2>4. /\ config' \in [hash : EncryptionKeys \cup {NoKey}, complete : BOOLEAN]
        /\ user' \in BOOLEAN
        /\ tables' \in [TableNames -> SUBSET TableRows]
        /\ starts' \in 0..MaxStarts /\ stops' \in 0..MaxStops
        /\ wanted' \in [setting : Settings, rows : [TableNames -> SUBSET Keys]]
        /\ doubts' \in [Servers -> SUBSET Doubts]
    BY <1>14, UpdateSettingDoes, CoreHolds, ConfiguredTypes DEF DoubtedTo
  <2> QED BY <2>1, <2>2, <2>3, <2>4
<1>15. ASSUME NEW r \in Requests, NEW p \in Servers, UpdateEnvironmentVariables(r, p)
       PROVE  Types'
  BY SMTT(60), <1>15, UpdateEnvironmentVariablesDoes, CoreHolds DEF Turned, Moved, Cached,
     NextRowTurned, DoubtedTo, Overlapping, Reasons, ServerType, TaskType
<1>16. ASSUME NEW r \in Requests, NEW p \in Servers, SaveCredentials(r, p)
       PROVE  Types'
  BY <1>16, SaveCredentialsDoes, CoreHolds DEF Turned, Moved, Cached, NextRowTurned, DoubtedTo,
     Overlapping, Reasons, ServerType, TaskType
<1>17. ASSUME NEW r \in Requests, NEW p \in Servers, CreateEnvironment(r, p)
       PROVE  Types'
  BY SMTT(60), <1>17, CreateEnvironmentDoes, CoreHolds, RowTypes DEF Turned, Moved, Cached,
     NextRowTurned, DoubtedTo, Overlapping, Reasons, ServerType, TaskType
<1>18. ASSUME NEW r \in Requests, NEW p \in Servers, task[r].at = p, WritePending(r)
       PROVE  Types'
  <2>1. row' \in RowType
    BY <1>18, WritePendingDoes, CoreHolds, PendTypes DEF ServerType, TaskType
  <2>2. server' \in [Servers -> ServerType] /\ task' \in [Requests -> TaskType]
    BY <1>18, WritePendingDoes, CoreHolds, PendTypes DEF Turned, Cached, Moved
  <2>3. reasons' \subseteq Reasons
    BY ZenonT(60), <1>18, WritePendingDoes, CoreHolds, PendTypes DEF Overlapping, Reasons
  <2>4. /\ config' \in [hash : EncryptionKeys \cup {NoKey}, complete : BOOLEAN]
        /\ user' \in BOOLEAN
        /\ tables' \in [TableNames -> SUBSET TableRows]
        /\ starts' \in 0..MaxStarts /\ stops' \in 0..MaxStops
        /\ wanted' \in [setting : Settings, rows : [TableNames -> SUBSET Keys]]
        /\ doubts' \in [Servers -> SUBSET Doubts]
    BY <1>18, WritePendingDoes, CoreHolds, PendTypes DEF DoubtedTo
  <2> QED BY <2>1, <2>2, <2>3, <2>4
<1>19. ASSUME NEW r \in Requests, NEW p \in Servers, task[r].at = p, WriteRotated(r)
       PROVE  Types'
  BY SMTT(60), <1>19, WriteRotatedDoes, CoreHolds, EncryptTypes DEF Turned, Moved, Cached,
     NextRowTurned, DoubtedTo, Overlapping, Reasons, ServerType, TaskType, Key
<1>20. ASSUME NEW r \in Requests, NEW p \in Servers, task[r].at = p, RevertSecretKey(r)
       PROVE  Types'
  BY <1>20, RevertSecretKeyDoes, CoreHolds DEF Turned, Moved, Cached, NextRowTurned, DoubtedTo,
     Overlapping, Reasons, ServerType, TaskType
<1>21. ASSUME NEW r \in Requests, NEW p \in Servers, task[r].at = p, ReplaceKey(r)
       PROVE  Types'
  <2>1. row' \in RowType
    BY <1>21, ReplaceKeyDoes, CoreHolds DEF ServerType, TaskType
  <2>2. server' \in [Servers -> ServerType] /\ task' \in [Requests -> TaskType]
    BY <1>21, ReplaceKeyDoes, CoreHolds DEF Turned, Cached, Moved
  <2>3. reasons' \subseteq Reasons
    BY <1>21, ReplaceKeyDoes, CoreHolds DEF Overlapping, Reasons
  <2>4. /\ config' \in [hash : EncryptionKeys \cup {NoKey}, complete : BOOLEAN]
        /\ user' \in BOOLEAN
        /\ tables' \in [TableNames -> SUBSET TableRows]
        /\ starts' \in 0..MaxStarts /\ stops' \in 0..MaxStops
        /\ wanted' \in [setting : Settings, rows : [TableNames -> SUBSET Keys]]
        /\ doubts' \in [Servers -> SUBSET Doubts]
    BY <1>21, ReplaceKeyDoes, CoreHolds DEF DoubtedTo
  <2> QED BY <2>1, <2>2, <2>3, <2>4
<1>22. ASSUME NEW r \in Requests, NEW p \in Servers, task[r].at = p, AddToEnvironmentSecretCache(r)
       PROVE  Types'
  <2>0. row.secret.key # None
    BY <1>22, StepAt DEF Step
  <2>1. row' \in RowType
    BY <1>22, AddToEnvironmentSecretCacheDoes, CoreHolds, <2>0 DEF ServerType, TaskType
  <2>2. server' \in [Servers -> ServerType] /\ task' \in [Requests -> TaskType]
    BY <1>22, AddToEnvironmentSecretCacheDoes, CoreHolds, <2>0 DEF Turned, Cached, Moved
  <2>3. reasons' \subseteq Reasons
    BY <1>22, AddToEnvironmentSecretCacheDoes, CoreHolds, <2>0 DEF Overlapping, Reasons
  <2>4. /\ config' \in [hash : EncryptionKeys \cup {NoKey}, complete : BOOLEAN]
        /\ user' \in BOOLEAN
        /\ tables' \in [TableNames -> SUBSET TableRows]
        /\ starts' \in 0..MaxStarts /\ stops' \in 0..MaxStops
        /\ wanted' \in [setting : Settings, rows : [TableNames -> SUBSET Keys]]
        /\ doubts' \in [Servers -> SUBSET Doubts]
    BY <1>22, AddToEnvironmentSecretCacheDoes, CoreHolds, <2>0 DEF DoubtedTo
  <2> QED BY <2>1, <2>2, <2>3, <2>4
<1>23. ASSUME NEW r \in Requests, NEW p \in Servers, task[r].at = p, InsertVariables(r)
       PROVE  Types'
  BY <1>23, InsertVariablesDoes, CoreHolds DEF Turned, Moved, Cached, NextRowTurned, DoubtedTo,
     Overlapping, Reasons, ServerType, TaskType
<1>24. ASSUME NEW r \in Requests, NEW p \in Servers, task[r].at = p, ReadCreated(r)
       PROVE  Types'
  BY <1>24, ReadCreatedDoes, CoreHolds DEF Turned, Moved, Cached, NextRowTurned, DoubtedTo,
     Overlapping, Reasons, ServerType, TaskType
<1>25. ASSUME NEW r \in Requests, NEW p \in Servers, task[r].at = p, WriteCreated(r)
       PROVE  Types'
  <2>0. task[r].row.secret.key # None /\ task[r].row \in RowType /\ Key(r) \in EncryptionKeys \cup {NoKey}
    BY <1>25, EncryptedPresent, CoreHolds DEF TaskType, ServerType, Key
  <2>1. row' = EncryptEnvironment(Key(r), task[r].row)
    BY <1>25 DEF WriteCreated
  <2>2. row' \in RowType
    BY <2>0, <2>1, EncryptTypes
  <2>3. server' \in [Servers -> ServerType] /\ task' \in [Requests -> TaskType]
    BY <1>25, WriteCreatedDoes, CoreHolds, <2>0 DEF Turned, Cached, Moved
  <2>4. reasons' \subseteq Reasons
    BY <1>25, WriteCreatedDoes, CoreHolds, <2>0 DEF Overlapping, Reasons
  <2> QED BY <2>0, <2>2, <2>3, <2>4, <1>25, WriteCreatedDoes, CoreHolds
<1>26. ASSUME NEW r \in Requests, NEW p \in Servers, task[r].at = p, CreateUser(r)
       PROVE  Types'
  BY ZenonT(60), <1>26, CreateUserDoes, CoreHolds DEF Turned, Moved, Cached, NextRowTurned,
     DoubtedTo, Overlapping, Reasons, ServerType, TaskType
<1> QED BY <1>1, <1>2, <1>3, <1>4, <1>5, <1>6, <1>7, <1>8, <1>9, <1>10, <1>11, <1>12, <1>13,
           <1>14, <1>15, <1>16, <1>17, <1>18, <1>19, <1>20, <1>21, <1>22, <1>23, <1>24, <1>25,
           <1>26, StepAt DEF EnvironmentsNext, Boot, Request, Step


LEMMA PresentKey == ASSUME CoreInv, row # Absent PROVE row.secret.key # None
BY DEF CoreInv, RowFits, WellRow

LEMMA PresentAt ==
    ASSUME CoreInv, NEW r \in Requests, task[r].pc \notin {"idle", "done"}
    PROVE  /\ task[r].at \in Servers /\ server[task[r].at].pc = "serving" /\ row # Absent
           /\ row.secret.key # None
BY PresentKey DEF CoreInv, TasksFit, TaskFits

LEMMA StepConfigFits ==
    ASSUME CoreInv, EnvironmentsNext
    PROVE  ConfigFits'
<1> USE DEF ConfigFits
<1>1. ASSUME NEW p \in Servers, NEW k \in EncryptionKeys \cup {NoKey}, Start(p, k)
      PROVE  ConfigFits'
  BY <1>1, StartDoes, CoreHolds
<1>2. ASSUME NEW p \in Servers, EncryptDatabaseIfNeeded(p)
      PROVE  ConfigFits'
  BY <1>2, EncryptDatabaseIfNeededDoes, CoreHolds
<1>3. ASSUME NEW p \in Servers, DropConfig(p)
      PROVE  ConfigFits'
  BY <1>3, DropConfigDoes, CoreHolds
<1>4. ASSUME NEW p \in Servers, InsertConfig(p)
      PROVE  ConfigFits'
  <2>1. server[p].key # NoKey
    BY <1>4, InsertConfigDoes, CoreHolds DEF ServersFit, ServerFits, Encrypting
  <2> QED BY <2>1, <1>4, InsertConfigDoes, CoreHolds
<1>5. ASSUME NEW p \in Servers, ReadEnvironments(p)
      PROVE  ConfigFits'
  BY <1>5, ReadEnvironmentsDoes, CoreHolds
<1>6. ASSUME NEW p \in Servers, EncryptDatabase(p)
      PROVE  ConfigFits'
  BY <1>6, EncryptDatabaseDoes, CoreHolds
<1>7. ASSUME NEW p \in Servers, ReadRows(p)
      PROVE  ConfigFits'
  BY <1>7, ReadRowsDoes, CoreHolds
<1>8. ASSUME NEW p \in Servers, NEW x \in server[p].rows, EncryptRow(p, x)
      PROVE  ConfigFits'
  BY <1>8, EncryptRowDoes, CoreHolds
<1>9. ASSUME NEW p \in Servers, CacheSecrets(p)
      PROVE  ConfigFits'
  BY <1>9, CacheSecretsDoes, CoreHolds, PresentKey
<1>10. ASSUME NEW p \in Servers, Stop(p)
       PROVE  ConfigFits'
  BY <1>10, StopDoes, CoreHolds
<1>11. ASSUME NEW r \in Requests, NEW p \in Servers, RotateKey(r, p)
       PROVE  ConfigFits'
  BY <1>11, RotateKeyDoes, CoreHolds
<1>12. ASSUME NEW r \in Requests, NEW p \in Servers, RevertKey(r, p)
       PROVE  ConfigFits'
  BY <1>12, RevertKeyDoes, CoreHolds
<1>13. ASSUME NEW r \in Requests, NEW p \in Servers, ActivateKey(r, p)
       PROVE  ConfigFits'
  BY <1>13, ActivateKeyDoes, CoreHolds
<1>14. ASSUME NEW r \in Requests, NEW p \in Servers, UpdateSetting(r, p)
       PROVE  ConfigFits'
  BY <1>14, UpdateSettingDoes, CoreHolds
<1>15. ASSUME NEW r \in Requests, NEW p \in Servers, UpdateEnvironmentVariables(r, p)
       PROVE  ConfigFits'
  BY <1>15, UpdateEnvironmentVariablesDoes, CoreHolds
<1>16. ASSUME NEW r \in Requests, NEW p \in Servers, SaveCredentials(r, p)
       PROVE  ConfigFits'
  BY <1>16, SaveCredentialsDoes, CoreHolds
<1>17. ASSUME NEW r \in Requests, NEW p \in Servers, CreateEnvironment(r, p)
       PROVE  ConfigFits'
  BY <1>17, CreateEnvironmentDoes, CoreHolds
<1>18. ASSUME NEW r \in Requests, NEW p \in Servers, task[r].at = p, WritePending(r)
       PROVE  ConfigFits'
  BY <1>18, WritePendingDoes, CoreHolds
<1>19. ASSUME NEW r \in Requests, NEW p \in Servers, task[r].at = p, WriteRotated(r)
       PROVE  ConfigFits'
  BY <1>19, WriteRotatedDoes, CoreHolds
<1>20. ASSUME NEW r \in Requests, NEW p \in Servers, task[r].at = p, RevertSecretKey(r)
       PROVE  ConfigFits'
  BY <1>20, RevertSecretKeyDoes, CoreHolds
<1>21. ASSUME NEW r \in Requests, NEW p \in Servers, task[r].at = p, ReplaceKey(r)
       PROVE  ConfigFits'
  BY <1>21, ReplaceKeyDoes, CoreHolds
<1>22. ASSUME NEW r \in Requests, NEW p \in Servers, task[r].at = p, AddToEnvironmentSecretCache(r)
       PROVE  ConfigFits'
  <2>1. row.secret.key # None
    BY <1>22, StepAt DEF Step
  <2> QED BY <2>1, <1>22, AddToEnvironmentSecretCacheDoes, CoreHolds
<1>23. ASSUME NEW r \in Requests, NEW p \in Servers, task[r].at = p, InsertVariables(r)
       PROVE  ConfigFits'
  BY <1>23, InsertVariablesDoes, CoreHolds
<1>24. ASSUME NEW r \in Requests, NEW p \in Servers, task[r].at = p, ReadCreated(r)
       PROVE  ConfigFits'
  BY <1>24, ReadCreatedDoes, CoreHolds
<1>25. ASSUME NEW r \in Requests, NEW p \in Servers, task[r].at = p, WriteCreated(r)
       PROVE  ConfigFits'
  BY <1>25, WriteCreatedDoes, CoreHolds, EncryptedPresent
<1>26. ASSUME NEW r \in Requests, NEW p \in Servers, task[r].at = p, CreateUser(r)
       PROVE  ConfigFits'
  BY <1>26, CreateUserDoes, CoreHolds
<1> QED BY <1>1, <1>2, <1>3, <1>4, <1>5, <1>6, <1>7, <1>8, <1>9, <1>10, <1>11, <1>12, <1>13,
           <1>14, <1>15, <1>16, <1>17, <1>18, <1>19, <1>20, <1>21, <1>22, <1>23, <1>24, <1>25,
           <1>26, StepAt DEF EnvironmentsNext, Boot, Request, Step

LEMMA StepRowFits ==
    ASSUME CoreInv, EnvironmentsNext
    PROVE  RowFits'
<1> USE DEF RowFits
<1>1. ASSUME NEW p \in Servers, NEW k \in EncryptionKeys \cup {NoKey}, Start(p, k)
      PROVE  RowFits'
  BY <1>1, StartDoes, CoreHolds
<1>2. ASSUME NEW p \in Servers, EncryptDatabaseIfNeeded(p)
      PROVE  RowFits'
  BY <1>2, EncryptDatabaseIfNeededDoes, CoreHolds
<1>3. ASSUME NEW p \in Servers, DropConfig(p)
      PROVE  RowFits'
  BY <1>3, DropConfigDoes, CoreHolds
<1>4. ASSUME NEW p \in Servers, InsertConfig(p)
      PROVE  RowFits'
  BY <1>4, InsertConfigDoes, CoreHolds
<1>5. ASSUME NEW p \in Servers, ReadEnvironments(p)
      PROVE  RowFits'
  BY <1>5, ReadEnvironmentsDoes, CoreHolds
<1>6. ASSUME NEW p \in Servers, EncryptDatabase(p)
      PROVE  RowFits'
  <2>1. /\ WellRow(server[p].row) /\ server[p].row # Absent /\ row # Absent
        /\ server[p].key \in EncryptionKeys \cup {NoKey}
        /\ ~user => server[p].row.pending = NoText
    BY <1>6, EncryptDatabaseDoes, CoreHolds DEF ServersFit, ServerFits, Types, ServerType
  <2> QED BY <2>1, <1>6, EncryptDatabaseDoes, EncryptWell, CoreHolds
<1>7. ASSUME NEW p \in Servers, ReadRows(p)
      PROVE  RowFits'
  BY <1>7, ReadRowsDoes, CoreHolds
<1>8. ASSUME NEW p \in Servers, NEW x \in server[p].rows, EncryptRow(p, x)
      PROVE  RowFits'
  BY <1>8, EncryptRowDoes, CoreHolds
<1>9. ASSUME NEW p \in Servers, CacheSecrets(p)
      PROVE  RowFits'
  BY <1>9, CacheSecretsDoes, CoreHolds, PresentKey
<1>10. ASSUME NEW p \in Servers, Stop(p)
       PROVE  RowFits'
  BY <1>10, StopDoes, CoreHolds
<1>11. ASSUME NEW r \in Requests, NEW p \in Servers, RotateKey(r, p)
       PROVE  RowFits'
  BY <1>11, RotateKeyDoes, CoreHolds
<1>12. ASSUME NEW r \in Requests, NEW p \in Servers, RevertKey(r, p)
       PROVE  RowFits'
  BY <1>12, RevertKeyDoes, CoreHolds
<1>13. ASSUME NEW r \in Requests, NEW p \in Servers, ActivateKey(r, p)
       PROVE  RowFits'
  BY <1>13, ActivateKeyDoes, CoreHolds
<1>14. ASSUME NEW r \in Requests, NEW p \in Servers, UpdateSetting(r, p)
       PROVE  RowFits'
  BY <1>14, UpdateSettingDoes, ConfiguredWell, ConfiguredTypes, CoreHolds DEF WellRow
<1>15. ASSUME NEW r \in Requests, NEW p \in Servers, UpdateEnvironmentVariables(r, p)
       PROVE  RowFits'
  BY <1>15, UpdateEnvironmentVariablesDoes, CoreHolds
<1>16. ASSUME NEW r \in Requests, NEW p \in Servers, SaveCredentials(r, p)
       PROVE  RowFits'
  BY <1>16, SaveCredentialsDoes, CoreHolds
<1>17. ASSUME NEW r \in Requests, NEW p \in Servers, CreateEnvironment(r, p)
       PROVE  RowFits'
  <2>1. ~user
    BY <1>17, CreateEnvironmentDoes, CoreHolds
  <2> QED BY <2>1, <1>17, CreateEnvironmentDoes, AbsentWell, AbsentFields, CoreHolds
<1>18. ASSUME NEW r \in Requests, NEW p \in Servers, task[r].at = p, WritePending(r)
       PROVE  RowFits'
  <2>1. row # Absent /\ user
    BY <1>18, WritePendingDoes, CoreHolds DEF TasksFit, TaskFits, Sessions
  <2> QED BY <2>1, <1>18, WritePendingDoes, PendWell, CoreHolds
<1>19. ASSUME NEW r \in Requests, NEW p \in Servers, task[r].at = p, WriteRotated(r)
       PROVE  RowFits'
  <2>1. /\ WellRow(task[r].row) /\ task[r].row # Absent /\ user
        /\ Key(r) \in EncryptionKeys \cup {NoKey}
    BY <1>19, WriteRotatedDoes, CoreHolds DEF TasksFit, TaskFits, Sessions, Reading, Key,
       Types, ServerType
  <2>2. row' = EncryptEnvironment(Key(r), task[r].row) /\ UNCHANGED user
    BY <1>19, WriteRotatedDoes, CoreHolds
  <2>3. WellRow(row') /\ row' # Absent
    BY <2>1, <2>2, EncryptWell
  <2> QED BY <2>1, <2>2, <2>3
<1>20. ASSUME NEW r \in Requests, NEW p \in Servers, task[r].at = p, RevertSecretKey(r)
       PROVE  RowFits'
  <2>1. row # Absent /\ user
    BY <1>20, RevertSecretKeyDoes, CoreHolds DEF TasksFit, TaskFits, Sessions
  <2> QED BY <2>1, <1>20, RevertSecretKeyDoes, CoreHolds, AbsentFields DEF WellRow
<1>21. ASSUME NEW r \in Requests, NEW p \in Servers, task[r].at = p, ReplaceKey(r)
       PROVE  RowFits'
  <2>1. row # Absent /\ user /\ TaskFits(r) /\ WellRow(task[r].row)
    BY <1>21, ReplaceKeyDoes, CoreHolds DEF TasksFit, TaskFits, Sessions, Reading
  <2>2. CASE task[r].row.pending.key = None
    BY <2>2, <1>21, ReplaceKeyDoes, CoreHolds
  <2>3. CASE task[r].row.pending.key # None
    <3>1. /\ row' \in RowType /\ row'.secret = task[r].row.pending /\ row'.pending = NoText
          /\ task[r].pc = "replace" /\ UNCHANGED user
      BY <2>3, <1>21, ReplaceKeyDoes, CoreHolds
    <3>2. WellText(task[r].row.pending)
      BY <2>1, <2>3, <3>1 DEF TaskFits, WellText, WellRow
    <3> QED BY <2>1, <2>3, <3>1, <3>2, AbsentFields DEF WellRow
  <2> QED BY <2>2, <2>3
<1>22. ASSUME NEW r \in Requests, NEW p \in Servers, task[r].at = p, AddToEnvironmentSecretCache(r)
       PROVE  RowFits'
  <2>1. row.secret.key # None
    BY <1>22, StepAt DEF Step
  <2> QED BY <2>1, <1>22, AddToEnvironmentSecretCacheDoes, CoreHolds
<1>23. ASSUME NEW r \in Requests, NEW p \in Servers, task[r].at = p, InsertVariables(r)
       PROVE  RowFits'
  BY <1>23, InsertVariablesDoes, CoreHolds
<1>24. ASSUME NEW r \in Requests, NEW p \in Servers, task[r].at = p, ReadCreated(r)
       PROVE  RowFits'
  BY <1>24, ReadCreatedDoes, CoreHolds
<1>25. ASSUME NEW r \in Requests, NEW p \in Servers, task[r].at = p, WriteCreated(r)
       PROVE  RowFits'
  <2>1. /\ WellRow(task[r].row) /\ task[r].row # Absent /\ task[r].row.pending = NoText
        /\ Key(r) \in EncryptionKeys \cup {NoKey}
    BY <1>25, WriteCreatedDoes, EncryptedPresent, CoreHolds
       DEF TasksFit, TaskFits, Reading, Key, Types, ServerType
  <2>2. row' = EncryptEnvironment(Key(r), task[r].row) /\ UNCHANGED user
    BY <1>25, WriteCreatedDoes, EncryptedPresent, CoreHolds
  <2>3. WellRow(row') /\ row' # Absent /\ row'.pending = NoText
    BY <2>1, <2>2, EncryptWell
  <2> QED BY <2>1, <2>2, <2>3
<1>26. ASSUME NEW r \in Requests, NEW p \in Servers, task[r].at = p, CreateUser(r)
       PROVE  RowFits'
  BY <1>26, CreateUserDoes, PresentAt, CoreHolds
<1> QED BY <1>1, <1>2, <1>3, <1>4, <1>5, <1>6, <1>7, <1>8, <1>9, <1>10, <1>11, <1>12, <1>13,
           <1>14, <1>15, <1>16, <1>17, <1>18, <1>19, <1>20, <1>21, <1>22, <1>23, <1>24, <1>25,
           <1>26, StepAt DEF EnvironmentsNext, Boot, Request, Step

LEMMA EncryptRowWell ==
    ASSUME NEW k \in EncryptionKeys \cup {NoKey}, NEW x \in TableRows
    PROVE  LET e == Encrypt(k, x) IN
           /\ WellText(x.text) \/ k # NoKey => WellText(e.text)
           /\ e.id = x.id /\ e.text.key = x.text.key
           /\ e.text.by = IF k = NoKey THEN x.text.by ELSE k
BY EncryptRowTypes, TextFields DEF WellText

LEMMA ClearFields ==
    \A id, key : /\ InTheClear(id, key).id = id /\ InTheClear(id, key).text.key = key
                 /\ InTheClear(id, key).text.by = NoKey /\ WellText(InTheClear(id, key).text)
BY DEF InTheClear, Text, WellText

LEMMA StepTablesFit ==
    ASSUME CoreInv, EnvironmentsNext
    PROVE  TablesFit'
<1> USE DEF TablesFit
<1>1. ASSUME NEW p \in Servers, NEW k \in EncryptionKeys \cup {NoKey}, Start(p, k)
      PROVE  TablesFit'
  BY <1>1, StartDoes, CoreHolds
<1>2. ASSUME NEW p \in Servers, EncryptDatabaseIfNeeded(p)
      PROVE  TablesFit'
  BY <1>2, EncryptDatabaseIfNeededDoes, CoreHolds
<1>3. ASSUME NEW p \in Servers, DropConfig(p)
      PROVE  TablesFit'
  BY <1>3, DropConfigDoes, CoreHolds
<1>4. ASSUME NEW p \in Servers, InsertConfig(p)
      PROVE  TablesFit'
  BY <1>4, InsertConfigDoes, CoreHolds
<1>5. ASSUME NEW p \in Servers, ReadEnvironments(p)
      PROVE  TablesFit'
  BY <1>5, ReadEnvironmentsDoes, CoreHolds
<1>6. ASSUME NEW p \in Servers, EncryptDatabase(p)
      PROVE  TablesFit'
  BY <1>6, EncryptDatabaseDoes, CoreHolds
<1>7. ASSUME NEW p \in Servers, ReadRows(p)
      PROVE  TablesFit'
  BY <1>7, ReadRowsDoes, CoreHolds
<1>8. ASSUME NEW p \in Servers, NEW x \in server[p].rows, EncryptRow(p, x)
      PROVE  TablesFit'
  <2> DEFINE t == Tables[server[p].table]
             same == {y \in tables[t] : y.id = x.id}
  <2>1. /\ x \in TableRows /\ server[p].key \in EncryptionKeys \cup {NoKey} /\ server[p].key # NoKey
        /\ server[p].table \in {1, 2}
        /\ server[p].table = 2 => x.id = x.text.key
    BY <1>8, EncryptRowDoes, CoreHolds, TableTypes
       DEF ServersFit, ServerFits, Encrypting, Types, ServerType
  <2> DEFINE e == Encrypt(server[p].key, x)
  <2>2. WellText(e.text) /\ e.id = x.id /\ e.text.key = x.text.key
    BY <2>1, EncryptRowWell
  <2>3. /\ t \in TableNames
        /\ tables'[t] = IF same = {} THEN tables[t] ELSE (tables[t] \ same) \cup {e}
        /\ \A u \in TableNames : u # t => tables'[u] = tables[u]
    BY <1>8, EncryptRowDoes, CoreHolds
  <2>4. t = "variables" => server[p].table = 2
    BY <2>1, TableTypes
  <2>5. \A u \in TableNames : \A y \in tables'[u] : (y = e /\ u = t) \/ y \in tables[u]
    BY <2>3
  <2> HIDE DEF t, same, e
  <2> QED BY <2>1, <2>2, <2>4, <2>5, CoreHolds DEF TableNames
<1>9. ASSUME NEW p \in Servers, CacheSecrets(p)
      PROVE  TablesFit'
  BY <1>9, CacheSecretsDoes, CoreHolds, PresentKey
<1>10. ASSUME NEW p \in Servers, Stop(p)
       PROVE  TablesFit'
  BY <1>10, StopDoes, CoreHolds
<1>11. ASSUME NEW r \in Requests, NEW p \in Servers, RotateKey(r, p)
       PROVE  TablesFit'
  BY <1>11, RotateKeyDoes, CoreHolds
<1>12. ASSUME NEW r \in Requests, NEW p \in Servers, RevertKey(r, p)
       PROVE  TablesFit'
  BY <1>12, RevertKeyDoes, CoreHolds
<1>13. ASSUME NEW r \in Requests, NEW p \in Servers, ActivateKey(r, p)
       PROVE  TablesFit'
  BY <1>13, ActivateKeyDoes, CoreHolds
<1>14. ASSUME NEW r \in Requests, NEW p \in Servers, UpdateSetting(r, p)
       PROVE  TablesFit'
  BY <1>14, UpdateSettingDoes, CoreHolds
<1>15. ASSUME NEW r \in Requests, NEW p \in Servers, UpdateEnvironmentVariables(r, p)
       PROVE  TablesFit'
  BY <1>15, UpdateEnvironmentVariablesDoes, CoreHolds DEF TableNames
<1>16. ASSUME NEW r \in Requests, NEW p \in Servers, SaveCredentials(r, p)
       PROVE  TablesFit'
  <2> DEFINE x == Encrypt(server[p].key, InTheClear(0, r))
  <2>1. server[p].key \in EncryptionKeys \cup {NoKey} /\ InTheClear(0, r) \in TableRows
    BY RequestTypes, BoundsAssumption, ClearTypes, CoreHolds DEF Types, ServerType, Keys
  <2>2. WellText(x.text)
    BY <2>1, EncryptRowWell, ClearFields
  <2>3. tables'["credentials"] = {x} /\ tables'["variables"] = tables["variables"]
    BY <1>16, SaveCredentialsDoes, CoreHolds
  <2> HIDE DEF x
  <2> QED BY <2>2, <2>3, CoreHolds DEF TableNames
<1>17. ASSUME NEW r \in Requests, NEW p \in Servers, CreateEnvironment(r, p)
       PROVE  TablesFit'
  BY <1>17, CreateEnvironmentDoes, CoreHolds
<1>18. ASSUME NEW r \in Requests, NEW p \in Servers, task[r].at = p, WritePending(r)
       PROVE  TablesFit'
  BY <1>18, WritePendingDoes, CoreHolds
<1>19. ASSUME NEW r \in Requests, NEW p \in Servers, task[r].at = p, WriteRotated(r)
       PROVE  TablesFit'
  BY <1>19, WriteRotatedDoes, CoreHolds
<1>20. ASSUME NEW r \in Requests, NEW p \in Servers, task[r].at = p, RevertSecretKey(r)
       PROVE  TablesFit'
  BY <1>20, RevertSecretKeyDoes, CoreHolds
<1>21. ASSUME NEW r \in Requests, NEW p \in Servers, task[r].at = p, ReplaceKey(r)
       PROVE  TablesFit'
  BY <1>21, ReplaceKeyDoes, CoreHolds
<1>22. ASSUME NEW r \in Requests, NEW p \in Servers, task[r].at = p, AddToEnvironmentSecretCache(r)
       PROVE  TablesFit'
  <2>1. row.secret.key # None
    BY <1>22, StepAt DEF Step
  <2> QED BY <2>1, <1>22, AddToEnvironmentSecretCacheDoes, CoreHolds
<1>23. ASSUME NEW r \in Requests, NEW p \in Servers, task[r].at = p, InsertVariables(r)
       PROVE  TablesFit'
  <2> DEFINE x == Encrypt(server[p].key, InTheClear(r, r))
  <2>1. server[p].key \in EncryptionKeys \cup {NoKey} /\ InTheClear(r, r) \in TableRows
    BY RequestTypes, ClearTypes, CoreHolds DEF Types, ServerType
  <2>2. WellText(x.text) /\ x.id = x.text.key
    BY <2>1, EncryptRowWell, ClearFields
  <2>3. tables'["variables"] = tables["variables"] \cup {x} /\ tables'["credentials"] = tables["credentials"]
    BY <1>23, InsertVariablesDoes, CoreHolds
  <2> HIDE DEF x
  <2> QED BY <2>2, <2>3, CoreHolds DEF TableNames
<1>24. ASSUME NEW r \in Requests, NEW p \in Servers, task[r].at = p, ReadCreated(r)
       PROVE  TablesFit'
  BY <1>24, ReadCreatedDoes, CoreHolds
<1>25. ASSUME NEW r \in Requests, NEW p \in Servers, task[r].at = p, WriteCreated(r)
       PROVE  TablesFit'
  BY <1>25, WriteCreatedDoes, CoreHolds, EncryptedPresent
<1>26. ASSUME NEW r \in Requests, NEW p \in Servers, task[r].at = p, CreateUser(r)
       PROVE  TablesFit'
  BY <1>26, CreateUserDoes, CoreHolds
<1> QED BY <1>1, <1>2, <1>3, <1>4, <1>5, <1>6, <1>7, <1>8, <1>9, <1>10, <1>11, <1>12, <1>13,
           <1>14, <1>15, <1>16, <1>17, <1>18, <1>19, <1>20, <1>21, <1>22, <1>23, <1>24, <1>25,
           <1>26, StepAt DEF EnvironmentsNext, Boot, Request, Step


LEMMA StepPresent ==
    ASSUME CoreInv, EnvironmentsNext
    PROVE  (row # Absent => row' # Absent) /\ (user => user')
<1> USE DEF RowFits
<1>1. ASSUME NEW p \in Servers, NEW k \in EncryptionKeys \cup {NoKey}, Start(p, k)
      PROVE  (row # Absent => row' # Absent) /\ (user => user')
  BY <1>1, StartDoes, CoreHolds
<1>2. ASSUME NEW p \in Servers, EncryptDatabaseIfNeeded(p)
      PROVE  (row # Absent => row' # Absent) /\ (user => user')
  BY <1>2, EncryptDatabaseIfNeededDoes, CoreHolds
<1>3. ASSUME NEW p \in Servers, DropConfig(p)
      PROVE  (row # Absent => row' # Absent) /\ (user => user')
  BY <1>3, DropConfigDoes, CoreHolds
<1>4. ASSUME NEW p \in Servers, InsertConfig(p)
      PROVE  (row # Absent => row' # Absent) /\ (user => user')
  BY <1>4, InsertConfigDoes, CoreHolds
<1>5. ASSUME NEW p \in Servers, ReadEnvironments(p)
      PROVE  (row # Absent => row' # Absent) /\ (user => user')
  BY <1>5, ReadEnvironmentsDoes, CoreHolds
<1>6. ASSUME NEW p \in Servers, EncryptDatabase(p)
      PROVE  (row # Absent => row' # Absent) /\ (user => user')
  <2>1. WellRow(server[p].row) /\ server[p].row # Absent /\ server[p].key \in EncryptionKeys \cup {NoKey}
    BY <1>6, EncryptDatabaseDoes, CoreHolds DEF ServersFit, ServerFits, Types, ServerType
  <2> QED BY <2>1, <1>6, EncryptDatabaseDoes, EncryptWell, CoreHolds
<1>7. ASSUME NEW p \in Servers, ReadRows(p)
      PROVE  (row # Absent => row' # Absent) /\ (user => user')
  BY <1>7, ReadRowsDoes, CoreHolds
<1>8. ASSUME NEW p \in Servers, NEW x \in server[p].rows, EncryptRow(p, x)
      PROVE  (row # Absent => row' # Absent) /\ (user => user')
  BY <1>8, EncryptRowDoes, CoreHolds
<1>9. ASSUME NEW p \in Servers, CacheSecrets(p)
      PROVE  (row # Absent => row' # Absent) /\ (user => user')
  BY <1>9, CacheSecretsDoes, CoreHolds, PresentKey
<1>10. ASSUME NEW p \in Servers, Stop(p)
       PROVE  (row # Absent => row' # Absent) /\ (user => user')
  BY <1>10, StopDoes, CoreHolds
<1>11. ASSUME NEW r \in Requests, NEW p \in Servers, RotateKey(r, p)
       PROVE  (row # Absent => row' # Absent) /\ (user => user')
  BY <1>11, RotateKeyDoes, CoreHolds
<1>12. ASSUME NEW r \in Requests, NEW p \in Servers, RevertKey(r, p)
       PROVE  (row # Absent => row' # Absent) /\ (user => user')
  BY <1>12, RevertKeyDoes, CoreHolds
<1>13. ASSUME NEW r \in Requests, NEW p \in Servers, ActivateKey(r, p)
       PROVE  (row # Absent => row' # Absent) /\ (user => user')
  BY <1>13, ActivateKeyDoes, CoreHolds
<1>14. ASSUME NEW r \in Requests, NEW p \in Servers, UpdateSetting(r, p)
       PROVE  (row # Absent => row' # Absent) /\ (user => user')
  BY <1>14, UpdateSettingDoes, ConfiguredWell, CoreHolds
<1>15. ASSUME NEW r \in Requests, NEW p \in Servers, UpdateEnvironmentVariables(r, p)
       PROVE  (row # Absent => row' # Absent) /\ (user => user')
  BY <1>15, UpdateEnvironmentVariablesDoes, CoreHolds
<1>16. ASSUME NEW r \in Requests, NEW p \in Servers, SaveCredentials(r, p)
       PROVE  (row # Absent => row' # Absent) /\ (user => user')
  BY <1>16, SaveCredentialsDoes, CoreHolds
<1>17. ASSUME NEW r \in Requests, NEW p \in Servers, CreateEnvironment(r, p)
       PROVE  (row # Absent => row' # Absent) /\ (user => user')
  BY <1>17, CreateEnvironmentDoes, CoreHolds
<1>18. ASSUME NEW r \in Requests, NEW p \in Servers, task[r].at = p, WritePending(r)
       PROVE  (row # Absent => row' # Absent) /\ (user => user')
  BY <1>18, WritePendingDoes, PendWell, CoreHolds
<1>19. ASSUME NEW r \in Requests, NEW p \in Servers, task[r].at = p, WriteRotated(r)
       PROVE  (row # Absent => row' # Absent) /\ (user => user')
  BY <1>19, WriteRotatedDoes, StepRowFits, PresentAt, CoreHolds DEF TasksFit, TaskFits, Sessions
<1>20. ASSUME NEW r \in Requests, NEW p \in Servers, task[r].at = p, RevertSecretKey(r)
       PROVE  (row # Absent => row' # Absent) /\ (user => user')
  BY <1>20, RevertSecretKeyDoes, StepRowFits, PresentAt, CoreHolds DEF TasksFit, TaskFits,
     Sessions
<1>21. ASSUME NEW r \in Requests, NEW p \in Servers, task[r].at = p, ReplaceKey(r)
       PROVE  (row # Absent => row' # Absent) /\ (user => user')
  BY <1>21, ReplaceKeyDoes, AbsentFields, CoreHolds
<1>22. ASSUME NEW r \in Requests, NEW p \in Servers, task[r].at = p, AddToEnvironmentSecretCache(r)
       PROVE  (row # Absent => row' # Absent) /\ (user => user')
  <2>1. row.secret.key # None
    BY <1>22, StepAt DEF Step
  <2> QED BY <2>1, <1>22, AddToEnvironmentSecretCacheDoes, CoreHolds
<1>23. ASSUME NEW r \in Requests, NEW p \in Servers, task[r].at = p, InsertVariables(r)
       PROVE  (row # Absent => row' # Absent) /\ (user => user')
  BY <1>23, InsertVariablesDoes, CoreHolds
<1>24. ASSUME NEW r \in Requests, NEW p \in Servers, task[r].at = p, ReadCreated(r)
       PROVE  (row # Absent => row' # Absent) /\ (user => user')
  BY <1>24, ReadCreatedDoes, CoreHolds
<1>25. ASSUME NEW r \in Requests, NEW p \in Servers, task[r].at = p, WriteCreated(r)
       PROVE  (row # Absent => row' # Absent) /\ (user => user')
  <2>1. WellRow(task[r].row) /\ task[r].row # Absent /\ Key(r) \in EncryptionKeys \cup {NoKey}
    BY <1>25, WriteCreatedDoes, EncryptedPresent, CoreHolds
       DEF TasksFit, TaskFits, Reading, Key, Types, ServerType
  <2>2. row' = EncryptEnvironment(Key(r), task[r].row) /\ UNCHANGED user
    BY <1>25, WriteCreatedDoes, EncryptedPresent, CoreHolds
  <2> QED BY <2>1, <2>2, EncryptWell
<1>26. ASSUME NEW r \in Requests, NEW p \in Servers, task[r].at = p, CreateUser(r)
       PROVE  (row # Absent => row' # Absent) /\ (user => user')
  BY <1>26, CreateUserDoes, CoreHolds
<1> QED BY <1>1, <1>2, <1>3, <1>4, <1>5, <1>6, <1>7, <1>8, <1>9, <1>10, <1>11, <1>12, <1>13,
           <1>14, <1>15, <1>16, <1>17, <1>18, <1>19, <1>20, <1>21, <1>22, <1>23, <1>24, <1>25,
           <1>26, StepAt DEF EnvironmentsNext, Boot, Request, Step


(***************************************************************************)
(* A request that a step does not take fits on, whatever the step.         *)
(***************************************************************************)

KeysStay == \A q \in Servers : server'[q].pc = server[q].pc /\ server'[q].key = server[q].key

LEMMA CachedStay ==
    ASSUME NEW p \in Servers, NEW cache, Cached(p, cache)
    PROVE  KeysStay
BY DEF Cached, Turned, KeysStay

LEMMA TasksStayBoot ==
    ASSUME CoreInv, NEW p \in Servers, server[p].pc # "serving",
           \A q \in Servers : q # p => server'[q] = server[q],
           UNCHANGED <<task, user>>, row # Absent => row' # Absent
    PROVE  TasksFit'
<1> SUFFICES ASSUME NEW r \in Requests PROVE TaskFits(r)'
  BY DEF TasksFit
<1>1. TaskFits(r)
  BY CoreHolds DEF TasksFit
<1>2. task[r].pc \notin {"idle", "done"} => task[r].at # p
  BY <1>1 DEF TaskFits
<1>3. task[r].pc \in Sessions \cup Creators \cup Reading => task[r].pc \notin {"idle", "done"}
  BY DEF Sessions, Creators, Reading
<1>4. task[r].pc \notin {"idle", "done"} => server'[task[r].at] = server[task[r].at]
  BY <1>1, <1>2 DEF TaskFits
<1> QED BY <1>1, <1>3, <1>4 DEF TaskFits, Sessions, Creators, Reading

LEMMA TasksStay ==
    ASSUME CoreInv, NEW r \in Requests, \A q \in Requests : q # r => task'[q] = task[q],
           KeysStay, UNCHANGED user, row # Absent => row' # Absent,
           task'[r].pc \in Creators => task[r].pc \in Creators \/ row = Absent,
           (\A q \in Requests : task'[q].pc \in Creators /\ task'[r].pc \in Creators => q = r) => TaskFits(r)'
    PROVE  TasksFit'
<1> SUFFICES ASSUME NEW q \in Requests PROVE TaskFits(q)'
  BY DEF TasksFit
<1>1. TaskFits(r)
  BY CoreHolds DEF TasksFit
<1>2. \A s \in Requests : task'[s].pc \in Creators /\ task'[r].pc \in Creators => s = r
  <2> SUFFICES ASSUME NEW s \in Requests, task'[s].pc \in Creators, task'[r].pc \in Creators, s # r
               PROVE  FALSE
    OBVIOUS
  <2>1. task[s].pc \in Creators /\ TaskFits(s)
    BY CoreHolds DEF TasksFit
  <2> QED BY <1>1, <2>1 DEF TaskFits, Creators
<1>3. CASE q = r
  BY <1>2, <1>3
<1>4. CASE q # r
  <2>1. TaskFits(q) /\ task'[q] = task[q]
    BY <1>4, CoreHolds DEF TasksFit
  <2>2. task[q].pc \notin {"idle", "done"} =>
           server'[task[q].at].pc = "serving" /\ server'[task[q].at].key = server[task[q].at].key
    BY <2>1 DEF TaskFits, KeysStay
  <2>3. task[q].pc \in Sessions \cup Creators \cup Reading => task[q].pc \notin {"idle", "done"}
    BY DEF Sessions, Creators, Reading
  <2>4. task[q].pc \in Creators => \A s \in Requests : task'[s].pc \in Creators => s = q
    BY <1>2, <2>1, <1>4 DEF TaskFits, Creators
  <2> QED BY <2>1, <2>2, <2>3, <2>4 DEF TaskFits, Sessions, Creators, Reading
<1> QED BY <1>3, <1>4

LEMMA StepTasksFit ==
    ASSUME CoreInv, EnvironmentsNext
    PROVE  TasksFit'
<1>1. ASSUME NEW p \in Servers, NEW k \in EncryptionKeys \cup {NoKey}, Start(p, k)
      PROVE  TasksFit'
  <2>1. server[p].pc # "serving"
    BY <1>1, StartDoes, CoreHolds
  <2>2. \A q \in Servers : q # p => server'[q] = server[q]
    BY <1>1, StartDoes, CoreHolds DEF Turned, NextRowTurned
  <2> QED BY <2>1, <2>2, <1>1, StartDoes, CoreHolds, TasksStayBoot, StepPresent
<1>2. ASSUME NEW p \in Servers, EncryptDatabaseIfNeeded(p)
      PROVE  TasksFit'
  <2>1. server[p].pc # "serving"
    BY <1>2, EncryptDatabaseIfNeededDoes, CoreHolds
  <2>2. \A q \in Servers : q # p => server'[q] = server[q]
    BY <1>2, EncryptDatabaseIfNeededDoes, CoreHolds DEF Turned, NextRowTurned
  <2> QED BY <2>1, <2>2, <1>2, EncryptDatabaseIfNeededDoes, CoreHolds, TasksStayBoot, StepPresent
<1>3. ASSUME NEW p \in Servers, DropConfig(p)
      PROVE  TasksFit'
  <2>1. server[p].pc # "serving"
    BY <1>3, DropConfigDoes, CoreHolds
  <2>2. \A q \in Servers : q # p => server'[q] = server[q]
    BY <1>3, DropConfigDoes, CoreHolds DEF Turned, NextRowTurned
  <2> QED BY <2>1, <2>2, <1>3, DropConfigDoes, CoreHolds, TasksStayBoot, StepPresent
<1>4. ASSUME NEW p \in Servers, InsertConfig(p)
      PROVE  TasksFit'
  <2>1. server[p].pc # "serving"
    BY <1>4, InsertConfigDoes, CoreHolds
  <2>2. \A q \in Servers : q # p => server'[q] = server[q]
    BY <1>4, InsertConfigDoes, CoreHolds DEF Turned, NextRowTurned
  <2> QED BY <2>1, <2>2, <1>4, InsertConfigDoes, CoreHolds, TasksStayBoot, StepPresent
<1>5. ASSUME NEW p \in Servers, ReadEnvironments(p)
      PROVE  TasksFit'
  <2>1. server[p].pc # "serving"
    BY <1>5, ReadEnvironmentsDoes, CoreHolds
  <2>2. \A q \in Servers : q # p => server'[q] = server[q]
    BY <1>5, ReadEnvironmentsDoes, CoreHolds DEF Turned, NextRowTurned
  <2> QED BY <2>1, <2>2, <1>5, ReadEnvironmentsDoes, CoreHolds, TasksStayBoot, StepPresent
<1>6. ASSUME NEW p \in Servers, EncryptDatabase(p)
      PROVE  TasksFit'
  <2>1. server[p].pc # "serving"
    BY <1>6, EncryptDatabaseDoes, CoreHolds
  <2>2. \A q \in Servers : q # p => server'[q] = server[q]
    BY <1>6, EncryptDatabaseDoes, CoreHolds DEF Turned, NextRowTurned
  <2> QED BY <2>1, <2>2, <1>6, EncryptDatabaseDoes, CoreHolds, TasksStayBoot, StepPresent
<1>7. ASSUME NEW p \in Servers, ReadRows(p)
      PROVE  TasksFit'
  <2>1. server[p].pc # "serving"
    BY <1>7, ReadRowsDoes, CoreHolds
  <2>2. \A q \in Servers : q # p => server'[q] = server[q]
    BY <1>7, ReadRowsDoes, CoreHolds DEF Turned, NextRowTurned
  <2> QED BY <2>1, <2>2, <1>7, ReadRowsDoes, CoreHolds, TasksStayBoot, StepPresent
<1>8. ASSUME NEW p \in Servers, NEW x \in server[p].rows, EncryptRow(p, x)
      PROVE  TasksFit'
  <2>1. server[p].pc # "serving"
    BY <1>8, EncryptRowDoes, CoreHolds
  <2>2. \A q \in Servers : q # p => server'[q] = server[q]
    BY <1>8, EncryptRowDoes, CoreHolds DEF Turned, NextRowTurned
  <2> QED BY <2>1, <2>2, <1>8, EncryptRowDoes, CoreHolds, TasksStayBoot, StepPresent
<1>9. ASSUME NEW p \in Servers, CacheSecrets(p)
      PROVE  TasksFit'
  <2>1. server[p].pc # "serving"
    BY <1>9, CacheSecretsDoes, CoreHolds, PresentKey
  <2>2. \A q \in Servers : q # p => server'[q] = server[q]
    BY <1>9, CacheSecretsDoes, CoreHolds, PresentKey DEF Turned, NextRowTurned
  <2> QED BY <2>1, <2>2, <1>9, CacheSecretsDoes, CoreHolds, PresentKey, TasksStayBoot, StepPresent
<1>10. ASSUME NEW p \in Servers, Stop(p)
       PROVE  TasksFit'
  <2> SUFFICES ASSUME NEW r \in Requests PROVE TaskFits(r)'
    BY DEF TasksFit
  <2>1. \A q \in Requests : TaskFits(q)
    BY CoreHolds DEF TasksFit
  <2>2. /\ \A q \in Requests : task'[q] = IF q \in Active /\ task[q].at = p THEN Done ELSE task[q]
        /\ \A q \in Servers : q # p => server'[q] = server[q]
        /\ UNCHANGED <<row, user>>
    BY <1>10, StopDoes, CoreHolds DEF Turned
  <2>3. Done.pc = "done"
    BY DEF Done
  <2>4. \A q \in Requests : task'[q].pc \in {"idle", "done"} \/ task'[q] = task[q]
    BY <2>2, <2>3
  <2>5. task'[r].pc \notin {"idle", "done"} => task'[r] = task[r] /\ server'[task[r].at] = server[task[r].at]
    BY <2>1, <2>2, <2>3 DEF Active, TaskFits
  <2> QED BY <2>1, <2>2, <2>4, <2>5 DEF TaskFits, Sessions, Creators, Reading
<1>11. ASSUME NEW r \in Requests, NEW p \in Servers, RotateKey(r, p)
       PROVE  TasksFit'
  <2>1. (\A q \in Requests : q # r => task'[q] = task[q]) /\ KeysStay
    BY <1>11, RotateKeyDoes, CoreHolds, CachedStay DEF Moved, KeysStay
  <2>2. (row # Absent => row' # Absent) /\ UNCHANGED user
    BY <1>11, RotateKeyDoes, CoreHolds, StepPresent
  <2>3. WellRow(row) /\ (user => row # Absent)
    BY CoreHolds DEF RowFits
  <2>5. (\A q \in Requests : task'[q].pc \in Creators /\ task'[r].pc \in Creators => q = r) => TaskFits(r)'
    BY <2>1, <2>2, <2>3, <1>11, RotateKeyDoes, CoreHolds, AbsentWell, AbsentFields
       DEF Moved, KeysStay, Taken, TaskFits, Sessions, Creators, Reading, Decrypts, WellRow,
       WellText, RowFits
  <2>6. task'[r].pc \in Creators => task[r].pc \in Creators \/ row = Absent
    BY <1>11, RotateKeyDoes, CoreHolds DEF Moved, Creators
  <2> QED BY <2>1, <2>2, <2>5, <2>6, TasksStay
<1>12. ASSUME NEW r \in Requests, NEW p \in Servers, RevertKey(r, p)
       PROVE  TasksFit'
  <2>1. (\A q \in Requests : q # r => task'[q] = task[q]) /\ KeysStay
    BY <1>12, RevertKeyDoes, CoreHolds, CachedStay DEF Moved, KeysStay
  <2>2. (row # Absent => row' # Absent) /\ UNCHANGED user
    BY <1>12, RevertKeyDoes, CoreHolds, StepPresent
  <2>3. WellRow(row) /\ (user => row # Absent)
    BY CoreHolds DEF RowFits
  <2>5. (\A q \in Requests : task'[q].pc \in Creators /\ task'[r].pc \in Creators => q = r) => TaskFits(r)'
    BY <2>1, <2>2, <2>3, <1>12, RevertKeyDoes, CoreHolds, AbsentWell, AbsentFields
       DEF Moved, KeysStay, Taken, TaskFits, Sessions, Creators, Reading, Decrypts, WellRow,
       WellText, RowFits
  <2>6. task'[r].pc \in Creators => task[r].pc \in Creators \/ row = Absent
    BY <1>12, RevertKeyDoes, CoreHolds DEF Moved, Creators
  <2> QED BY <2>1, <2>2, <2>5, <2>6, TasksStay
<1>13. ASSUME NEW r \in Requests, NEW p \in Servers, ActivateKey(r, p)
       PROVE  TasksFit'
  <2>1. (\A q \in Requests : q # r => task'[q] = task[q]) /\ KeysStay
    BY <1>13, ActivateKeyDoes, CoreHolds, CachedStay DEF Moved, KeysStay
  <2>2. (row # Absent => row' # Absent) /\ UNCHANGED user
    BY <1>13, ActivateKeyDoes, CoreHolds, StepPresent
  <2>3. WellRow(row) /\ (user => row # Absent)
    BY CoreHolds DEF RowFits
  <2>5. (\A q \in Requests : task'[q].pc \in Creators /\ task'[r].pc \in Creators => q = r) => TaskFits(r)'
    BY <2>1, <2>2, <2>3, <1>13, ActivateKeyDoes, CoreHolds, AbsentWell, AbsentFields
       DEF Moved, KeysStay, Taken, TaskFits, Sessions, Creators, Reading, Decrypts, WellRow,
       WellText, RowFits
  <2>6. task'[r].pc \in Creators => task[r].pc \in Creators \/ row = Absent
    BY <1>13, ActivateKeyDoes, CoreHolds DEF Moved, Creators
  <2> QED BY <2>1, <2>2, <2>5, <2>6, TasksStay
<1>14. ASSUME NEW r \in Requests, NEW p \in Servers, UpdateSetting(r, p)
       PROVE  TasksFit'
  <2>1. (\A q \in Requests : q # r => task'[q] = task[q]) /\ KeysStay
    BY <1>14, UpdateSettingDoes, CoreHolds, CachedStay DEF Moved, KeysStay
  <2>2. (row # Absent => row' # Absent) /\ UNCHANGED user
    BY <1>14, UpdateSettingDoes, CoreHolds, StepPresent
  <2>3. WellRow(row) /\ (user => row # Absent)
    BY CoreHolds DEF RowFits
  <2>5. (\A q \in Requests : task'[q].pc \in Creators /\ task'[r].pc \in Creators => q = r) => TaskFits(r)'
    BY <2>1, <2>2, <2>3, <1>14, UpdateSettingDoes, CoreHolds, AbsentWell, AbsentFields
       DEF Moved, KeysStay, Taken, TaskFits, Sessions, Creators, Reading, Decrypts, WellRow,
       WellText, RowFits
  <2>6. task'[r].pc \in Creators => task[r].pc \in Creators \/ row = Absent
    BY <1>14, UpdateSettingDoes, CoreHolds DEF Moved, Creators
  <2> QED BY <2>1, <2>2, <2>5, <2>6, TasksStay
<1>15. ASSUME NEW r \in Requests, NEW p \in Servers, UpdateEnvironmentVariables(r, p)
       PROVE  TasksFit'
  <2>1. (\A q \in Requests : q # r => task'[q] = task[q]) /\ KeysStay
    BY <1>15, UpdateEnvironmentVariablesDoes, CoreHolds, CachedStay DEF Moved, KeysStay
  <2>2. (row # Absent => row' # Absent) /\ UNCHANGED user
    BY <1>15, UpdateEnvironmentVariablesDoes, CoreHolds, StepPresent
  <2>3. WellRow(row) /\ (user => row # Absent)
    BY CoreHolds DEF RowFits
  <2>5. (\A q \in Requests : task'[q].pc \in Creators /\ task'[r].pc \in Creators => q = r) => TaskFits(r)'
    BY <2>1, <2>2, <2>3, <1>15, UpdateEnvironmentVariablesDoes, CoreHolds, AbsentWell,
       AbsentFields
       DEF Moved, KeysStay, Taken, TaskFits, Sessions, Creators, Reading, Decrypts, WellRow, WellText, RowFits
  <2>6. task'[r].pc \in Creators => task[r].pc \in Creators \/ row = Absent
    BY <1>15, UpdateEnvironmentVariablesDoes, CoreHolds DEF Moved, Creators
  <2> QED BY <2>1, <2>2, <2>5, <2>6, TasksStay
<1>16. ASSUME NEW r \in Requests, NEW p \in Servers, SaveCredentials(r, p)
       PROVE  TasksFit'
  <2>1. (\A q \in Requests : q # r => task'[q] = task[q]) /\ KeysStay
    BY <1>16, SaveCredentialsDoes, CoreHolds, CachedStay DEF Moved, KeysStay
  <2>2. (row # Absent => row' # Absent) /\ UNCHANGED user
    BY <1>16, SaveCredentialsDoes, CoreHolds, StepPresent
  <2>3. WellRow(row) /\ (user => row # Absent)
    BY CoreHolds DEF RowFits
  <2>5. (\A q \in Requests : task'[q].pc \in Creators /\ task'[r].pc \in Creators => q = r) => TaskFits(r)'
    BY <2>1, <2>2, <2>3, <1>16, SaveCredentialsDoes, CoreHolds, AbsentWell, AbsentFields
       DEF Moved, KeysStay, Taken, TaskFits, Sessions, Creators, Reading, Decrypts, WellRow,
       WellText, RowFits
  <2>6. task'[r].pc \in Creators => task[r].pc \in Creators \/ row = Absent
    BY <1>16, SaveCredentialsDoes, CoreHolds DEF Moved, Creators
  <2> QED BY <2>1, <2>2, <2>5, <2>6, TasksStay
<1>17. ASSUME NEW r \in Requests, NEW p \in Servers, CreateEnvironment(r, p)
       PROVE  TasksFit'
  <2>1. (\A q \in Requests : q # r => task'[q] = task[q]) /\ KeysStay
    BY <1>17, CreateEnvironmentDoes, CoreHolds, CachedStay DEF Moved, KeysStay
  <2>2. (row # Absent => row' # Absent) /\ UNCHANGED user
    BY <1>17, CreateEnvironmentDoes, CoreHolds, StepPresent
  <2>3. WellRow(row) /\ (user => row # Absent)
    BY CoreHolds DEF RowFits
  <2>5. (\A q \in Requests : task'[q].pc \in Creators /\ task'[r].pc \in Creators => q = r) => TaskFits(r)'
    BY <2>1, <2>2, <2>3, <1>17, CreateEnvironmentDoes, CoreHolds, AbsentWell, AbsentFields
       DEF Moved, KeysStay, Taken, TaskFits, Sessions, Creators, Reading, Decrypts, WellRow,
       WellText, RowFits
  <2>6. task'[r].pc \in Creators => task[r].pc \in Creators \/ row = Absent
    BY <1>17, CreateEnvironmentDoes, CoreHolds DEF Moved, Creators
  <2> QED BY <2>1, <2>2, <2>5, <2>6, TasksStay
<1>18. ASSUME NEW r \in Requests, NEW p \in Servers, task[r].at = p, WritePending(r)
       PROVE  TasksFit'
  <2>1. (\A q \in Requests : q # r => task'[q] = task[q]) /\ KeysStay
    BY <1>18, WritePendingDoes, CoreHolds, CachedStay DEF Moved, KeysStay
  <2>2. (row # Absent => row' # Absent) /\ UNCHANGED user
    BY <1>18, WritePendingDoes, CoreHolds, StepPresent
  <2>3. TaskFits(r) /\ WellRow(row)
    BY CoreHolds DEF TasksFit, RowFits
  <2>4. /\ WellRow(Pend(task[r].row, r)) /\ Pend(task[r].row, r) # Absent
        /\ Pend(task[r].row, r).secret = task[r].row.secret /\ Pend(task[r].row, r).pending.by = NoKey
    BY <2>3, <1>18, WritePendingDoes, CoreHolds, PendWell, PendTypes DEF TaskFits, Reading,
       WellRow
  <2>5. (\A q \in Requests : task'[q].pc \in Creators /\ task'[r].pc \in Creators => q = r) => TaskFits(r)'
    BY <2>4, <2>1, <2>2, <2>3, <1>18, WritePendingDoes, CoreHolds
       DEF Moved, KeysStay, TaskFits, Sessions, Creators, Reading
  <2>6. task'[r].pc \in Creators => task[r].pc \in Creators \/ row = Absent
    BY <1>18, WritePendingDoes, CoreHolds DEF Moved, Creators
  <2> QED BY <2>1, <2>2, <2>5, <2>6, TasksStay
<1>19. ASSUME NEW r \in Requests, NEW p \in Servers, task[r].at = p, WriteRotated(r)
       PROVE  TasksFit'
  <2>1. (\A q \in Requests : q # r => task'[q] = task[q]) /\ KeysStay
    BY <1>19, WriteRotatedDoes, CoreHolds, CachedStay DEF Moved, KeysStay
  <2>2. (row # Absent => row' # Absent) /\ UNCHANGED user
    BY <1>19, WriteRotatedDoes, CoreHolds, StepPresent
  <2>3. TaskFits(r) /\ WellRow(row)
    BY CoreHolds DEF TasksFit, RowFits
  <2>5. (\A q \in Requests : task'[q].pc \in Creators /\ task'[r].pc \in Creators => q = r) => TaskFits(r)'
    BY <2>1, <2>2, <2>3, <1>19, WriteRotatedDoes, CoreHolds
       DEF Moved, KeysStay, TaskFits, Sessions, Creators, Reading
  <2>6. task'[r].pc \in Creators => task[r].pc \in Creators \/ row = Absent
    BY <1>19, WriteRotatedDoes, CoreHolds DEF Moved, Creators
  <2> QED BY <2>1, <2>2, <2>5, <2>6, TasksStay
<1>20. ASSUME NEW r \in Requests, NEW p \in Servers, task[r].at = p, RevertSecretKey(r)
       PROVE  TasksFit'
  <2>1. (\A q \in Requests : q # r => task'[q] = task[q]) /\ KeysStay
    BY <1>20, RevertSecretKeyDoes, CoreHolds, CachedStay DEF Moved, KeysStay
  <2>2. (row # Absent => row' # Absent) /\ UNCHANGED user
    BY <1>20, RevertSecretKeyDoes, CoreHolds, StepPresent
  <2>3. TaskFits(r) /\ WellRow(row)
    BY CoreHolds DEF TasksFit, RowFits
  <2>5. (\A q \in Requests : task'[q].pc \in Creators /\ task'[r].pc \in Creators => q = r) => TaskFits(r)'
    BY <2>1, <2>2, <2>3, <1>20, RevertSecretKeyDoes, CoreHolds
       DEF Moved, KeysStay, TaskFits, Sessions, Creators, Reading
  <2>6. task'[r].pc \in Creators => task[r].pc \in Creators \/ row = Absent
    BY <1>20, RevertSecretKeyDoes, CoreHolds DEF Moved, Creators
  <2> QED BY <2>1, <2>2, <2>5, <2>6, TasksStay
<1>21. ASSUME NEW r \in Requests, NEW p \in Servers, task[r].at = p, ReplaceKey(r)
       PROVE  TasksFit'
  <2>0. UNCHANGED server \/ Cached(p, server[p].cache \ {task[r].row.secret.key}) \/ Cached(p, server[p].cache)
    BY <1>21, ReplaceKeyDoes, CoreHolds
  <2>1. (\A q \in Requests : q # r => task'[q] = task[q]) /\ KeysStay
    <3>1. KeysStay
      BY <2>0, CachedStay DEF KeysStay
    <3> QED BY <3>1, <1>21, ReplaceKeyDoes, CoreHolds DEF Moved
  <2>2. (row # Absent => row' # Absent) /\ UNCHANGED user
    BY <1>21, ReplaceKeyDoes, CoreHolds, StepPresent
  <2>3. TaskFits(r) /\ WellRow(row)
    BY CoreHolds DEF TasksFit, RowFits
  <2>7. Moved(r, "done", None, Absent) \/ Moved(r, "recache", p, task[r].row)
    BY <1>21, ReplaceKeyDoes, CoreHolds
  <2>4. task[r].at = p /\ task[r].pc = "replace" /\ (task'[r].pc = "done" \/ (task'[r].pc = "recache" /\ task'[r].at = p))
    BY <1>21, <2>7 DEF Moved, ReplaceKey, At
  <2>5. (\A q \in Requests : task'[q].pc \in Creators /\ task'[r].pc \in Creators => q = r) => TaskFits(r)'
    BY <2>1, <2>2, <2>3, <2>4 DEF KeysStay, TaskFits, Sessions, Creators, Reading
  <2>6. task'[r].pc \in Creators => task[r].pc \in Creators \/ row = Absent
    BY <1>21, ReplaceKeyDoes, CoreHolds DEF Moved, Creators
  <2> QED BY <2>1, <2>2, <2>5, <2>6, TasksStay
<1>22. ASSUME NEW r \in Requests, NEW p \in Servers, task[r].at = p, AddToEnvironmentSecretCache(r)
       PROVE  TasksFit'
  <2>0. row.secret.key # None
    BY <1>22, StepAt DEF Step
  <2>1. (\A q \in Requests : q # r => task'[q] = task[q]) /\ KeysStay
    BY <1>22, AddToEnvironmentSecretCacheDoes, CoreHolds, <2>0, CachedStay DEF Moved, KeysStay
  <2>2. (row # Absent => row' # Absent) /\ UNCHANGED user
    BY <1>22, AddToEnvironmentSecretCacheDoes, CoreHolds, <2>0, StepPresent
  <2>3. TaskFits(r) /\ WellRow(row)
    BY CoreHolds DEF TasksFit, RowFits
  <2>5. (\A q \in Requests : task'[q].pc \in Creators /\ task'[r].pc \in Creators => q = r) => TaskFits(r)'
    BY <2>1, <2>2, <2>3, <1>22, AddToEnvironmentSecretCacheDoes, CoreHolds, <2>0
       DEF Moved, KeysStay, TaskFits, Sessions, Creators, Reading
  <2>6. task'[r].pc \in Creators => task[r].pc \in Creators \/ row = Absent
    BY <1>22, AddToEnvironmentSecretCacheDoes, CoreHolds, <2>0 DEF Moved, Creators
  <2> QED BY <2>1, <2>2, <2>5, <2>6, TasksStay
<1>23. ASSUME NEW r \in Requests, NEW p \in Servers, task[r].at = p, InsertVariables(r)
       PROVE  TasksFit'
  <2>1. (\A q \in Requests : q # r => task'[q] = task[q]) /\ KeysStay
    BY <1>23, InsertVariablesDoes, CoreHolds, CachedStay DEF Moved, KeysStay
  <2>2. (row # Absent => row' # Absent) /\ UNCHANGED user
    BY <1>23, InsertVariablesDoes, CoreHolds, StepPresent
  <2>3. TaskFits(r) /\ WellRow(row)
    BY CoreHolds DEF TasksFit, RowFits
  <2>5. (\A q \in Requests : task'[q].pc \in Creators /\ task'[r].pc \in Creators => q = r) => TaskFits(r)'
    BY <2>1, <2>2, <2>3, <1>23, InsertVariablesDoes, CoreHolds
       DEF Moved, KeysStay, TaskFits, Sessions, Creators, Reading
  <2>6. task'[r].pc \in Creators => task[r].pc \in Creators \/ row = Absent
    BY <1>23, InsertVariablesDoes, CoreHolds DEF Moved, Creators
  <2> QED BY <2>1, <2>2, <2>5, <2>6, TasksStay
<1>24. ASSUME NEW r \in Requests, NEW p \in Servers, task[r].at = p, ReadCreated(r)
       PROVE  TasksFit'
  <2>1. (\A q \in Requests : q # r => task'[q] = task[q]) /\ KeysStay
    BY <1>24, ReadCreatedDoes, CoreHolds, CachedStay DEF Moved, KeysStay
  <2>2. (row # Absent => row' # Absent) /\ UNCHANGED user
    BY <1>24, ReadCreatedDoes, CoreHolds, StepPresent
  <2>3. TaskFits(r) /\ WellRow(row)
    BY CoreHolds DEF TasksFit, RowFits
  <2>5. (\A q \in Requests : task'[q].pc \in Creators /\ task'[r].pc \in Creators => q = r) => TaskFits(r)'
    BY <2>1, <2>2, <2>3, <1>24, ReadCreatedDoes, CoreHolds
       DEF Moved, KeysStay, TaskFits, Sessions, Creators, Reading, RowFits, Decrypts, WellRow,
       WellText
  <2>6. task'[r].pc \in Creators => task[r].pc \in Creators \/ row = Absent
    BY <1>24, ReadCreatedDoes, CoreHolds DEF Moved, Creators
  <2> QED BY <2>1, <2>2, <2>5, <2>6, TasksStay
<1>25. ASSUME NEW r \in Requests, NEW p \in Servers, task[r].at = p, WriteCreated(r)
       PROVE  TasksFit'
  <2>1. (\A q \in Requests : q # r => task'[q] = task[q]) /\ KeysStay
    BY <1>25, WriteCreatedDoes, CoreHolds, EncryptedPresent, CachedStay DEF Moved, KeysStay
  <2>2. (row # Absent => row' # Absent) /\ UNCHANGED user
    BY <1>25, WriteCreatedDoes, CoreHolds, EncryptedPresent, StepPresent
  <2>3. TaskFits(r) /\ WellRow(row)
    BY CoreHolds DEF TasksFit, RowFits
  <2>4. task[r].at = p /\ task[r].pc = "encrypted" /\ task'[r].pc = "user" /\ task'[r].at = p
    BY <1>25, WriteCreatedDoes, CoreHolds, EncryptedPresent DEF Moved
  <2>5. (\A q \in Requests : task'[q].pc \in Creators /\ task'[r].pc \in Creators => q = r) => TaskFits(r)'
    BY <2>1, <2>2, <2>3, <2>4 DEF KeysStay, TaskFits, Sessions, Creators, Reading
  <2>6. task'[r].pc \in Creators => task[r].pc \in Creators \/ row = Absent
    BY <1>25, WriteCreatedDoes, CoreHolds, EncryptedPresent DEF Moved, Creators
  <2> QED BY <2>1, <2>2, <2>5, <2>6, TasksStay
<1>26. ASSUME NEW r \in Requests, NEW p \in Servers, task[r].at = p, CreateUser(r)
       PROVE  TasksFit'
  <2>1. (\A q \in Requests : q # r => task'[q] = task[q]) /\ KeysStay
    BY <1>26, CreateUserDoes, CoreHolds, CachedStay DEF Moved, KeysStay
  <2>2. \A q \in Requests : TaskFits(q)
    BY CoreHolds DEF TasksFit
  <2>3. task[r].pc = "user" /\ task'[r].pc = "done" /\ user' /\ UNCHANGED <<row, server>>
    BY <1>26, CreateUserDoes, CoreHolds DEF Moved
  <2>4. \A q \in Requests : task'[q].pc \notin Creators
    BY <2>1, <2>2, <2>3 DEF TaskFits, Creators
  <2> SUFFICES ASSUME NEW q \in Requests PROVE TaskFits(q)'
    BY DEF TasksFit
  <2>5. CASE q = r
    BY <2>3, <2>5 DEF TaskFits, Sessions, Creators, Reading
  <2>6. CASE q # r
    BY <2>1, <2>2, <2>3, <2>4, <2>6 DEF TaskFits, Sessions, Reading
  <2> QED BY <2>5, <2>6
<1> QED BY <1>1, <1>2, <1>3, <1>4, <1>5, <1>6, <1>7, <1>8, <1>9, <1>10, <1>11, <1>12, <1>13,
           <1>14, <1>15, <1>16, <1>17, <1>18, <1>19, <1>20, <1>21, <1>22, <1>23, <1>24, <1>25,
           <1>26, StepAt DEF EnvironmentsNext, Boot, Request, Step


LEMMA ServersStay ==
    ASSUME CoreInv, NEW p \in Servers, \A q \in Servers : q # p => server'[q] = server[q],
           row # Absent => row' # Absent, user => user', ServerFits(p)'
    PROVE  ServersFit'
<1> SUFFICES ASSUME NEW q \in Servers, q # p PROVE ServerFits(q)'
  BY DEF ServersFit
<1>1. ServerFits(q) /\ server'[q] = server[q]
  BY CoreHolds DEF ServersFit
<1> QED BY <1>1 DEF ServerFits

LEMMA StepServersFit ==
    ASSUME CoreInv, EnvironmentsNext
    PROVE  ServersFit'
<1>1. ASSUME NEW p \in Servers, NEW k \in EncryptionKeys \cup {NoKey}, Start(p, k)
      PROVE  ServersFit'
  <2>1. \A q \in Servers : q # p => server'[q] = server[q]
    BY <1>1, StartDoes, CoreHolds DEF Turned, NextRowTurned, Cached
  <2>2. (row # Absent => row' # Absent) /\ (user => user')
    BY StepPresent
  <2>3. ServerFits(p)
    BY CoreHolds DEF ServersFit
  <2>6. ServerFits(p)'
    BY <2>2, <2>3, <1>1, StartDoes, CoreHolds, AbsentFields DEF ServerFits, Encrypting, Turned,
       Types
  <2> QED BY <2>1, <2>2, <2>6, ServersStay
<1>2. ASSUME NEW p \in Servers, EncryptDatabaseIfNeeded(p)
      PROVE  ServersFit'
  <2>1. \A q \in Servers : q # p => server'[q] = server[q]
    BY <1>2, EncryptDatabaseIfNeededDoes, CoreHolds DEF Turned, NextRowTurned, Cached
  <2>2. (row # Absent => row' # Absent) /\ (user => user')
    BY StepPresent
  <2>3. ServerFits(p)
    BY CoreHolds DEF ServersFit
  <2>6. ServerFits(p)'
    BY <2>2, <2>3, <1>2, EncryptDatabaseIfNeededDoes, CoreHolds, AbsentFields DEF ServerFits,
       Encrypting, Turned, ConfigFits
  <2> QED BY <2>1, <2>2, <2>6, ServersStay
<1>3. ASSUME NEW p \in Servers, DropConfig(p)
      PROVE  ServersFit'
  <2>1. \A q \in Servers : q # p => server'[q] = server[q]
    BY <1>3, DropConfigDoes, CoreHolds DEF Turned, NextRowTurned, Cached
  <2>2. (row # Absent => row' # Absent) /\ (user => user')
    BY StepPresent
  <2>3. ServerFits(p)
    BY CoreHolds DEF ServersFit
  <2>6. ServerFits(p)'
    BY <2>2, <2>3, <1>3, DropConfigDoes, CoreHolds, AbsentFields DEF ServerFits, Encrypting,
       Turned, Types
  <2> QED BY <2>1, <2>2, <2>6, ServersStay
<1>4. ASSUME NEW p \in Servers, InsertConfig(p)
      PROVE  ServersFit'
  <2>1. \A q \in Servers : q # p => server'[q] = server[q]
    BY <1>4, InsertConfigDoes, CoreHolds DEF Turned, NextRowTurned, Cached
  <2>2. (row # Absent => row' # Absent) /\ (user => user')
    BY StepPresent
  <2>3. ServerFits(p)
    BY CoreHolds DEF ServersFit
  <2>6. ServerFits(p)'
    BY <2>2, <2>3, <1>4, InsertConfigDoes, CoreHolds, AbsentFields DEF ServerFits, Encrypting,
       Turned, Types
  <2> QED BY <2>1, <2>2, <2>6, ServersStay
<1>5. ASSUME NEW p \in Servers, ReadEnvironments(p)
      PROVE  ServersFit'
  <2>1. \A q \in Servers : q # p => server'[q] = server[q]
    BY <1>5, ReadEnvironmentsDoes, CoreHolds DEF Turned, NextRowTurned, Cached
  <2>2. (row # Absent => row' # Absent) /\ (user => user')
    BY StepPresent
  <2>3. ServerFits(p)
    BY CoreHolds DEF ServersFit
  <2>6. ServerFits(p)'
    BY <2>2, <2>3, <1>5, ReadEnvironmentsDoes, CoreHolds, AbsentFields DEF ServerFits,
       Encrypting, Turned, RowFits
  <2> QED BY <2>1, <2>2, <2>6, ServersStay
<1>6. ASSUME NEW p \in Servers, EncryptDatabase(p)
      PROVE  ServersFit'
  <2>1. \A q \in Servers : q # p => server'[q] = server[q]
    BY <1>6, EncryptDatabaseDoes, CoreHolds DEF Turned, NextRowTurned, Cached
  <2>2. (row # Absent => row' # Absent) /\ (user => user')
    BY StepPresent
  <2>3. ServerFits(p)
    BY CoreHolds DEF ServersFit
  <2>6. ServerFits(p)'
    BY <2>2, <2>3, <1>6, EncryptDatabaseDoes, CoreHolds, AbsentFields DEF ServerFits,
       Encrypting, Turned, Types
  <2> QED BY <2>1, <2>2, <2>6, ServersStay
<1>7. ASSUME NEW p \in Servers, ReadRows(p)
      PROVE  ServersFit'
  <2>1. \A q \in Servers : q # p => server'[q] = server[q]
    BY <1>7, ReadRowsDoes, CoreHolds DEF Turned, NextRowTurned, Cached
  <2>2. (row # Absent => row' # Absent) /\ (user => user')
    BY StepPresent
  <2>3. ServerFits(p)
    BY CoreHolds DEF ServersFit
  <2>4. server[p].key # NoKey /\ server[p].cache = {} /\ server[p].pc = "readRows"
    BY <2>3, <1>7, ReadRowsDoes, CoreHolds DEF ServerFits, Encrypting
  <2>5. NextRowTurned(p, {x \in tables[Tables[server[p].table]] : ~x.text.iv})
    BY <1>7, ReadRowsDoes, CoreHolds
  <2>6. server[p].table = 2 => \A x \in tables[Tables[server[p].table]] : x.id = x.text.key
    BY CoreHolds, TableTypes DEF TablesFit
  <2>7. ServerFits(p)'
    BY <2>3, <2>4, <2>5, <2>6 DEF ServerFits, Encrypting, Turned, NextRowTurned
  <2> QED BY <2>1, <2>2, <2>7, ServersStay
<1>8. ASSUME NEW p \in Servers, NEW x \in server[p].rows, EncryptRow(p, x)
      PROVE  ServersFit'
  <2>1. \A q \in Servers : q # p => server'[q] = server[q]
    BY <1>8, EncryptRowDoes, CoreHolds DEF Turned, NextRowTurned, Cached
  <2>2. (row # Absent => row' # Absent) /\ (user => user')
    BY StepPresent
  <2>3. ServerFits(p)
    BY CoreHolds DEF ServersFit
  <2>4. server[p].key # NoKey /\ server[p].cache = {} /\ server[p].pc = "encryptRows"
    BY <2>3, <1>8, EncryptRowDoes, CoreHolds DEF ServerFits, Encrypting
  <2>5. NextRowTurned(p, server[p].rows \ {x})
    BY <1>8, EncryptRowDoes, CoreHolds
  <2>6. ServerFits(p)'
    BY <2>3, <2>4, <2>5 DEF ServerFits, Encrypting, Turned, NextRowTurned
  <2> QED BY <2>1, <2>2, <2>6, ServersStay
<1>9. ASSUME NEW p \in Servers, CacheSecrets(p)
      PROVE  ServersFit'
  <2>1. \A q \in Servers : q # p => server'[q] = server[q]
    BY <1>9, CacheSecretsDoes, CoreHolds, PresentKey DEF Turned, NextRowTurned, Cached
  <2>2. (row # Absent => row' # Absent) /\ (user => user')
    BY StepPresent
  <2>3. ServerFits(p)
    BY CoreHolds DEF ServersFit
  <2>6. ServerFits(p)'
    BY <2>2, <2>3, <1>9, CacheSecretsDoes, CoreHolds, PresentKey, AbsentFields DEF ServerFits,
       Encrypting, Turned, Types
  <2> QED BY <2>1, <2>2, <2>6, ServersStay
<1>10. ASSUME NEW p \in Servers, Stop(p)
       PROVE  ServersFit'
  <2>1. \A q \in Servers : q # p => server'[q] = server[q]
    BY <1>10, StopDoes, CoreHolds DEF Turned, NextRowTurned, Cached
  <2>2. (row # Absent => row' # Absent) /\ (user => user')
    BY StepPresent
  <2>3. ServerFits(p)
    BY CoreHolds DEF ServersFit
  <2>6. ServerFits(p)'
    BY <2>2, <2>3, <1>10, StopDoes, CoreHolds, AbsentFields DEF ServerFits, Encrypting, Turned,
       Types
  <2> QED BY <2>1, <2>2, <2>6, ServersStay
<1>11. ASSUME NEW r \in Requests, NEW p \in Servers, RotateKey(r, p)
       PROVE  ServersFit'
  <2>1. \A q \in Servers : q # p => server'[q] = server[q]
    BY <1>11, RotateKeyDoes, CoreHolds
  <2>2. (row # Absent => row' # Absent) /\ (user => user')
    BY StepPresent
  <2>3. ServerFits(p)
    BY CoreHolds DEF ServersFit
  <2>6. ServerFits(p)'
    BY <2>2, <2>3, <1>11, RotateKeyDoes, CoreHolds DEF ServerFits
  <2> QED BY <2>1, <2>2, <2>6, ServersStay
<1>12. ASSUME NEW r \in Requests, NEW p \in Servers, RevertKey(r, p)
       PROVE  ServersFit'
  <2>1. \A q \in Servers : q # p => server'[q] = server[q]
    BY <1>12, RevertKeyDoes, CoreHolds
  <2>2. (row # Absent => row' # Absent) /\ (user => user')
    BY StepPresent
  <2>3. ServerFits(p)
    BY CoreHolds DEF ServersFit
  <2>6. ServerFits(p)'
    BY <2>2, <2>3, <1>12, RevertKeyDoes, CoreHolds DEF ServerFits
  <2> QED BY <2>1, <2>2, <2>6, ServersStay
<1>13. ASSUME NEW r \in Requests, NEW p \in Servers, ActivateKey(r, p)
       PROVE  ServersFit'
  <2>1. \A q \in Servers : q # p => server'[q] = server[q]
    BY <1>13, ActivateKeyDoes, CoreHolds
  <2>2. (row # Absent => row' # Absent) /\ (user => user')
    BY StepPresent
  <2>3. ServerFits(p)
    BY CoreHolds DEF ServersFit
  <2>6. ServerFits(p)'
    BY <2>2, <2>3, <1>13, ActivateKeyDoes, CoreHolds DEF ServerFits
  <2> QED BY <2>1, <2>2, <2>6, ServersStay
<1>14. ASSUME NEW r \in Requests, NEW p \in Servers, UpdateSetting(r, p)
       PROVE  ServersFit'
  <2>1. \A q \in Servers : q # p => server'[q] = server[q]
    BY <1>14, UpdateSettingDoes, CoreHolds
  <2>2. (row # Absent => row' # Absent) /\ (user => user')
    BY StepPresent
  <2>3. ServerFits(p)
    BY CoreHolds DEF ServersFit
  <2>6. ServerFits(p)'
    BY <2>2, <2>3, <1>14, UpdateSettingDoes, CoreHolds DEF ServerFits
  <2> QED BY <2>1, <2>2, <2>6, ServersStay
<1>15. ASSUME NEW r \in Requests, NEW p \in Servers, UpdateEnvironmentVariables(r, p)
       PROVE  ServersFit'
  <2>1. \A q \in Servers : q # p => server'[q] = server[q]
    BY <1>15, UpdateEnvironmentVariablesDoes, CoreHolds
  <2>2. (row # Absent => row' # Absent) /\ (user => user')
    BY StepPresent
  <2>3. ServerFits(p)
    BY CoreHolds DEF ServersFit
  <2>6. ServerFits(p)'
    BY <2>2, <2>3, <1>15, UpdateEnvironmentVariablesDoes, CoreHolds DEF ServerFits
  <2> QED BY <2>1, <2>2, <2>6, ServersStay
<1>16. ASSUME NEW r \in Requests, NEW p \in Servers, SaveCredentials(r, p)
       PROVE  ServersFit'
  <2>1. \A q \in Servers : q # p => server'[q] = server[q]
    BY <1>16, SaveCredentialsDoes, CoreHolds
  <2>2. (row # Absent => row' # Absent) /\ (user => user')
    BY StepPresent
  <2>3. ServerFits(p)
    BY CoreHolds DEF ServersFit
  <2>6. ServerFits(p)'
    BY <2>2, <2>3, <1>16, SaveCredentialsDoes, CoreHolds DEF ServerFits
  <2> QED BY <2>1, <2>2, <2>6, ServersStay
<1>17. ASSUME NEW r \in Requests, NEW p \in Servers, CreateEnvironment(r, p)
       PROVE  ServersFit'
  <2>1. \A q \in Servers : q # p => server'[q] = server[q]
    BY <1>17, CreateEnvironmentDoes, CoreHolds
  <2>2. (row # Absent => row' # Absent) /\ (user => user')
    BY StepPresent
  <2>3. ServerFits(p)
    BY CoreHolds DEF ServersFit
  <2>6. ServerFits(p)'
    BY <2>2, <2>3, <1>17, CreateEnvironmentDoes, CoreHolds DEF ServerFits
  <2> QED BY <2>1, <2>2, <2>6, ServersStay
<1>18. ASSUME NEW r \in Requests, NEW p \in Servers, task[r].at = p, WritePending(r)
       PROVE  ServersFit'
  <2>1. \A q \in Servers : q # p => server'[q] = server[q]
    BY <1>18, WritePendingDoes, CoreHolds
  <2>2. (row # Absent => row' # Absent) /\ (user => user')
    BY StepPresent
  <2>3. ServerFits(p)
    BY CoreHolds DEF ServersFit
  <2>6. ServerFits(p)'
    BY <2>2, <2>3, <1>18, WritePendingDoes, CoreHolds DEF ServerFits
  <2> QED BY <2>1, <2>2, <2>6, ServersStay
<1>19. ASSUME NEW r \in Requests, NEW p \in Servers, task[r].at = p, WriteRotated(r)
       PROVE  ServersFit'
  <2>1. \A q \in Servers : q # p => server'[q] = server[q]
    BY <1>19, WriteRotatedDoes, CoreHolds
  <2>2. (row # Absent => row' # Absent) /\ (user => user')
    BY StepPresent
  <2>3. ServerFits(p)
    BY CoreHolds DEF ServersFit
  <2>6. ServerFits(p)'
    BY <2>2, <2>3, <1>19, WriteRotatedDoes, CoreHolds DEF ServerFits
  <2> QED BY <2>1, <2>2, <2>6, ServersStay
<1>20. ASSUME NEW r \in Requests, NEW p \in Servers, task[r].at = p, RevertSecretKey(r)
       PROVE  ServersFit'
  <2>1. \A q \in Servers : q # p => server'[q] = server[q]
    BY <1>20, RevertSecretKeyDoes, CoreHolds
  <2>2. (row # Absent => row' # Absent) /\ (user => user')
    BY StepPresent
  <2>3. ServerFits(p)
    BY CoreHolds DEF ServersFit
  <2>6. ServerFits(p)'
    BY <2>2, <2>3, <1>20, RevertSecretKeyDoes, CoreHolds DEF ServerFits
  <2> QED BY <2>1, <2>2, <2>6, ServersStay
<1>21. ASSUME NEW r \in Requests, NEW p \in Servers, task[r].at = p, ReplaceKey(r)
       PROVE  ServersFit'
  <2>0. UNCHANGED server \/ Cached(p, server[p].cache \ {task[r].row.secret.key}) \/ Cached(p, server[p].cache)
    BY <1>21, ReplaceKeyDoes, CoreHolds
  <2>1. \A q \in Servers : q # p => server'[q] = server[q]
    BY <2>0 DEF Cached, Turned
  <2>2. (row # Absent => row' # Absent) /\ (user => user')
    BY StepPresent
  <2>3. ServerFits(p)
    BY CoreHolds DEF ServersFit
  <2>4. server[p].pc = "serving" /\ row # Absent
    BY <1>21, StepAt DEF Step
  <2>6. ServerFits(p)'
    BY <2>0, <2>2, <2>3, <2>4 DEF ServerFits, Encrypting, Turned, Cached
  <2> QED BY <2>1, <2>2, <2>6, ServersStay
<1>22. ASSUME NEW r \in Requests, NEW p \in Servers, task[r].at = p, AddToEnvironmentSecretCache(r)
       PROVE  ServersFit'
  <2>0. row.secret.key # None
    BY <1>22, StepAt DEF Step
  <2>1. \A q \in Servers : q # p => server'[q] = server[q]
    BY <1>22, AddToEnvironmentSecretCacheDoes, CoreHolds, <2>0 DEF Turned, NextRowTurned, Cached
  <2>2. (row # Absent => row' # Absent) /\ (user => user')
    BY StepPresent
  <2>3. ServerFits(p)
    BY CoreHolds DEF ServersFit
  <2>4. server[p].pc = "serving" /\ row # Absent
    BY <1>22, StepAt DEF Step
  <2>5. \E cache : Cached(p, cache)
    BY <1>22, AddToEnvironmentSecretCacheDoes, CoreHolds, <2>0
  <2>6. ServerFits(p)'
    BY <2>2, <2>3, <2>4, <2>5 DEF ServerFits, Encrypting, Turned, Cached
  <2> QED BY <2>1, <2>2, <2>6, ServersStay
<1>23. ASSUME NEW r \in Requests, NEW p \in Servers, task[r].at = p, InsertVariables(r)
       PROVE  ServersFit'
  <2>1. \A q \in Servers : q # p => server'[q] = server[q]
    BY <1>23, InsertVariablesDoes, CoreHolds
  <2>2. (row # Absent => row' # Absent) /\ (user => user')
    BY StepPresent
  <2>3. ServerFits(p)
    BY CoreHolds DEF ServersFit
  <2>6. ServerFits(p)'
    BY <2>2, <2>3, <1>23, InsertVariablesDoes, CoreHolds DEF ServerFits
  <2> QED BY <2>1, <2>2, <2>6, ServersStay
<1>24. ASSUME NEW r \in Requests, NEW p \in Servers, task[r].at = p, ReadCreated(r)
       PROVE  ServersFit'
  <2>1. \A q \in Servers : q # p => server'[q] = server[q]
    BY <1>24, ReadCreatedDoes, CoreHolds
  <2>2. (row # Absent => row' # Absent) /\ (user => user')
    BY StepPresent
  <2>3. ServerFits(p)
    BY CoreHolds DEF ServersFit
  <2>6. ServerFits(p)'
    BY <2>2, <2>3, <1>24, ReadCreatedDoes, CoreHolds DEF ServerFits
  <2> QED BY <2>1, <2>2, <2>6, ServersStay
<1>25. ASSUME NEW r \in Requests, NEW p \in Servers, task[r].at = p, WriteCreated(r)
       PROVE  ServersFit'
  <2>1. \A q \in Servers : q # p => server'[q] = server[q]
    BY <1>25, WriteCreatedDoes, CoreHolds, EncryptedPresent DEF Turned, NextRowTurned, Cached
  <2>2. (row # Absent => row' # Absent) /\ (user => user')
    BY StepPresent
  <2>3. ServerFits(p)
    BY CoreHolds DEF ServersFit
  <2>4. server[p].pc = "serving" /\ row # Absent
    BY <1>25, StepAt DEF Step
  <2>5. \E cache : Cached(p, cache)
    BY <1>25, WriteCreatedDoes, CoreHolds, EncryptedPresent
  <2>6. ServerFits(p)'
    BY <2>2, <2>3, <2>4, <2>5 DEF ServerFits, Encrypting, Turned, Cached
  <2> QED BY <2>1, <2>2, <2>6, ServersStay
<1>26. ASSUME NEW r \in Requests, NEW p \in Servers, task[r].at = p, CreateUser(r)
       PROVE  ServersFit'
  <2>1. \A q \in Servers : q # p => server'[q] = server[q]
    BY <1>26, CreateUserDoes, CoreHolds
  <2>2. (row # Absent => row' # Absent) /\ (user => user')
    BY StepPresent
  <2>3. ServerFits(p)
    BY CoreHolds DEF ServersFit
  <2>6. ServerFits(p)'
    BY <2>2, <2>3, <1>26, CreateUserDoes, CoreHolds DEF ServerFits
  <2> QED BY <2>1, <2>2, <2>6, ServersStay
<1> QED BY <1>1, <1>2, <1>3, <1>4, <1>5, <1>6, <1>7, <1>8, <1>9, <1>10, <1>11, <1>12, <1>13,
           <1>14, <1>15, <1>16, <1>17, <1>18, <1>19, <1>20, <1>21, <1>22, <1>23, <1>24, <1>25,
           <1>26, StepAt DEF EnvironmentsNext, Boot, Request, Step


(***************************************************************************)
(* The invariant, whatever happens.                                        *)
(***************************************************************************)

LEMMA InitCore == EnvironmentsInit => CoreInv
<1> SUFFICES ASSUME EnvironmentsInit PROVE CoreInv
  OBVIOUS
<1>1. row \in RowType /\ WellRow(row) /\ row.pending = NoText
  BY RowTypes, AbsentWell, AbsentFields DEF EnvironmentsInit
<1>2. 0 \in Keys /\ 0 \in Settings /\ TableNames = {"credentials", "variables"}
  BY BoundsAssumption DEF Keys, Settings, TableNames
<1>3. InTheClear(0, 0) \in TableRows
  BY <1>2, ClearTypes
<1>4. tables \in [TableNames -> SUBSET TableRows]
      /\ \A t \in TableNames : \A x \in tables[t] : x = InTheClear(0, 0)
  BY <1>3 DEF EnvironmentsInit
<1>5. wanted \in [setting : Settings, rows : [TableNames -> SUBSET Keys]]
  BY <1>2 DEF EnvironmentsInit
<1>6. server \in [Servers -> ServerType] /\ task \in [Requests -> TaskType]
  BY LocalTypes DEF EnvironmentsInit
<1>7. Types
  BY <1>1, <1>4, <1>5, <1>6, BoundsAssumption DEF Types, EnvironmentsInit, NoConfig
<1>8. ConfigFits /\ RowFits
  BY <1>1 DEF ConfigFits, RowFits, EnvironmentsInit
<1>9. TablesFit
  BY <1>2, <1>4, ClearFields DEF TablesFit
<1>10. Idle.pc = "idle" /\ Down.pc = "down" /\ Down.cache = {}
  BY DEF Idle, Down
<1>11. TasksFit
  BY <1>10 DEF TasksFit, TaskFits, Sessions, Creators, Reading, EnvironmentsInit
<1>12. ServersFit
  BY <1>10 DEF ServersFit, ServerFits, Encrypting, EnvironmentsInit
<1> QED BY <1>7, <1>8, <1>9, <1>11, <1>12 DEF CoreInv

LEMMA StepCore == CoreInv /\ [EnvironmentsNext]_environmentsVars => CoreInv'
<1>1. ASSUME CoreInv, EnvironmentsNext PROVE CoreInv'
  BY <1>1, CoreHolds, StepTypes, StepConfigFits, StepRowFits, StepTablesFit, StepTasksFit,
     StepServersFit
     DEF CoreInv
<1>2. ASSUME CoreInv, UNCHANGED environmentsVars PROVE CoreInv'
  BY SMTT(60), <1>2 DEF CoreInv, Types, ConfigFits, RowFits, WellRow, TablesFit, TasksFit,
     TaskFits, ServersFit,
              ServerFits, environmentsVars, bounds
<1> QED BY <1>1, <1>2

LEMMA SpecCore == EnvironmentsSpec => []CoreInv
BY InitCore, StepCore, PTL DEF EnvironmentsSpec

\* The variables have their types, the row has a key, and a key that is not encrypted never has a pending
\* key that is, which decryptEnvironment would return as it is.
THEOREM Typing == EnvironmentsSpec => []EnvironmentsTypeOK
<1>1. ASSUME CoreInv PROVE EnvironmentsTypeOK
  <2>1. Types /\ WellRow(row)
    BY <1>1 DEF CoreInv, RowFits
  <2>2. ~row.secret.iv => row.pending.by = NoKey
    BY <2>1 DEF WellRow
  <2>3. TableRows = [id : Keys, text : Texts]
    BY DEF TableRows
  <2> QED BY <2>1, <2>2, <2>3 DEF EnvironmentsTypeOK, Types, WellRow, ServerType, TaskType
<1> QED BY <1>1, SpecCore, PTL

(***************************************************************************)
(* The servers share a key, unless one was started with another.           *)
(***************************************************************************)

By(k, t) == t.by \in {k, NoKey}

OneKey ==
    "keys" \notin reasons =>
        \A p, q \in Servers : server[p].pc # "down" /\ server[q].pc # "down" => server[p].key = server[q].key

ReadsRow ==
    "keys" \notin reasons =>
        \A p \in Servers : server[p].pc = "serving" =>
            By(server[p].key, row.secret) /\ By(server[p].key, row.pending)

\* No server comes up, no key changes, and no server comes to serve.
KeysKept ==
    \A q \in Servers : server'[q].pc # "down" => server[q].pc # "down" /\ server'[q].key = server[q].key
ServingKept == \A q \in Servers : server'[q].pc = "serving" => server[q].pc = "serving"

Starting == \E p \in Servers, k \in EncryptionKeys \cup {NoKey} : Start(p, k)
Caching == \E p \in Servers : CacheSecrets(p)

\* The servers that encrypt.
Writing(p) == server[p].pc \in {"encrypt", "encryptRows", "serving"}

\* What is written in the row, and in the tables, is by the key of a server.
RowBy(t) ==
    t.by \in {NoKey, row.secret.by, row.pending.by} \/ \E p \in Servers : Writing(p) /\ t.by = server[p].key
TablesBy ==
    \A t \in TableNames : \A x \in tables'[t] :
        x \in tables[t] \/ \E p \in Servers : Writing(p) /\ x.text.by = server[p].key

LEMMA StepReasons ==
    ASSUME CoreInv, EnvironmentsNext
    PROVE  reasons \subseteq reasons'
<1> USE DEF Overlapping
<1>1. ASSUME NEW p \in Servers, NEW k \in EncryptionKeys \cup {NoKey}, Start(p, k)
      PROVE  reasons \subseteq reasons'
  BY <1>1, StartDoes, CoreHolds
<1>2. ASSUME NEW p \in Servers, EncryptDatabaseIfNeeded(p)
      PROVE  reasons \subseteq reasons'
  BY <1>2, EncryptDatabaseIfNeededDoes, CoreHolds
<1>3. ASSUME NEW p \in Servers, DropConfig(p)
      PROVE  reasons \subseteq reasons'
  BY <1>3, DropConfigDoes, CoreHolds
<1>4. ASSUME NEW p \in Servers, InsertConfig(p)
      PROVE  reasons \subseteq reasons'
  BY <1>4, InsertConfigDoes, CoreHolds
<1>5. ASSUME NEW p \in Servers, ReadEnvironments(p)
      PROVE  reasons \subseteq reasons'
  BY <1>5, ReadEnvironmentsDoes, CoreHolds
<1>6. ASSUME NEW p \in Servers, EncryptDatabase(p)
      PROVE  reasons \subseteq reasons'
  BY <1>6, EncryptDatabaseDoes, CoreHolds
<1>7. ASSUME NEW p \in Servers, ReadRows(p)
      PROVE  reasons \subseteq reasons'
  BY <1>7, ReadRowsDoes, CoreHolds
<1>8. ASSUME NEW p \in Servers, NEW x \in server[p].rows, EncryptRow(p, x)
      PROVE  reasons \subseteq reasons'
  BY <1>8, EncryptRowDoes, CoreHolds
<1>9. ASSUME NEW p \in Servers, CacheSecrets(p)
      PROVE  reasons \subseteq reasons'
  BY <1>9, CacheSecretsDoes, CoreHolds, PresentKey
<1>10. ASSUME NEW p \in Servers, Stop(p)
       PROVE  reasons \subseteq reasons'
  BY <1>10, StopDoes, CoreHolds
<1>11. ASSUME NEW r \in Requests, NEW p \in Servers, RotateKey(r, p)
       PROVE  reasons \subseteq reasons'
  BY <1>11, RotateKeyDoes, CoreHolds
<1>12. ASSUME NEW r \in Requests, NEW p \in Servers, RevertKey(r, p)
       PROVE  reasons \subseteq reasons'
  BY <1>12, RevertKeyDoes, CoreHolds
<1>13. ASSUME NEW r \in Requests, NEW p \in Servers, ActivateKey(r, p)
       PROVE  reasons \subseteq reasons'
  BY <1>13, ActivateKeyDoes, CoreHolds
<1>14. ASSUME NEW r \in Requests, NEW p \in Servers, UpdateSetting(r, p)
       PROVE  reasons \subseteq reasons'
  BY <1>14, UpdateSettingDoes, CoreHolds
<1>15. ASSUME NEW r \in Requests, NEW p \in Servers, UpdateEnvironmentVariables(r, p)
       PROVE  reasons \subseteq reasons'
  BY <1>15, UpdateEnvironmentVariablesDoes, CoreHolds
<1>16. ASSUME NEW r \in Requests, NEW p \in Servers, SaveCredentials(r, p)
       PROVE  reasons \subseteq reasons'
  BY <1>16, SaveCredentialsDoes, CoreHolds
<1>17. ASSUME NEW r \in Requests, NEW p \in Servers, CreateEnvironment(r, p)
       PROVE  reasons \subseteq reasons'
  BY <1>17, CreateEnvironmentDoes, CoreHolds
<1>18. ASSUME NEW r \in Requests, NEW p \in Servers, task[r].at = p, WritePending(r)
       PROVE  reasons \subseteq reasons'
  BY <1>18, WritePendingDoes, CoreHolds
<1>19. ASSUME NEW r \in Requests, NEW p \in Servers, task[r].at = p, WriteRotated(r)
       PROVE  reasons \subseteq reasons'
  BY <1>19, WriteRotatedDoes, CoreHolds
<1>20. ASSUME NEW r \in Requests, NEW p \in Servers, task[r].at = p, RevertSecretKey(r)
       PROVE  reasons \subseteq reasons'
  BY <1>20, RevertSecretKeyDoes, CoreHolds
<1>21. ASSUME NEW r \in Requests, NEW p \in Servers, task[r].at = p, ReplaceKey(r)
       PROVE  reasons \subseteq reasons'
  BY <1>21, ReplaceKeyDoes, CoreHolds
<1>22. ASSUME NEW r \in Requests, NEW p \in Servers, task[r].at = p, AddToEnvironmentSecretCache(r)
       PROVE  reasons \subseteq reasons'
  <2>0. row.secret.key # None
    BY <1>22, StepAt DEF Step
  <2> QED BY <1>22, AddToEnvironmentSecretCacheDoes, CoreHolds, <2>0
<1>23. ASSUME NEW r \in Requests, NEW p \in Servers, task[r].at = p, InsertVariables(r)
       PROVE  reasons \subseteq reasons'
  BY <1>23, InsertVariablesDoes, CoreHolds
<1>24. ASSUME NEW r \in Requests, NEW p \in Servers, task[r].at = p, ReadCreated(r)
       PROVE  reasons \subseteq reasons'
  BY <1>24, ReadCreatedDoes, CoreHolds
<1>25. ASSUME NEW r \in Requests, NEW p \in Servers, task[r].at = p, WriteCreated(r)
       PROVE  reasons \subseteq reasons'
  BY <1>25, WriteCreatedDoes, CoreHolds, EncryptedPresent
<1>26. ASSUME NEW r \in Requests, NEW p \in Servers, task[r].at = p, CreateUser(r)
       PROVE  reasons \subseteq reasons'
  BY <1>26, CreateUserDoes, CoreHolds
<1> QED BY <1>1, <1>2, <1>3, <1>4, <1>5, <1>6, <1>7, <1>8, <1>9, <1>10, <1>11, <1>12, <1>13,
           <1>14, <1>15, <1>16, <1>17, <1>18, <1>19, <1>20, <1>21, <1>22, <1>23, <1>24, <1>25,
           <1>26, StepAt DEF EnvironmentsNext, Boot, Request, Step

LEMMA StepKeys ==
    ASSUME CoreInv, EnvironmentsNext
    PROVE  KeysKept \/ Starting
<1> USE DEF Turned, NextRowTurned, KeysKept, Cached
<1>1. ASSUME NEW p \in Servers, NEW k \in EncryptionKeys \cup {NoKey}, Start(p, k)
      PROVE  KeysKept \/ Starting
  BY <1>1 DEF Starting
<1>2. ASSUME NEW p \in Servers, EncryptDatabaseIfNeeded(p)
      PROVE  KeysKept \/ Starting
  BY <1>2, EncryptDatabaseIfNeededDoes, CoreHolds
<1>3. ASSUME NEW p \in Servers, DropConfig(p)
      PROVE  KeysKept \/ Starting
  BY <1>3, DropConfigDoes, CoreHolds
<1>4. ASSUME NEW p \in Servers, InsertConfig(p)
      PROVE  KeysKept \/ Starting
  BY <1>4, InsertConfigDoes, CoreHolds
<1>5. ASSUME NEW p \in Servers, ReadEnvironments(p)
      PROVE  KeysKept \/ Starting
  BY <1>5, ReadEnvironmentsDoes, CoreHolds
<1>6. ASSUME NEW p \in Servers, EncryptDatabase(p)
      PROVE  KeysKept \/ Starting
  BY <1>6, EncryptDatabaseDoes, CoreHolds
<1>7. ASSUME NEW p \in Servers, ReadRows(p)
      PROVE  KeysKept \/ Starting
  BY <1>7, ReadRowsDoes, CoreHolds
<1>8. ASSUME NEW p \in Servers, NEW x \in server[p].rows, EncryptRow(p, x)
      PROVE  KeysKept \/ Starting
  BY <1>8, EncryptRowDoes, CoreHolds
<1>9. ASSUME NEW p \in Servers, CacheSecrets(p)
      PROVE  KeysKept \/ Starting
  BY <1>9, CacheSecretsDoes, CoreHolds, PresentKey
<1>10. ASSUME NEW p \in Servers, Stop(p)
       PROVE  KeysKept \/ Starting
  BY <1>10, StopDoes, CoreHolds
<1>11. ASSUME NEW r \in Requests, NEW p \in Servers, RotateKey(r, p)
       PROVE  KeysKept \/ Starting
  BY <1>11, RotateKeyDoes, CoreHolds
<1>12. ASSUME NEW r \in Requests, NEW p \in Servers, RevertKey(r, p)
       PROVE  KeysKept \/ Starting
  BY <1>12, RevertKeyDoes, CoreHolds
<1>13. ASSUME NEW r \in Requests, NEW p \in Servers, ActivateKey(r, p)
       PROVE  KeysKept \/ Starting
  BY <1>13, ActivateKeyDoes, CoreHolds
<1>14. ASSUME NEW r \in Requests, NEW p \in Servers, UpdateSetting(r, p)
       PROVE  KeysKept \/ Starting
  BY <1>14, UpdateSettingDoes, CoreHolds
<1>15. ASSUME NEW r \in Requests, NEW p \in Servers, UpdateEnvironmentVariables(r, p)
       PROVE  KeysKept \/ Starting
  BY <1>15, UpdateEnvironmentVariablesDoes, CoreHolds
<1>16. ASSUME NEW r \in Requests, NEW p \in Servers, SaveCredentials(r, p)
       PROVE  KeysKept \/ Starting
  BY <1>16, SaveCredentialsDoes, CoreHolds
<1>17. ASSUME NEW r \in Requests, NEW p \in Servers, CreateEnvironment(r, p)
       PROVE  KeysKept \/ Starting
  BY <1>17, CreateEnvironmentDoes, CoreHolds
<1>18. ASSUME NEW r \in Requests, NEW p \in Servers, task[r].at = p, WritePending(r)
       PROVE  KeysKept \/ Starting
  BY <1>18, WritePendingDoes, CoreHolds
<1>19. ASSUME NEW r \in Requests, NEW p \in Servers, task[r].at = p, WriteRotated(r)
       PROVE  KeysKept \/ Starting
  BY <1>19, WriteRotatedDoes, CoreHolds
<1>20. ASSUME NEW r \in Requests, NEW p \in Servers, task[r].at = p, RevertSecretKey(r)
       PROVE  KeysKept \/ Starting
  BY <1>20, RevertSecretKeyDoes, CoreHolds
<1>21. ASSUME NEW r \in Requests, NEW p \in Servers, task[r].at = p, ReplaceKey(r)
       PROVE  KeysKept \/ Starting
  <2>1. UNCHANGED server \/ Cached(p, server[p].cache \ {task[r].row.secret.key}) \/ Cached(p, server[p].cache)
    BY <1>21, ReplaceKeyDoes, CoreHolds
  <2> QED BY <2>1
<1>22. ASSUME NEW r \in Requests, NEW p \in Servers, task[r].at = p, AddToEnvironmentSecretCache(r)
       PROVE  KeysKept \/ Starting
  <2>0. row.secret.key # None
    BY <1>22, StepAt DEF Step
  <2> QED BY <1>22, AddToEnvironmentSecretCacheDoes, CoreHolds, <2>0
<1>23. ASSUME NEW r \in Requests, NEW p \in Servers, task[r].at = p, InsertVariables(r)
       PROVE  KeysKept \/ Starting
  BY <1>23, InsertVariablesDoes, CoreHolds
<1>24. ASSUME NEW r \in Requests, NEW p \in Servers, task[r].at = p, ReadCreated(r)
       PROVE  KeysKept \/ Starting
  BY <1>24, ReadCreatedDoes, CoreHolds
<1>25. ASSUME NEW r \in Requests, NEW p \in Servers, task[r].at = p, WriteCreated(r)
       PROVE  KeysKept \/ Starting
  BY <1>25, WriteCreatedDoes, CoreHolds, EncryptedPresent
<1>26. ASSUME NEW r \in Requests, NEW p \in Servers, task[r].at = p, CreateUser(r)
       PROVE  KeysKept \/ Starting
  BY <1>26, CreateUserDoes, CoreHolds
<1> QED BY <1>1, <1>2, <1>3, <1>4, <1>5, <1>6, <1>7, <1>8, <1>9, <1>10, <1>11, <1>12, <1>13,
           <1>14, <1>15, <1>16, <1>17, <1>18, <1>19, <1>20, <1>21, <1>22, <1>23, <1>24, <1>25,
           <1>26, StepAt DEF EnvironmentsNext, Boot, Request, Step

LEMMA StepServing ==
    ASSUME CoreInv, EnvironmentsNext
    PROVE  ServingKept \/ Caching
<1> USE DEF Turned, ServingKept, NextRowTurned, Cached
<1>1. ASSUME NEW p \in Servers, NEW k \in EncryptionKeys \cup {NoKey}, Start(p, k)
      PROVE  ServingKept \/ Caching
  BY <1>1, StartDoes, CoreHolds
<1>2. ASSUME NEW p \in Servers, EncryptDatabaseIfNeeded(p)
      PROVE  ServingKept \/ Caching
  BY <1>2, EncryptDatabaseIfNeededDoes, CoreHolds
<1>3. ASSUME NEW p \in Servers, DropConfig(p)
      PROVE  ServingKept \/ Caching
  BY <1>3, DropConfigDoes, CoreHolds
<1>4. ASSUME NEW p \in Servers, InsertConfig(p)
      PROVE  ServingKept \/ Caching
  BY <1>4, InsertConfigDoes, CoreHolds
<1>5. ASSUME NEW p \in Servers, ReadEnvironments(p)
      PROVE  ServingKept \/ Caching
  BY <1>5, ReadEnvironmentsDoes, CoreHolds
<1>6. ASSUME NEW p \in Servers, EncryptDatabase(p)
      PROVE  ServingKept \/ Caching
  BY <1>6, EncryptDatabaseDoes, CoreHolds
<1>7. ASSUME NEW p \in Servers, ReadRows(p)
      PROVE  ServingKept \/ Caching
  BY <1>7, ReadRowsDoes, CoreHolds
<1>8. ASSUME NEW p \in Servers, NEW x \in server[p].rows, EncryptRow(p, x)
      PROVE  ServingKept \/ Caching
  BY <1>8, EncryptRowDoes, CoreHolds
<1>9. ASSUME NEW p \in Servers, CacheSecrets(p)
      PROVE  ServingKept \/ Caching
  BY <1>9 DEF Caching
<1>10. ASSUME NEW p \in Servers, Stop(p)
       PROVE  ServingKept \/ Caching
  BY <1>10, StopDoes, CoreHolds
<1>11. ASSUME NEW r \in Requests, NEW p \in Servers, RotateKey(r, p)
       PROVE  ServingKept \/ Caching
  BY <1>11, RotateKeyDoes, CoreHolds
<1>12. ASSUME NEW r \in Requests, NEW p \in Servers, RevertKey(r, p)
       PROVE  ServingKept \/ Caching
  BY <1>12, RevertKeyDoes, CoreHolds
<1>13. ASSUME NEW r \in Requests, NEW p \in Servers, ActivateKey(r, p)
       PROVE  ServingKept \/ Caching
  BY <1>13, ActivateKeyDoes, CoreHolds
<1>14. ASSUME NEW r \in Requests, NEW p \in Servers, UpdateSetting(r, p)
       PROVE  ServingKept \/ Caching
  BY <1>14, UpdateSettingDoes, CoreHolds
<1>15. ASSUME NEW r \in Requests, NEW p \in Servers, UpdateEnvironmentVariables(r, p)
       PROVE  ServingKept \/ Caching
  BY <1>15, UpdateEnvironmentVariablesDoes, CoreHolds
<1>16. ASSUME NEW r \in Requests, NEW p \in Servers, SaveCredentials(r, p)
       PROVE  ServingKept \/ Caching
  BY <1>16, SaveCredentialsDoes, CoreHolds
<1>17. ASSUME NEW r \in Requests, NEW p \in Servers, CreateEnvironment(r, p)
       PROVE  ServingKept \/ Caching
  BY <1>17, CreateEnvironmentDoes, CoreHolds
<1>18. ASSUME NEW r \in Requests, NEW p \in Servers, task[r].at = p, WritePending(r)
       PROVE  ServingKept \/ Caching
  BY <1>18, WritePendingDoes, CoreHolds
<1>19. ASSUME NEW r \in Requests, NEW p \in Servers, task[r].at = p, WriteRotated(r)
       PROVE  ServingKept \/ Caching
  BY <1>19, WriteRotatedDoes, CoreHolds
<1>20. ASSUME NEW r \in Requests, NEW p \in Servers, task[r].at = p, RevertSecretKey(r)
       PROVE  ServingKept \/ Caching
  BY <1>20, RevertSecretKeyDoes, CoreHolds
<1>21. ASSUME NEW r \in Requests, NEW p \in Servers, task[r].at = p, ReplaceKey(r)
       PROVE  ServingKept \/ Caching
  <2>1. UNCHANGED server \/ Cached(p, server[p].cache \ {task[r].row.secret.key}) \/ Cached(p, server[p].cache)
    BY <1>21, ReplaceKeyDoes, CoreHolds
  <2> QED BY <2>1
<1>22. ASSUME NEW r \in Requests, NEW p \in Servers, task[r].at = p, AddToEnvironmentSecretCache(r)
       PROVE  ServingKept \/ Caching
  <2>0. row.secret.key # None
    BY <1>22, StepAt DEF Step
  <2> QED BY <1>22, AddToEnvironmentSecretCacheDoes, CoreHolds, <2>0
<1>23. ASSUME NEW r \in Requests, NEW p \in Servers, task[r].at = p, InsertVariables(r)
       PROVE  ServingKept \/ Caching
  BY <1>23, InsertVariablesDoes, CoreHolds
<1>24. ASSUME NEW r \in Requests, NEW p \in Servers, task[r].at = p, ReadCreated(r)
       PROVE  ServingKept \/ Caching
  BY <1>24, ReadCreatedDoes, CoreHolds
<1>25. ASSUME NEW r \in Requests, NEW p \in Servers, task[r].at = p, WriteCreated(r)
       PROVE  ServingKept \/ Caching
  BY <1>25, WriteCreatedDoes, CoreHolds, EncryptedPresent
<1>26. ASSUME NEW r \in Requests, NEW p \in Servers, task[r].at = p, CreateUser(r)
       PROVE  ServingKept \/ Caching
  BY <1>26, CreateUserDoes, CoreHolds
<1> QED BY <1>1, <1>2, <1>3, <1>4, <1>5, <1>6, <1>7, <1>8, <1>9, <1>10, <1>11, <1>12, <1>13,
           <1>14, <1>15, <1>16, <1>17, <1>18, <1>19, <1>20, <1>21, <1>22, <1>23, <1>24, <1>25,
           <1>26, StepAt DEF EnvironmentsNext, Boot, Request, Step

LEMMA StepRowBy ==
    ASSUME CoreInv, EnvironmentsNext
    PROVE  RowBy(row'.secret) /\ RowBy(row'.pending)
<1> USE DEF RowBy
<1>1. ASSUME NEW p \in Servers, NEW k \in EncryptionKeys \cup {NoKey}, Start(p, k)
      PROVE  RowBy(row'.secret) /\ RowBy(row'.pending)
  BY <1>1, StartDoes, CoreHolds
<1>2. ASSUME NEW p \in Servers, EncryptDatabaseIfNeeded(p)
      PROVE  RowBy(row'.secret) /\ RowBy(row'.pending)
  BY <1>2, EncryptDatabaseIfNeededDoes, CoreHolds
<1>3. ASSUME NEW p \in Servers, DropConfig(p)
      PROVE  RowBy(row'.secret) /\ RowBy(row'.pending)
  BY <1>3, DropConfigDoes, CoreHolds
<1>4. ASSUME NEW p \in Servers, InsertConfig(p)
      PROVE  RowBy(row'.secret) /\ RowBy(row'.pending)
  BY <1>4, InsertConfigDoes, CoreHolds
<1>5. ASSUME NEW p \in Servers, ReadEnvironments(p)
      PROVE  RowBy(row'.secret) /\ RowBy(row'.pending)
  BY <1>5, ReadEnvironmentsDoes, CoreHolds
<1>6. ASSUME NEW p \in Servers, EncryptDatabase(p)
      PROVE  RowBy(row'.secret) /\ RowBy(row'.pending)
  <2>1. /\ WellRow(server[p].row) /\ server[p].key \in EncryptionKeys \cup {NoKey}
        /\ Writing(p)
    BY <1>6, EncryptDatabaseDoes, CoreHolds DEF ServersFit, ServerFits, Types, ServerType,
       Writing
  <2>2. server[p].key # NoKey
    BY <1>6, EncryptDatabaseDoes, CoreHolds DEF ServersFit, ServerFits, Encrypting
  <2>3. row' = EncryptEnvironment(server[p].key, server[p].row)
    BY <1>6, EncryptDatabaseDoes, CoreHolds
  <2> QED BY <2>1, <2>2, <2>3, EncryptWell, AbsentFields DEF WellRow
<1>7. ASSUME NEW p \in Servers, ReadRows(p)
      PROVE  RowBy(row'.secret) /\ RowBy(row'.pending)
  BY <1>7, ReadRowsDoes, CoreHolds
<1>8. ASSUME NEW p \in Servers, NEW x \in server[p].rows, EncryptRow(p, x)
      PROVE  RowBy(row'.secret) /\ RowBy(row'.pending)
  BY <1>8, EncryptRowDoes, CoreHolds
<1>9. ASSUME NEW p \in Servers, CacheSecrets(p)
      PROVE  RowBy(row'.secret) /\ RowBy(row'.pending)
  BY <1>9, CacheSecretsDoes, CoreHolds, PresentKey
<1>10. ASSUME NEW p \in Servers, Stop(p)
       PROVE  RowBy(row'.secret) /\ RowBy(row'.pending)
  BY <1>10, StopDoes, CoreHolds
<1>11. ASSUME NEW r \in Requests, NEW p \in Servers, RotateKey(r, p)
       PROVE  RowBy(row'.secret) /\ RowBy(row'.pending)
  BY <1>11, RotateKeyDoes, CoreHolds
<1>12. ASSUME NEW r \in Requests, NEW p \in Servers, RevertKey(r, p)
       PROVE  RowBy(row'.secret) /\ RowBy(row'.pending)
  BY <1>12, RevertKeyDoes, CoreHolds
<1>13. ASSUME NEW r \in Requests, NEW p \in Servers, ActivateKey(r, p)
       PROVE  RowBy(row'.secret) /\ RowBy(row'.pending)
  BY <1>13, ActivateKeyDoes, CoreHolds
<1>14. ASSUME NEW r \in Requests, NEW p \in Servers, UpdateSetting(r, p)
       PROVE  RowBy(row'.secret) /\ RowBy(row'.pending)
  BY <1>14, UpdateSettingDoes, ConfiguredTypes, CoreHolds DEF Types
<1>15. ASSUME NEW r \in Requests, NEW p \in Servers, UpdateEnvironmentVariables(r, p)
       PROVE  RowBy(row'.secret) /\ RowBy(row'.pending)
  BY <1>15, UpdateEnvironmentVariablesDoes, CoreHolds
<1>16. ASSUME NEW r \in Requests, NEW p \in Servers, SaveCredentials(r, p)
       PROVE  RowBy(row'.secret) /\ RowBy(row'.pending)
  BY <1>16, SaveCredentialsDoes, CoreHolds
<1>17. ASSUME NEW r \in Requests, NEW p \in Servers, CreateEnvironment(r, p)
       PROVE  RowBy(row'.secret) /\ RowBy(row'.pending)
  BY <1>17, CreateEnvironmentDoes, AbsentFields, TextFields, CoreHolds
<1>18. ASSUME NEW r \in Requests, NEW p \in Servers, task[r].at = p, WritePending(r)
       PROVE  RowBy(row'.secret) /\ RowBy(row'.pending)
  BY <1>18, WritePendingDoes, PendTypes, CoreHolds DEF Types
<1>19. ASSUME NEW r \in Requests, NEW p \in Servers, task[r].at = p, WriteRotated(r)
       PROVE  RowBy(row'.secret) /\ RowBy(row'.pending)
  <2>1. /\ WellRow(task[r].row) /\ Key(r) \in EncryptionKeys \cup {NoKey} /\ Writing(p)
        /\ Key(r) = server[p].key
        /\ task[r].row.secret.iv => task[r].row.secret.by = Key(r)
        /\ task[r].row.pending.by = NoKey
    BY <1>19, WriteRotatedDoes, CoreHolds DEF TasksFit, TaskFits, Reading, Key, Types,
       ServerType, Writing
  <2>2. row' = EncryptEnvironment(Key(r), task[r].row)
    BY <1>19, WriteRotatedDoes, CoreHolds
  <2> QED BY <2>1, <2>2, EncryptWell DEF WellRow, WellText
<1>20. ASSUME NEW r \in Requests, NEW p \in Servers, task[r].at = p, RevertSecretKey(r)
       PROVE  RowBy(row'.secret) /\ RowBy(row'.pending)
  BY <1>20, RevertSecretKeyDoes, CoreHolds, AbsentFields
<1>21. ASSUME NEW r \in Requests, NEW p \in Servers, task[r].at = p, ReplaceKey(r)
       PROVE  RowBy(row'.secret) /\ RowBy(row'.pending)
  <2>1. task[r].pc = "replace" /\ TaskFits(r)
    BY <1>21, CoreHolds DEF ReplaceKey, At, TasksFit
  <2>2. RowBy(task[r].row.pending) /\ RowBy(NoText)
    BY <2>1, <1>21, AbsentFields DEF TaskFits, Reading, WellRow, Writing
  <2> QED BY <2>2, <1>21, ReplaceKeyDoes, CoreHolds
<1>22. ASSUME NEW r \in Requests, NEW p \in Servers, task[r].at = p, AddToEnvironmentSecretCache(r)
       PROVE  RowBy(row'.secret) /\ RowBy(row'.pending)
  <2>0. row.secret.key # None
    BY <1>22, StepAt DEF Step
  <2> QED BY <1>22, AddToEnvironmentSecretCacheDoes, CoreHolds, <2>0
<1>23. ASSUME NEW r \in Requests, NEW p \in Servers, task[r].at = p, InsertVariables(r)
       PROVE  RowBy(row'.secret) /\ RowBy(row'.pending)
  BY <1>23, InsertVariablesDoes, CoreHolds
<1>24. ASSUME NEW r \in Requests, NEW p \in Servers, task[r].at = p, ReadCreated(r)
       PROVE  RowBy(row'.secret) /\ RowBy(row'.pending)
  BY <1>24, ReadCreatedDoes, CoreHolds
<1>25. ASSUME NEW r \in Requests, NEW p \in Servers, task[r].at = p, WriteCreated(r)
       PROVE  RowBy(row'.secret) /\ RowBy(row'.pending)
  <2>1. /\ WellRow(task[r].row) /\ Key(r) \in EncryptionKeys \cup {NoKey} /\ Writing(p)
        /\ Key(r) = server[p].key
        /\ task[r].row.secret.iv => task[r].row.secret.by = Key(r)
        /\ task[r].row.pending = NoText
    BY <1>25, WriteCreatedDoes, EncryptedPresent, CoreHolds
       DEF TasksFit, TaskFits, Reading, Key, Types, ServerType, Writing
  <2>2. row' = EncryptEnvironment(Key(r), task[r].row)
    BY <1>25, WriteCreatedDoes, EncryptedPresent, CoreHolds
  <2> QED BY <2>1, <2>2, EncryptWell, AbsentFields DEF WellRow, WellText
<1>26. ASSUME NEW r \in Requests, NEW p \in Servers, task[r].at = p, CreateUser(r)
       PROVE  RowBy(row'.secret) /\ RowBy(row'.pending)
  BY <1>26, CreateUserDoes, CoreHolds
<1> QED BY <1>1, <1>2, <1>3, <1>4, <1>5, <1>6, <1>7, <1>8, <1>9, <1>10, <1>11, <1>12, <1>13,
           <1>14, <1>15, <1>16, <1>17, <1>18, <1>19, <1>20, <1>21, <1>22, <1>23, <1>24, <1>25,
           <1>26, StepAt DEF EnvironmentsNext, Boot, Request, Step

LEMMA StepTablesBy ==
    ASSUME CoreInv, EnvironmentsNext
    PROVE  TablesBy
<1> USE DEF TablesBy
<1>1. ASSUME NEW p \in Servers, NEW k \in EncryptionKeys \cup {NoKey}, Start(p, k)
      PROVE  TablesBy
  BY <1>1, StartDoes, CoreHolds
<1>2. ASSUME NEW p \in Servers, EncryptDatabaseIfNeeded(p)
      PROVE  TablesBy
  BY <1>2, EncryptDatabaseIfNeededDoes, CoreHolds
<1>3. ASSUME NEW p \in Servers, DropConfig(p)
      PROVE  TablesBy
  BY <1>3, DropConfigDoes, CoreHolds
<1>4. ASSUME NEW p \in Servers, InsertConfig(p)
      PROVE  TablesBy
  BY <1>4, InsertConfigDoes, CoreHolds
<1>5. ASSUME NEW p \in Servers, ReadEnvironments(p)
      PROVE  TablesBy
  BY <1>5, ReadEnvironmentsDoes, CoreHolds
<1>6. ASSUME NEW p \in Servers, EncryptDatabase(p)
      PROVE  TablesBy
  BY <1>6, EncryptDatabaseDoes, CoreHolds
<1>7. ASSUME NEW p \in Servers, ReadRows(p)
      PROVE  TablesBy
  BY <1>7, ReadRowsDoes, CoreHolds
<1>8. ASSUME NEW p \in Servers, NEW x \in server[p].rows, EncryptRow(p, x)
      PROVE  TablesBy
  <2> DEFINE t == Tables[server[p].table]
             same == {y \in tables[t] : y.id = x.id}
             e == Encrypt(server[p].key, x)
  <2>1. /\ x \in TableRows /\ server[p].key \in EncryptionKeys \cup {NoKey} /\ server[p].key # NoKey
        /\ Writing(p)
    BY <1>8, EncryptRowDoes, CoreHolds DEF ServersFit, ServerFits, Encrypting, Types,
       ServerType, Writing
  <2>2. e.text.by = server[p].key
    BY <2>1, EncryptRowWell
  <2>3. /\ t \in TableNames
        /\ tables'[t] = IF same = {} THEN tables[t] ELSE (tables[t] \ same) \cup {e}
        /\ \A u \in TableNames : u # t => tables'[u] = tables[u]
    BY <1>8, EncryptRowDoes, CoreHolds
  <2> HIDE DEF t, e
  <2> QED BY <2>1, <2>2, <2>3
<1>9. ASSUME NEW p \in Servers, CacheSecrets(p)
      PROVE  TablesBy
  BY <1>9, CacheSecretsDoes, CoreHolds, PresentKey
<1>10. ASSUME NEW p \in Servers, Stop(p)
       PROVE  TablesBy
  BY <1>10, StopDoes, CoreHolds
<1>11. ASSUME NEW r \in Requests, NEW p \in Servers, RotateKey(r, p)
       PROVE  TablesBy
  BY <1>11, RotateKeyDoes, CoreHolds
<1>12. ASSUME NEW r \in Requests, NEW p \in Servers, RevertKey(r, p)
       PROVE  TablesBy
  BY <1>12, RevertKeyDoes, CoreHolds
<1>13. ASSUME NEW r \in Requests, NEW p \in Servers, ActivateKey(r, p)
       PROVE  TablesBy
  BY <1>13, ActivateKeyDoes, CoreHolds
<1>14. ASSUME NEW r \in Requests, NEW p \in Servers, UpdateSetting(r, p)
       PROVE  TablesBy
  BY <1>14, UpdateSettingDoes, CoreHolds
<1>15. ASSUME NEW r \in Requests, NEW p \in Servers, UpdateEnvironmentVariables(r, p)
       PROVE  TablesBy
  BY <1>15, UpdateEnvironmentVariablesDoes, CoreHolds DEF TableNames
<1>16. ASSUME NEW r \in Requests, NEW p \in Servers, SaveCredentials(r, p)
       PROVE  TablesBy
  <2> DEFINE x == Encrypt(server[p].key, InTheClear(0, r))
  <2>1. /\ server[p].key \in EncryptionKeys \cup {NoKey} /\ InTheClear(0, r) \in TableRows
        /\ Writing(p)
    BY <1>16, SaveCredentialsDoes, RequestTypes, BoundsAssumption, ClearTypes, CoreHolds
       DEF Types, ServerType, Keys, Taken, Writing
  <2>2. x.text.by = server[p].key
    BY <2>1, EncryptRowWell, ClearFields
  <2>3. tables'["credentials"] = {x} /\ tables'["variables"] = tables["variables"]
    BY <1>16, SaveCredentialsDoes, CoreHolds
  <2> HIDE DEF x
  <2> QED BY <2>1, <2>2, <2>3, CoreHolds DEF TableNames
<1>17. ASSUME NEW r \in Requests, NEW p \in Servers, CreateEnvironment(r, p)
       PROVE  TablesBy
  BY <1>17, CreateEnvironmentDoes, CoreHolds
<1>18. ASSUME NEW r \in Requests, NEW p \in Servers, task[r].at = p, WritePending(r)
       PROVE  TablesBy
  BY <1>18, WritePendingDoes, CoreHolds
<1>19. ASSUME NEW r \in Requests, NEW p \in Servers, task[r].at = p, WriteRotated(r)
       PROVE  TablesBy
  BY <1>19, WriteRotatedDoes, CoreHolds
<1>20. ASSUME NEW r \in Requests, NEW p \in Servers, task[r].at = p, RevertSecretKey(r)
       PROVE  TablesBy
  BY <1>20, RevertSecretKeyDoes, CoreHolds
<1>21. ASSUME NEW r \in Requests, NEW p \in Servers, task[r].at = p, ReplaceKey(r)
       PROVE  TablesBy
  BY <1>21, ReplaceKeyDoes, CoreHolds
<1>22. ASSUME NEW r \in Requests, NEW p \in Servers, task[r].at = p, AddToEnvironmentSecretCache(r)
       PROVE  TablesBy
  <2>0. row.secret.key # None
    BY <1>22, StepAt DEF Step
  <2> QED BY <1>22, AddToEnvironmentSecretCacheDoes, CoreHolds, <2>0
<1>23. ASSUME NEW r \in Requests, NEW p \in Servers, task[r].at = p, InsertVariables(r)
       PROVE  TablesBy
  <2> DEFINE x == Encrypt(server[p].key, InTheClear(r, r))
  <2>1. /\ server[p].key \in EncryptionKeys \cup {NoKey} /\ InTheClear(r, r) \in TableRows
        /\ Writing(p)
    BY <1>23, InsertVariablesDoes, RequestTypes, ClearTypes, CoreHolds, PresentAt DEF Types,
       ServerType, Writing
  <2>2. x.text.by = server[p].key
    BY <2>1, EncryptRowWell, ClearFields
  <2>3. tables'["variables"] = tables["variables"] \cup {x} /\ tables'["credentials"] = tables["credentials"]
    BY <1>23, InsertVariablesDoes, CoreHolds
  <2> HIDE DEF x
  <2> QED BY <2>1, <2>2, <2>3, CoreHolds DEF TableNames
<1>24. ASSUME NEW r \in Requests, NEW p \in Servers, task[r].at = p, ReadCreated(r)
       PROVE  TablesBy
  BY <1>24, ReadCreatedDoes, CoreHolds
<1>25. ASSUME NEW r \in Requests, NEW p \in Servers, task[r].at = p, WriteCreated(r)
       PROVE  TablesBy
  BY <1>25, WriteCreatedDoes, CoreHolds, EncryptedPresent
<1>26. ASSUME NEW r \in Requests, NEW p \in Servers, task[r].at = p, CreateUser(r)
       PROVE  TablesBy
  BY <1>26, CreateUserDoes, CoreHolds
<1> QED BY <1>1, <1>2, <1>3, <1>4, <1>5, <1>6, <1>7, <1>8, <1>9, <1>10, <1>11, <1>12, <1>13,
           <1>14, <1>15, <1>16, <1>17, <1>18, <1>19, <1>20, <1>21, <1>22, <1>23, <1>24, <1>25,
           <1>26, StepAt DEF EnvironmentsNext, Boot, Request, Step

LEMMA StepOneKey == ASSUME CoreInv, OneKey, EnvironmentsNext PROVE OneKey'
<1>1. CASE KeysKept
  BY <1>1, StepReasons DEF OneKey, KeysKept
<1>2. CASE Starting
  <2>1. PICK p \in Servers, k \in EncryptionKeys \cup {NoKey} : Start(p, k)
    BY <1>2 DEF Starting
  <2> QED BY <2>1, StartDoes, CoreHolds DEF OneKey, Turned, Up
<1> QED BY <1>1, <1>2, StepKeys

LEMMA StepReadsRow == ASSUME CoreInv, OneKey, ReadsRow, EnvironmentsNext PROVE ReadsRow'
<1> SUFFICES ASSUME "keys" \notin reasons', NEW p \in Servers, server'[p].pc = "serving"
             PROVE  By(server'[p].key, row'.secret) /\ By(server'[p].key, row'.pending)
  BY DEF ReadsRow
<1>1. "keys" \notin reasons
  BY StepReasons
<1>2. CASE server[p].pc = "serving"
  <2>1. server'[p].key = server[p].key
    <3>1. CASE KeysKept
      BY <3>1 DEF KeysKept
    <3>2. CASE Starting
      BY <1>2, <3>2, StartDoes, CoreHolds DEF Starting, Turned
    <3> QED BY <3>1, <3>2, StepKeys
  <2>2. By(server[p].key, row.secret) /\ By(server[p].key, row.pending)
    BY <1>1, <1>2 DEF ReadsRow
  <2>3. \A q \in Servers : Writing(q) => server[q].key = server[p].key
    BY <1>1, <1>2 DEF OneKey, Writing
  <2> QED BY <2>1, <2>2, <2>3, StepRowBy DEF RowBy, By
<1>3. CASE server[p].pc # "serving"
  <2>1. ~ServingKept
    BY <1>3 DEF ServingKept
  <2>2. PICK q \in Servers : CacheSecrets(q)
    BY <2>1, StepServing DEF Caching
  <2>3. p = q
    BY <1>3, <2>2, CacheSecretsDoes, PresentKey, CoreHolds DEF Turned
  <2>4. row' = row /\ server'[p].key = server[p].key /\ (row = Absent \/ Decrypts(server[p].key, row))
    BY <2>2, <2>3, CacheSecretsDoes, PresentKey, CoreHolds DEF Turned
  <2>5. WellRow(row)
    BY CoreHolds DEF RowFits
  <2>6. By(server[p].key, row.secret) /\ By(server[p].key, row.pending)
    BY <2>4, <2>5, AbsentFields DEF By, WellRow, WellText, Decrypts
  <2> QED BY <2>4, <2>6
<1> QED BY <1>2, <1>3

(***************************************************************************)
(* The configuration tells the key of whatever is encrypted.               *)
(***************************************************************************)

\* Row w and the rows of T are encrypted by key k, or by none.
AllIn(k, w, T) ==
    /\ By(k, w.secret) /\ By(k, w.pending)
    /\ \A t \in TableNames : \A x \in T[t] : By(k, x.text)

AllBy(k) == AllIn(k, row, tables)

Inserting == \E p \in Servers : server[p].pc \in {"insert", "reinsert"}
Trusted == reasons \cap {"config", "keys"} = {}

\* A server that is up and has seen that the configuration is its own, or is none.
Past0(p) == server[p].pc \notin {"down", "migrate"}

ConfigTells ==
    Trusted =>
       /\ \A p \in Servers : Past0(p) => (config = NoConfig \/ config.hash = server[p].key) /\ AllBy(server[p].key)
       /\ config # NoConfig => AllBy(config.hash)
       /\ config = NoConfig =>
             \/ Inserting
             \/ /\ AllBy(NoKey)
                /\ \A p \in Servers : server[p].key # NoKey => server[p].pc \in {"migrate", "drop"}

LEMMA TrustedStays == ASSUME CoreInv, EnvironmentsNext, Trusted' PROVE Trusted /\ "keys" \notin reasons
BY StepReasons DEF Trusted

LEMMA AllByStep ==
    ASSUME CoreInv, EnvironmentsNext, NEW k, AllBy(k), \A p \in Servers : Writing(p) => server[p].key \in {k, NoKey}
    PROVE  AllIn(k, row', tables')
<1>1. By(k, row'.secret) /\ By(k, row'.pending)
  BY StepRowBy DEF AllBy, AllIn, RowBy, By
<1>2. \A t \in TableNames : \A x \in tables'[t] : By(k, x.text)
  BY StepTablesBy DEF AllBy, AllIn, TablesBy, By
<1> QED BY <1>1, <1>2 DEF AllIn

LEMMA WritingPast0 == \A p : Writing(p) => Past0(p)
BY DEF Writing, Past0

\* What becomes of the configuration, and who gets past the check of it.
ConfigSame ==
    /\ UNCHANGED config
    /\ \A p \in Servers :
          /\ Past0(p)' => Past0(p) /\ server'[p].key = server[p].key
          /\ server[p].pc \in {"insert", "reinsert"} =>
                server'[p].pc = server[p].pc \/ "config" \in reasons'
          /\ server'[p].key # NoKey =>
                \/ server'[p].pc = "migrate"
                \/ /\ server[p].key # NoKey
                   /\ server[p].pc \in {"migrate", "drop"} => server'[p].pc = server[p].pc
Checking == \E p \in Servers : EncryptDatabaseIfNeeded(p)
Dropping == \E p \in Servers : DropConfig(p)
Saving == \E p \in Servers : InsertConfig(p)

LEMMA StepConfig ==
    ASSUME CoreInv, EnvironmentsNext
    PROVE  ConfigSame \/ Checking \/ Dropping \/ Saving
<1> USE DEF NextRowTurned, Past0, ConfigSame, Turned, Cached
<1>1. ASSUME NEW p \in Servers, NEW k \in EncryptionKeys \cup {NoKey}, Start(p, k)
      PROVE  ConfigSame \/ Checking \/ Dropping \/ Saving
  BY <1>1, StartDoes, CoreHolds
<1>2. ASSUME NEW p \in Servers, EncryptDatabaseIfNeeded(p)
      PROVE  ConfigSame \/ Checking \/ Dropping \/ Saving
  BY <1>2 DEF Checking
<1>3. ASSUME NEW p \in Servers, DropConfig(p)
      PROVE  ConfigSame \/ Checking \/ Dropping \/ Saving
  BY <1>3 DEF Dropping
<1>4. ASSUME NEW p \in Servers, InsertConfig(p)
      PROVE  ConfigSame \/ Checking \/ Dropping \/ Saving
  BY <1>4 DEF Saving
<1>5. ASSUME NEW p \in Servers, ReadEnvironments(p)
      PROVE  ConfigSame \/ Checking \/ Dropping \/ Saving
  BY <1>5, ReadEnvironmentsDoes, CoreHolds
<1>6. ASSUME NEW p \in Servers, EncryptDatabase(p)
      PROVE  ConfigSame \/ Checking \/ Dropping \/ Saving
  BY <1>6, EncryptDatabaseDoes, CoreHolds
<1>7. ASSUME NEW p \in Servers, ReadRows(p)
      PROVE  ConfigSame \/ Checking \/ Dropping \/ Saving
  BY <1>7, ReadRowsDoes, CoreHolds
<1>8. ASSUME NEW p \in Servers, NEW x \in server[p].rows, EncryptRow(p, x)
      PROVE  ConfigSame \/ Checking \/ Dropping \/ Saving
  BY ZenonT(60), <1>8, EncryptRowDoes, CoreHolds
<1>9. ASSUME NEW p \in Servers, CacheSecrets(p)
      PROVE  ConfigSame \/ Checking \/ Dropping \/ Saving
  BY <1>9, CacheSecretsDoes, CoreHolds, PresentKey
<1>10. ASSUME NEW p \in Servers, Stop(p)
       PROVE  ConfigSame \/ Checking \/ Dropping \/ Saving
  <2>1. server[p].pc \in {"insert", "reinsert"} => "config" \in reasons'
    BY <1>10, StopDoes, CoreHolds DEF LeftBy
  <2> QED BY <2>1, <1>10, StopDoes, CoreHolds
<1>11. ASSUME NEW r \in Requests, NEW p \in Servers, RotateKey(r, p)
       PROVE  ConfigSame \/ Checking \/ Dropping \/ Saving
  BY <1>11, RotateKeyDoes, CoreHolds
<1>12. ASSUME NEW r \in Requests, NEW p \in Servers, RevertKey(r, p)
       PROVE  ConfigSame \/ Checking \/ Dropping \/ Saving
  BY <1>12, RevertKeyDoes, CoreHolds
<1>13. ASSUME NEW r \in Requests, NEW p \in Servers, ActivateKey(r, p)
       PROVE  ConfigSame \/ Checking \/ Dropping \/ Saving
  BY <1>13, ActivateKeyDoes, CoreHolds
<1>14. ASSUME NEW r \in Requests, NEW p \in Servers, UpdateSetting(r, p)
       PROVE  ConfigSame \/ Checking \/ Dropping \/ Saving
  BY <1>14, UpdateSettingDoes, CoreHolds
<1>15. ASSUME NEW r \in Requests, NEW p \in Servers, UpdateEnvironmentVariables(r, p)
       PROVE  ConfigSame \/ Checking \/ Dropping \/ Saving
  BY <1>15, UpdateEnvironmentVariablesDoes, CoreHolds
<1>16. ASSUME NEW r \in Requests, NEW p \in Servers, SaveCredentials(r, p)
       PROVE  ConfigSame \/ Checking \/ Dropping \/ Saving
  BY <1>16, SaveCredentialsDoes, CoreHolds
<1>17. ASSUME NEW r \in Requests, NEW p \in Servers, CreateEnvironment(r, p)
       PROVE  ConfigSame \/ Checking \/ Dropping \/ Saving
  BY <1>17, CreateEnvironmentDoes, CoreHolds
<1>18. ASSUME NEW r \in Requests, NEW p \in Servers, task[r].at = p, WritePending(r)
       PROVE  ConfigSame \/ Checking \/ Dropping \/ Saving
  BY <1>18, WritePendingDoes, CoreHolds
<1>19. ASSUME NEW r \in Requests, NEW p \in Servers, task[r].at = p, WriteRotated(r)
       PROVE  ConfigSame \/ Checking \/ Dropping \/ Saving
  BY <1>19, WriteRotatedDoes, CoreHolds
<1>20. ASSUME NEW r \in Requests, NEW p \in Servers, task[r].at = p, RevertSecretKey(r)
       PROVE  ConfigSame \/ Checking \/ Dropping \/ Saving
  BY <1>20, RevertSecretKeyDoes, CoreHolds
<1>21. ASSUME NEW r \in Requests, NEW p \in Servers, task[r].at = p, ReplaceKey(r)
       PROVE  ConfigSame \/ Checking \/ Dropping \/ Saving
  <2>1. UNCHANGED server \/ Cached(p, server[p].cache \ {task[r].row.secret.key}) \/ Cached(p, server[p].cache)
    BY <1>21, ReplaceKeyDoes, CoreHolds
  <2>2. UNCHANGED config
    BY <1>21, ReplaceKeyDoes, CoreHolds
  <2> QED BY <2>1, <2>2
<1>22. ASSUME NEW r \in Requests, NEW p \in Servers, task[r].at = p, AddToEnvironmentSecretCache(r)
       PROVE  ConfigSame \/ Checking \/ Dropping \/ Saving
  <2>0. row.secret.key # None
    BY <1>22, StepAt DEF Step
  <2> QED BY <1>22, AddToEnvironmentSecretCacheDoes, CoreHolds, <2>0
<1>23. ASSUME NEW r \in Requests, NEW p \in Servers, task[r].at = p, InsertVariables(r)
       PROVE  ConfigSame \/ Checking \/ Dropping \/ Saving
  BY <1>23, InsertVariablesDoes, CoreHolds
<1>24. ASSUME NEW r \in Requests, NEW p \in Servers, task[r].at = p, ReadCreated(r)
       PROVE  ConfigSame \/ Checking \/ Dropping \/ Saving
  BY <1>24, ReadCreatedDoes, CoreHolds
<1>25. ASSUME NEW r \in Requests, NEW p \in Servers, task[r].at = p, WriteCreated(r)
       PROVE  ConfigSame \/ Checking \/ Dropping \/ Saving
  BY <1>25, WriteCreatedDoes, CoreHolds, EncryptedPresent
<1>26. ASSUME NEW r \in Requests, NEW p \in Servers, task[r].at = p, CreateUser(r)
       PROVE  ConfigSame \/ Checking \/ Dropping \/ Saving
  BY <1>26, CreateUserDoes, CoreHolds
<1> QED BY <1>1, <1>2, <1>3, <1>4, <1>5, <1>6, <1>7, <1>8, <1>9, <1>10, <1>11, <1>12, <1>13,
           <1>14, <1>15, <1>16, <1>17, <1>18, <1>19, <1>20, <1>21, <1>22, <1>23, <1>24, <1>25,
           <1>26, StepAt DEF EnvironmentsNext, Boot, Request, Step

LEMMA StepConfigTells == ASSUME CoreInv, OneKey, ConfigTells, EnvironmentsNext PROVE ConfigTells'
<1> SUFFICES ASSUME Trusted' PROVE ConfigTells'
  BY DEF ConfigTells
<1>1. Trusted /\ "keys" \notin reasons
  BY TrustedStays
<1>2. \A p, q \in Servers : server[p].pc # "down" /\ server[q].pc # "down" => server[p].key = server[q].key
  BY <1>1 DEF OneKey
<1>3. /\ \A p \in Servers : Past0(p) => (config = NoConfig \/ config.hash = server[p].key) /\ AllBy(server[p].key)
      /\ config # NoConfig => AllBy(config.hash)
      /\ config = NoConfig =>
            \/ Inserting
            \/ /\ AllBy(NoKey)
               /\ \A p \in Servers : server[p].key # NoKey => server[p].pc \in {"migrate", "drop"}
  BY <1>1 DEF ConfigTells
<1>4. \A p \in Servers : Past0(p) => AllIn(server[p].key, row', tables')
  <2> SUFFICES ASSUME NEW p \in Servers, Past0(p) PROVE AllIn(server[p].key, row', tables')
    OBVIOUS
  <2>1. AllBy(server[p].key) /\ \A q \in Servers : Writing(q) => server[q].key \in {server[p].key, NoKey}
    BY <1>2, <1>3, WritingPast0 DEF Past0
  <2> QED BY <2>1, AllByStep
<1>5. config # NoConfig => AllIn(config.hash, row', tables')
  <2> SUFFICES ASSUME config # NoConfig PROVE AllIn(config.hash, row', tables')
    OBVIOUS
  <2>1. AllBy(config.hash) /\ \A q \in Servers : Writing(q) => server[q].key \in {config.hash, NoKey}
    BY <1>3, WritingPast0
  <2> QED BY <2>1, AllByStep
<1>6. config = NoConfig /\ ~Inserting => AllIn(NoKey, row', tables')
  <2> SUFFICES ASSUME config = NoConfig, ~Inserting PROVE AllIn(NoKey, row', tables')
    OBVIOUS
  <2>1. AllBy(NoKey) /\ \A q \in Servers : Writing(q) => server[q].key \in {NoKey}
    BY <1>3 DEF Writing
  <2> QED BY <2>1, AllByStep
<1>7. SUFFICES /\ \A p \in Servers : Past0(p)' =>
                     /\ config' = NoConfig \/ config'.hash = server'[p].key
                     /\ AllIn(server'[p].key, row', tables')
               /\ config' # NoConfig => AllIn(config'.hash, row', tables')
               /\ config' = NoConfig =>
                     \/ Inserting'
                     \/ /\ AllIn(NoKey, row', tables')
                        /\ \A p \in Servers : server'[p].key # NoKey => server'[p].pc \in {"migrate", "drop"}
  BY DEF ConfigTells, AllBy
<1>8. CASE ConfigSame
  <2>1. config' = NoConfig /\ Inserting => Inserting'
    BY <1>8 DEF ConfigSame, Inserting, Trusted
  <2>2. config' = NoConfig /\ ~Inserting =>
           \A p \in Servers : server'[p].key # NoKey => server'[p].pc \in {"migrate", "drop"}
    BY <1>3, <1>8 DEF ConfigSame
  <2> QED BY <1>3, <1>4, <1>5, <1>6, <1>8, <2>1, <2>2 DEF ConfigSame
<1>9. CASE Checking
  <2>1. PICK p \in Servers : EncryptDatabaseIfNeeded(p)
    BY <1>9 DEF Checking
  <2>2. /\ server[p].pc = "migrate" /\ UNCHANGED <<config, row, tables>>
        /\ \A q \in Servers : q # p => server'[q] = server[q]
        /\ \/ server'[p].pc = "down" /\ server'[p].key = NoKey
           \/ /\ server'[p].key = server[p].key
              /\ config = NoConfig \/ config.hash = server[p].key
              /\ config = NoConfig /\ server[p].key # NoKey => server'[p].pc = "drop"
    BY <2>1, EncryptDatabaseIfNeededDoes, CoreHolds DEF Turned
  <2>3. Past0(p)' => AllBy(server[p].key)
    <3>1. CASE config = NoConfig /\ Inserting
      <4>1. PICK q \in Servers : server[q].pc \in {"insert", "reinsert"}
        BY <3>1 DEF Inserting
      <4> QED BY <1>2, <1>3, <2>2, <4>1 DEF Past0
    <3>2. CASE config = NoConfig /\ ~Inserting
      BY <1>3, <3>2 DEF AllBy, AllIn, By
    <3>3. CASE config # NoConfig
      BY <1>3, <2>2, <3>3 DEF Past0
    <3> QED BY <3>1, <3>2, <3>3
  <2>4. Inserting => Inserting'
    BY <2>2 DEF Inserting
  <2>5. \A q \in Servers : q # p => (Past0(q)' <=> Past0(q)) /\ server'[q].key = server[q].key
    BY <2>2 DEF Past0
  <2>6. Past0(p)' => server'[p].key = server[p].key /\ (config' = NoConfig \/ config'.hash = server'[p].key)
    BY <2>2 DEF Past0
  <2>7. AllBy(server[p].key) => AllIn(server[p].key, row', tables')
    BY <2>2 DEF AllBy
  <2>8. config' = NoConfig /\ ~Inserting =>
           \A q \in Servers : server'[q].key # NoKey => server'[q].pc \in {"migrate", "drop"}
    BY <1>3, <2>2
  <2> QED BY <1>3, <1>4, <1>5, <1>6, <2>2, <2>3, <2>4, <2>5, <2>6, <2>7, <2>8
<1>10. CASE Dropping
  <2>1. PICK p \in Servers : DropConfig(p)
    BY <1>10 DEF Dropping
  <2>2. /\ config' = NoConfig /\ server[p].pc \in {"drop", "redrop"}
        /\ \A q \in Servers : q # p => server'[q] = server[q]
        /\ server'[p].key = server[p].key /\ server'[p].pc \in {"insert", "reinsert"}
    BY <2>1, DropConfigDoes, CoreHolds DEF Turned
  <2>3. \A q \in Servers : Past0(q)' => Past0(q) /\ server'[q].key = server[q].key
    BY <2>2 DEF Past0
  <2> QED BY <1>4, <2>2, <2>3 DEF Inserting
<1>11. CASE Saving
  <2>1. PICK p \in Servers : InsertConfig(p)
    BY <1>11 DEF Saving
  <2>2. /\ config'.hash = server[p].key /\ server[p].pc \in {"insert", "reinsert"}
        /\ \A q \in Servers : q # p => server'[q] = server[q]
        /\ server'[p].key = server[p].key
    BY <2>1, InsertConfigDoes, CoreHolds DEF Turned
  <2>3. server[p].key # NoKey
    BY <2>2, CoreHolds DEF ServersFit, ServerFits, Encrypting
  <2>4. config' # NoConfig
    BY <2>2, <2>3, AbsentFields
  <2>5. \A q \in Servers : Past0(q)' => Past0(q) /\ server'[q].key = server[q].key /\ server[q].key = server[p].key
    BY <1>2, <2>2 DEF Past0
  <2>6. Past0(p)
    BY <2>2 DEF Past0
  <2> QED BY <1>4, <2>2, <2>4, <2>5, <2>6
<1> QED BY <1>8, <1>9, <1>10, <1>11, StepConfig

(***************************************************************************)
(* A pending key in the clear is one that a request is still rotating.     *)
(***************************************************************************)

Rotating == \E r \in Requests : task[r].pc = "rotated"

PendingSealed ==
    "rotation" \notin reasons =>
        (row.secret.by # NoKey /\ row.pending.key # None /\ row.pending.by = NoKey => Rotating)

LEMMA StepPendingSealed ==
    ASSUME CoreInv, PendingSealed, EnvironmentsNext
    PROVE  PendingSealed'
<1>1. ASSUME NEW p \in Servers, NEW k \in EncryptionKeys \cup {NoKey}, Start(p, k)
      PROVE  PendingSealed'
  BY <1>1, StartDoes, CoreHolds, StepReasons DEF PendingSealed, Rotating
<1>2. ASSUME NEW p \in Servers, EncryptDatabaseIfNeeded(p)
      PROVE  PendingSealed'
  BY <1>2, EncryptDatabaseIfNeededDoes, CoreHolds, StepReasons DEF PendingSealed, Rotating
<1>3. ASSUME NEW p \in Servers, DropConfig(p)
      PROVE  PendingSealed'
  BY <1>3, DropConfigDoes, CoreHolds, StepReasons DEF PendingSealed, Rotating
<1>4. ASSUME NEW p \in Servers, InsertConfig(p)
      PROVE  PendingSealed'
  BY <1>4, InsertConfigDoes, CoreHolds, StepReasons DEF PendingSealed, Rotating
<1>5. ASSUME NEW p \in Servers, ReadEnvironments(p)
      PROVE  PendingSealed'
  BY <1>5, ReadEnvironmentsDoes, CoreHolds, StepReasons DEF PendingSealed, Rotating
<1>6. ASSUME NEW p \in Servers, EncryptDatabase(p)
      PROVE  PendingSealed'
  <2>1. /\ WellRow(server[p].row) /\ server[p].key \in EncryptionKeys \cup {NoKey} /\ server[p].key # NoKey
        /\ row' = EncryptEnvironment(server[p].key, server[p].row)
    BY <1>6, EncryptDatabaseDoes, CoreHolds DEF ServersFit, ServerFits, Types, ServerType,
       Encrypting
  <2>2. row'.pending.key # None => row'.pending.by # NoKey
    BY <2>1, EncryptWell
  <2> QED BY <2>2 DEF PendingSealed
<1>7. ASSUME NEW p \in Servers, ReadRows(p)
      PROVE  PendingSealed'
  BY <1>7, ReadRowsDoes, CoreHolds, StepReasons DEF PendingSealed, Rotating
<1>8. ASSUME NEW p \in Servers, NEW x \in server[p].rows, EncryptRow(p, x)
      PROVE  PendingSealed'
  BY <1>8, EncryptRowDoes, CoreHolds, StepReasons DEF PendingSealed, Rotating
<1>9. ASSUME NEW p \in Servers, CacheSecrets(p)
      PROVE  PendingSealed'
  BY <1>9, CacheSecretsDoes, CoreHolds, PresentKey, StepReasons DEF PendingSealed, Rotating
<1>10. ASSUME NEW p \in Servers, Stop(p)
       PROVE  PendingSealed'
  <2>1. (\E r \in Requests : task[r].pc = "rotated" /\ task[r].at = p) => "rotation" \in reasons'
    BY <1>10, StopDoes, CoreHolds DEF LeftBy, Active, At
  <2>2. \A r \in Requests : task[r].pc = "rotated" /\ task[r].at # p => task'[r] = task[r]
    BY <1>10, StopDoes, CoreHolds
  <2> QED BY <2>1, <2>2, <1>10, StopDoes, CoreHolds, StepReasons DEF PendingSealed, Rotating
<1>11. ASSUME NEW r \in Requests, NEW p \in Servers, RotateKey(r, p)
       PROVE  PendingSealed'
  <2>1. \A q \in Requests : task[q].pc = "rotated" => task'[q] = task[q]
    BY <1>11, RotateKeyDoes, CoreHolds DEF Moved, Taken
  <2> QED BY <2>1, <1>11, RotateKeyDoes, CoreHolds, StepReasons DEF PendingSealed, Rotating
<1>12. ASSUME NEW r \in Requests, NEW p \in Servers, RevertKey(r, p)
       PROVE  PendingSealed'
  <2>1. \A q \in Requests : task[q].pc = "rotated" => task'[q] = task[q]
    BY <1>12, RevertKeyDoes, CoreHolds DEF Moved, Taken
  <2> QED BY <2>1, <1>12, RevertKeyDoes, CoreHolds, StepReasons DEF PendingSealed, Rotating
<1>13. ASSUME NEW r \in Requests, NEW p \in Servers, ActivateKey(r, p)
       PROVE  PendingSealed'
  <2>1. \A q \in Requests : task[q].pc = "rotated" => task'[q] = task[q]
    BY <1>13, ActivateKeyDoes, CoreHolds DEF Moved, Taken
  <2> QED BY <2>1, <1>13, ActivateKeyDoes, CoreHolds, StepReasons DEF PendingSealed, Rotating
<1>14. ASSUME NEW r \in Requests, NEW p \in Servers, UpdateSetting(r, p)
       PROVE  PendingSealed'
  <2>1. \A q \in Requests : task[q].pc = "rotated" => task'[q] = task[q]
    BY <1>14, UpdateSettingDoes, CoreHolds DEF Moved, Taken
  <2>2. row'.secret = row.secret /\ row'.pending = row.pending
    BY <1>14, UpdateSettingDoes, ConfiguredTypes, CoreHolds DEF Types
  <2> QED BY <2>1, <2>2, StepReasons DEF PendingSealed, Rotating
<1>15. ASSUME NEW r \in Requests, NEW p \in Servers, UpdateEnvironmentVariables(r, p)
       PROVE  PendingSealed'
  <2>1. \A q \in Requests : task[q].pc = "rotated" => task'[q] = task[q]
    BY <1>15, UpdateEnvironmentVariablesDoes, CoreHolds DEF Moved, Taken
  <2> QED BY <2>1, <1>15, UpdateEnvironmentVariablesDoes, CoreHolds, StepReasons
             DEF PendingSealed, Rotating
<1>16. ASSUME NEW r \in Requests, NEW p \in Servers, SaveCredentials(r, p)
       PROVE  PendingSealed'
  <2>1. \A q \in Requests : task[q].pc = "rotated" => task'[q] = task[q]
    BY <1>16, SaveCredentialsDoes, CoreHolds DEF Moved, Taken
  <2> QED BY <2>1, <1>16, SaveCredentialsDoes, CoreHolds, StepReasons DEF PendingSealed, Rotating
<1>17. ASSUME NEW r \in Requests, NEW p \in Servers, CreateEnvironment(r, p)
       PROVE  PendingSealed'
  BY <1>17, CreateEnvironmentDoes, AbsentFields, CoreHolds DEF PendingSealed
<1>18. ASSUME NEW r \in Requests, NEW p \in Servers, task[r].at = p, WritePending(r)
       PROVE  PendingSealed'
  BY <1>18, WritePendingDoes, CoreHolds DEF PendingSealed, Rotating, Moved
<1>19. ASSUME NEW r \in Requests, NEW p \in Servers, task[r].at = p, WriteRotated(r)
       PROVE  PendingSealed'
  <2>1. /\ WellRow(task[r].row) /\ Key(r) \in EncryptionKeys \cup {NoKey}
        /\ row' = EncryptEnvironment(Key(r), task[r].row)
        /\ task[r].row.secret.iv => task[r].row.secret.by = Key(r)
    BY <1>19, WriteRotatedDoes, CoreHolds DEF TasksFit, TaskFits, Reading, Key, Types,
       ServerType
  <2>2. row'.pending.key # None /\ row'.secret.by # NoKey => row'.pending.by # NoKey
    BY <2>1, EncryptWell DEF WellRow, WellText
  <2> QED BY <2>2 DEF PendingSealed
<1>20. ASSUME NEW r \in Requests, NEW p \in Servers, task[r].at = p, RevertSecretKey(r)
       PROVE  PendingSealed'
  BY <1>20, RevertSecretKeyDoes, AbsentFields, CoreHolds DEF PendingSealed
<1>21. ASSUME NEW r \in Requests, NEW p \in Servers, task[r].at = p, ReplaceKey(r)
       PROVE  PendingSealed'
  <2>1. CASE row'.pending = NoText
    BY <2>1, AbsentFields DEF PendingSealed
  <2>2. CASE End(r) /\ Reads /\ task[r].pc = "replace"
    <3>1. Moved(r, "done", None, Absent) /\ UNCHANGED <<row, reasons>>
      BY <2>2, EndsMoved, CoreHolds DEF Reads
    <3>2. \A q \in Requests : task[q].pc = "rotated" => task'[q] = task[q]
      BY <2>2, <3>1 DEF Moved
    <3> QED BY <3>1, <3>2 DEF PendingSealed, Rotating
  <2>3. CASE Replace(r, task[r].row.pending)
    BY <2>1, <2>3, CoreHolds DEF Replace, Types, RowType
  <2> QED BY <2>2, <2>3, <1>21 DEF ReplaceKey, At
<1>22. ASSUME NEW r \in Requests, NEW p \in Servers, task[r].at = p, AddToEnvironmentSecretCache(r)
       PROVE  PendingSealed'
  <2>0. row.secret.key # None
    BY <1>22, StepAt DEF Step
  <2>1. \A q \in Requests : task[q].pc = "rotated" => task'[q] = task[q]
    BY <1>22, AddToEnvironmentSecretCacheDoes, CoreHolds, <2>0 DEF Moved, Taken
  <2> QED BY <2>1, <1>22, AddToEnvironmentSecretCacheDoes, CoreHolds, <2>0, StepReasons
             DEF PendingSealed, Rotating
<1>23. ASSUME NEW r \in Requests, NEW p \in Servers, task[r].at = p, InsertVariables(r)
       PROVE  PendingSealed'
  <2>1. \A q \in Requests : task[q].pc = "rotated" => task'[q] = task[q]
    BY <1>23, InsertVariablesDoes, CoreHolds DEF Moved, Taken
  <2> QED BY <2>1, <1>23, InsertVariablesDoes, CoreHolds, StepReasons DEF PendingSealed, Rotating
<1>24. ASSUME NEW r \in Requests, NEW p \in Servers, task[r].at = p, ReadCreated(r)
       PROVE  PendingSealed'
  <2>1. \A q \in Requests : task[q].pc = "rotated" => task'[q] = task[q]
    BY <1>24, ReadCreatedDoes, CoreHolds DEF Moved, Taken
  <2> QED BY <2>1, <1>24, ReadCreatedDoes, CoreHolds, StepReasons DEF PendingSealed, Rotating
<1>25. ASSUME NEW r \in Requests, NEW p \in Servers, task[r].at = p, WriteCreated(r)
       PROVE  PendingSealed'
  <2>1. /\ WellRow(task[r].row) /\ Key(r) \in EncryptionKeys \cup {NoKey}
        /\ row' = EncryptEnvironment(Key(r), task[r].row)
        /\ task[r].row.secret.iv => task[r].row.secret.by = Key(r)
    BY <1>25, WriteCreatedDoes, CoreHolds, EncryptedPresent DEF TasksFit, TaskFits, Reading,
       Key, Types, ServerType
  <2>2. row'.pending.key # None /\ row'.secret.by # NoKey => row'.pending.by # NoKey
    BY <2>1, EncryptWell DEF WellRow, WellText
  <2> QED BY <2>2 DEF PendingSealed
<1>26. ASSUME NEW r \in Requests, NEW p \in Servers, task[r].at = p, CreateUser(r)
       PROVE  PendingSealed'
  <2>1. \A q \in Requests : task[q].pc = "rotated" => task'[q] = task[q]
    BY <1>26, CreateUserDoes, CoreHolds DEF Moved, Taken
  <2> QED BY <2>1, <1>26, CreateUserDoes, CoreHolds, StepReasons DEF PendingSealed, Rotating
<1> QED BY <1>1, <1>2, <1>3, <1>4, <1>5, <1>6, <1>7, <1>8, <1>9, <1>10, <1>11, <1>12, <1>13,
           <1>14, <1>15, <1>16, <1>17, <1>18, <1>19, <1>20, <1>21, <1>22, <1>23, <1>24, <1>25,
           <1>26, StepAt DEF EnvironmentsNext, Boot, Request, Step

(***************************************************************************)
(* What a server that encrypts has passed is encrypted.                    *)
(***************************************************************************)

Past(p) ==
    /\ server[p].pc \in {"readRows", "encryptRows", "redrop", "reinsert", "cache", "serving"}
    /\ server[p].key # NoKey
PastTable(p, i) == Past(p) /\ (server[p].pc \in {"readRows", "encryptRows"} => server[p].table > i)
Creating == \E r \in Requests : task[r].pc \in {"created", "encrypted"}

Sealing == config.complete \/ \E p \in Servers : Past(p)
SealingTable(i) == config.complete \/ \E p \in Servers : PastTable(p, i)

RowSealed ==
    Trusted /\ "creation" \notin reasons =>
       /\ Sealing => row = Absent \/ row.secret.by # NoKey \/ Creating
       /\ \A r \in Requests : task[r].pc = "replace" /\ server[task[r].at].key # NoKey =>
             task[r].row.secret.by # NoKey

TablesSealed ==
    Trusted => \A i \in {1, 2} : SealingTable(i) => \A x \in tables[Tables[i]] : x.text.by # NoKey

RowsListed ==
    Trusted => \A p \in Servers : server[p].pc = "encryptRows" =>
        \A x \in tables[Tables[server[p].table]] : x.text.by = NoKey => \E y \in server[p].rows : y.id = x.id

\* Whoever writes then has a key.
LEMMA Keyed ==
    ASSUME CoreInv, OneKey, ConfigTells, Trusted, Sealing
    PROVE  \A p \in Servers : Past0(p) => server[p].key # NoKey
<1> SUFFICES ASSUME NEW p \in Servers, Past0(p) PROVE server[p].key # NoKey
  OBVIOUS
<1>1. CASE config.complete
  <2>1. config # NoConfig /\ config.hash # NoKey
    BY <1>1, AbsentFields, CoreHolds DEF ConfigFits
  <2> QED BY <2>1 DEF ConfigTells
<1>2. CASE \E q \in Servers : Past(q)
  BY <1>2 DEF OneKey, Trusted, Past, Past0
<1> QED BY <1>1, <1>2 DEF Sealing

LEMMA PastSeals == \A i \in {1, 2} : SealingTable(i) => Sealing
BY DEF SealingTable, Sealing, PastTable

\* No server gets past the row, and none past a table.
SealKept == (Sealing' => Sealing) /\ \A i \in {1, 2} : SealingTable(i)' => SealingTable(i)
Passing ==
    \E p \in Servers :
       \/ ReadEnvironments(p) \/ EncryptDatabase(p)
       \/ ReadRows(p) \/ \E x \in server[p].rows : EncryptRow(p, x)

LEMMA PastKept ==
    ASSUME NEW p \in Servers, \A q \in Servers : q # p => server'[q] = server[q], UNCHANGED config,
           Past(p)' => Past(p) \/ config.complete, \A i \in {1, 2} : PastTable(p, i)' => PastTable(p, i) \/ config.complete
    PROVE  SealKept
<1>1. Sealing' => Sealing
  BY DEF Sealing, Past
<1>2. \A i \in {1, 2} : SealingTable(i)' => SealingTable(i)
  BY DEF SealingTable, PastTable, Past
<1> QED BY <1>1, <1>2 DEF SealKept

LEMMA StepSeal ==
    ASSUME CoreInv, EnvironmentsNext
    PROVE  SealKept \/ Passing
<1>1. ASSUME NEW p \in Servers, NEW k \in EncryptionKeys \cup {NoKey}, Start(p, k)
      PROVE  SealKept \/ Passing
  <2>1. ~Past(p)' /\ UNCHANGED config /\ \A q \in Servers : q # p => server'[q] = server[q]
    BY <1>1, StartDoes, CoreHolds DEF Turned, Past
  <2> QED BY <2>1, PastKept DEF PastTable
<1>2. ASSUME NEW p \in Servers, EncryptDatabaseIfNeeded(p)
      PROVE  SealKept \/ Passing
  <2>1. /\ Past(p)' => config.complete
        /\ UNCHANGED config /\ \A q \in Servers : q # p => server'[q] = server[q]
    BY <1>2, EncryptDatabaseIfNeededDoes, CoreHolds DEF Turned, Past
  <2> QED BY <2>1, PastKept DEF PastTable
<1>3. ASSUME NEW p \in Servers, DropConfig(p)
      PROVE  SealKept \/ Passing
  <2>1. /\ config' = NoConfig /\ \A q \in Servers : q # p => server'[q] = server[q]
        /\ Past(p)' => Past(p) /\ \A i \in {1, 2} : PastTable(p, i)
    BY <1>3, DropConfigDoes, CoreHolds DEF Turned, Past, PastTable
  <2>2. ~config'.complete
    BY <2>1, AbsentFields
  <2>3. Sealing' => Sealing
    BY <2>1, <2>2 DEF Sealing, Past
  <2>4. \A i \in {1, 2} : SealingTable(i)' => SealingTable(i)
    BY <2>1, <2>2 DEF SealingTable, PastTable, Past
  <2> QED BY <2>3, <2>4 DEF SealKept
<1>4. ASSUME NEW p \in Servers, InsertConfig(p)
      PROVE  SealKept \/ Passing
  <2>1. /\ \A q \in Servers : q # p => server'[q] = server[q]
        /\ config'.complete \/ Past(p)' => Past(p) /\ \A i \in {1, 2} : PastTable(p, i)
    <3>1. server[p].key # NoKey
      BY <1>4, InsertConfigDoes, CoreHolds DEF ServersFit, ServerFits, Encrypting
    <3>2. config'.complete => server[p].pc = "reinsert"
      BY <1>4 DEF InsertConfig
    <3>3. server[p].pc = "insert" \/ server[p].pc = "reinsert"
      BY <1>4, InsertConfigDoes, CoreHolds
    <3>4. server'[p].pc = (IF server[p].pc = "insert" THEN "read" ELSE "cache")
      BY <1>4, InsertConfigDoes, CoreHolds DEF Turned
    <3>7. \A q \in Servers : q # p => server'[q] = server[q]
      BY <1>4, InsertConfigDoes, CoreHolds DEF Turned
    <3>5. CASE server[p].pc = "insert"
      BY <3>2, <3>4, <3>5, <3>7 DEF Past
    <3>6. CASE server[p].pc = "reinsert"
      BY <3>1, <3>6, <3>7 DEF Past, PastTable
    <3> QED BY <3>3, <3>5, <3>6, <3>7
  <2>3. Sealing' => Sealing
    BY <2>1 DEF Sealing, Past
  <2>4. \A i \in {1, 2} : SealingTable(i)' => SealingTable(i)
    BY <2>1 DEF SealingTable, PastTable, Past
  <2> QED BY <2>3, <2>4 DEF SealKept
<1>5. ASSUME NEW p \in Servers, ReadEnvironments(p)
      PROVE  SealKept \/ Passing
  BY <1>5 DEF Passing
<1>6. ASSUME NEW p \in Servers, EncryptDatabase(p)
      PROVE  SealKept \/ Passing
  BY <1>6 DEF Passing
<1>7. ASSUME NEW p \in Servers, ReadRows(p)
      PROVE  SealKept \/ Passing
  BY <1>7 DEF Passing
<1>8. ASSUME NEW p \in Servers, NEW x \in server[p].rows, EncryptRow(p, x)
      PROVE  SealKept \/ Passing
  BY <1>8 DEF Passing
<1>9. ASSUME NEW p \in Servers, CacheSecrets(p)
      PROVE  SealKept \/ Passing
  <2>1. /\ Past(p)' => Past(p) /\ \A i \in {1, 2} : PastTable(p, i)
        /\ UNCHANGED config /\ \A q \in Servers : q # p => server'[q] = server[q]
    BY <1>9, CacheSecretsDoes, PresentKey, CoreHolds DEF Turned, Past, PastTable
  <2> QED BY <2>1, PastKept DEF PastTable
<1>10. ASSUME NEW p \in Servers, Stop(p)
       PROVE  SealKept \/ Passing
  <2>1. ~Past(p)' /\ UNCHANGED config /\ \A q \in Servers : q # p => server'[q] = server[q]
    BY <1>10, StopDoes, CoreHolds DEF Turned, Past
  <2> QED BY <2>1, PastKept DEF PastTable
<1>11. ASSUME NEW r \in Requests, NEW p \in Servers, RotateKey(r, p)
       PROVE  SealKept \/ Passing
  <2>1. \A q \in Servers : server'[q].pc = server[q].pc /\ server'[q].key = server[q].key
                            /\ server'[q].table = server[q].table
    BY <1>11, RotateKeyDoes, CoreHolds
  <2>2. UNCHANGED config
    BY <1>11, RotateKeyDoes, CoreHolds
  <2> QED BY <2>1, <2>2 DEF SealKept, Sealing, SealingTable, PastTable, Past
<1>12. ASSUME NEW r \in Requests, NEW p \in Servers, RevertKey(r, p)
       PROVE  SealKept \/ Passing
  <2>1. \A q \in Servers : server'[q].pc = server[q].pc /\ server'[q].key = server[q].key
                            /\ server'[q].table = server[q].table
    BY <1>12, RevertKeyDoes, CoreHolds
  <2>2. UNCHANGED config
    BY <1>12, RevertKeyDoes, CoreHolds
  <2> QED BY <2>1, <2>2 DEF SealKept, Sealing, SealingTable, PastTable, Past
<1>13. ASSUME NEW r \in Requests, NEW p \in Servers, ActivateKey(r, p)
       PROVE  SealKept \/ Passing
  <2>1. \A q \in Servers : server'[q].pc = server[q].pc /\ server'[q].key = server[q].key
                            /\ server'[q].table = server[q].table
    BY <1>13, ActivateKeyDoes, CoreHolds
  <2>2. UNCHANGED config
    BY <1>13, ActivateKeyDoes, CoreHolds
  <2> QED BY <2>1, <2>2 DEF SealKept, Sealing, SealingTable, PastTable, Past
<1>14. ASSUME NEW r \in Requests, NEW p \in Servers, UpdateSetting(r, p)
       PROVE  SealKept \/ Passing
  <2>1. \A q \in Servers : server'[q].pc = server[q].pc /\ server'[q].key = server[q].key
                            /\ server'[q].table = server[q].table
    BY <1>14, UpdateSettingDoes, CoreHolds
  <2>2. UNCHANGED config
    BY <1>14, UpdateSettingDoes, CoreHolds
  <2> QED BY <2>1, <2>2 DEF SealKept, Sealing, SealingTable, PastTable, Past
<1>15. ASSUME NEW r \in Requests, NEW p \in Servers, UpdateEnvironmentVariables(r, p)
       PROVE  SealKept \/ Passing
  <2>1. \A q \in Servers : server'[q].pc = server[q].pc /\ server'[q].key = server[q].key
                            /\ server'[q].table = server[q].table
    BY <1>15, UpdateEnvironmentVariablesDoes, CoreHolds
  <2>2. UNCHANGED config
    BY <1>15, UpdateEnvironmentVariablesDoes, CoreHolds
  <2> QED BY <2>1, <2>2 DEF SealKept, Sealing, SealingTable, PastTable, Past
<1>16. ASSUME NEW r \in Requests, NEW p \in Servers, SaveCredentials(r, p)
       PROVE  SealKept \/ Passing
  <2>1. \A q \in Servers : server'[q].pc = server[q].pc /\ server'[q].key = server[q].key
                            /\ server'[q].table = server[q].table
    BY <1>16, SaveCredentialsDoes, CoreHolds
  <2>2. UNCHANGED config
    BY <1>16, SaveCredentialsDoes, CoreHolds
  <2> QED BY <2>1, <2>2 DEF SealKept, Sealing, SealingTable, PastTable, Past
<1>17. ASSUME NEW r \in Requests, NEW p \in Servers, CreateEnvironment(r, p)
       PROVE  SealKept \/ Passing
  <2>1. \A q \in Servers : server'[q].pc = server[q].pc /\ server'[q].key = server[q].key
                            /\ server'[q].table = server[q].table
    BY <1>17, CreateEnvironmentDoes, CoreHolds
  <2>2. UNCHANGED config
    BY <1>17, CreateEnvironmentDoes, CoreHolds
  <2> QED BY <2>1, <2>2 DEF SealKept, Sealing, SealingTable, PastTable, Past
<1>18. ASSUME NEW r \in Requests, NEW p \in Servers, task[r].at = p, WritePending(r)
       PROVE  SealKept \/ Passing
  <2>1. \A q \in Servers : server'[q].pc = server[q].pc /\ server'[q].key = server[q].key
                            /\ server'[q].table = server[q].table
    BY <1>18, WritePendingDoes, CoreHolds
  <2>2. UNCHANGED config
    BY <1>18, WritePendingDoes, CoreHolds
  <2> QED BY <2>1, <2>2 DEF SealKept, Sealing, SealingTable, PastTable, Past
<1>19. ASSUME NEW r \in Requests, NEW p \in Servers, task[r].at = p, WriteRotated(r)
       PROVE  SealKept \/ Passing
  <2>1. \A q \in Servers : server'[q].pc = server[q].pc /\ server'[q].key = server[q].key
                            /\ server'[q].table = server[q].table
    BY <1>19, WriteRotatedDoes, CoreHolds
  <2>2. UNCHANGED config
    BY <1>19, WriteRotatedDoes, CoreHolds
  <2> QED BY <2>1, <2>2 DEF SealKept, Sealing, SealingTable, PastTable, Past
<1>20. ASSUME NEW r \in Requests, NEW p \in Servers, task[r].at = p, RevertSecretKey(r)
       PROVE  SealKept \/ Passing
  <2>1. \A q \in Servers : server'[q].pc = server[q].pc /\ server'[q].key = server[q].key
                            /\ server'[q].table = server[q].table
    BY <1>20, RevertSecretKeyDoes, CoreHolds
  <2>2. UNCHANGED config
    BY <1>20, RevertSecretKeyDoes, CoreHolds
  <2> QED BY <2>1, <2>2 DEF SealKept, Sealing, SealingTable, PastTable, Past
<1>21. ASSUME NEW r \in Requests, NEW p \in Servers, task[r].at = p, ReplaceKey(r)
       PROVE  SealKept \/ Passing
  <2>0. UNCHANGED server \/ Cached(p, server[p].cache \ {task[r].row.secret.key}) \/ Cached(p, server[p].cache)
    BY <1>21, ReplaceKeyDoes, CoreHolds
  <2>1. \A q \in Servers : server'[q].pc = server[q].pc /\ server'[q].key = server[q].key
                            /\ server'[q].table = server[q].table
    BY <2>0 DEF Cached, Turned
  <2>2. UNCHANGED config
    BY <1>21, ReplaceKeyDoes, CoreHolds
  <2> QED BY <2>1, <2>2 DEF SealKept, Sealing, SealingTable, PastTable, Past
<1>22. ASSUME NEW r \in Requests, NEW p \in Servers, task[r].at = p, AddToEnvironmentSecretCache(r)
       PROVE  SealKept \/ Passing
  <2>0. row.secret.key # None
    BY <1>22, StepAt DEF Step
  <2>1. \A q \in Servers : server'[q].pc = server[q].pc /\ server'[q].key = server[q].key
                            /\ server'[q].table = server[q].table
    BY <1>22, AddToEnvironmentSecretCacheDoes, CoreHolds, <2>0 DEF Cached, Turned
  <2>2. UNCHANGED config
    BY <1>22, AddToEnvironmentSecretCacheDoes, CoreHolds, <2>0
  <2> QED BY <2>1, <2>2 DEF SealKept, Sealing, SealingTable, PastTable, Past
<1>23. ASSUME NEW r \in Requests, NEW p \in Servers, task[r].at = p, InsertVariables(r)
       PROVE  SealKept \/ Passing
  <2>1. \A q \in Servers : server'[q].pc = server[q].pc /\ server'[q].key = server[q].key
                            /\ server'[q].table = server[q].table
    BY <1>23, InsertVariablesDoes, CoreHolds
  <2>2. UNCHANGED config
    BY <1>23, InsertVariablesDoes, CoreHolds
  <2> QED BY <2>1, <2>2 DEF SealKept, Sealing, SealingTable, PastTable, Past
<1>24. ASSUME NEW r \in Requests, NEW p \in Servers, task[r].at = p, ReadCreated(r)
       PROVE  SealKept \/ Passing
  <2>1. \A q \in Servers : server'[q].pc = server[q].pc /\ server'[q].key = server[q].key
                            /\ server'[q].table = server[q].table
    BY <1>24, ReadCreatedDoes, CoreHolds
  <2>2. UNCHANGED config
    BY <1>24, ReadCreatedDoes, CoreHolds
  <2> QED BY <2>1, <2>2 DEF SealKept, Sealing, SealingTable, PastTable, Past
<1>25. ASSUME NEW r \in Requests, NEW p \in Servers, task[r].at = p, WriteCreated(r)
       PROVE  SealKept \/ Passing
  <2>1. \A q \in Servers : server'[q].pc = server[q].pc /\ server'[q].key = server[q].key
                            /\ server'[q].table = server[q].table
    BY <1>25, WriteCreatedDoes, CoreHolds, EncryptedPresent DEF Cached, Turned
  <2>2. UNCHANGED config
    BY <1>25, WriteCreatedDoes, CoreHolds, EncryptedPresent
  <2> QED BY <2>1, <2>2 DEF SealKept, Sealing, SealingTable, PastTable, Past
<1>26. ASSUME NEW r \in Requests, NEW p \in Servers, task[r].at = p, CreateUser(r)
       PROVE  SealKept \/ Passing
  <2>1. \A q \in Servers : server'[q].pc = server[q].pc /\ server'[q].key = server[q].key
                            /\ server'[q].table = server[q].table
    BY <1>26, CreateUserDoes, CoreHolds
  <2>2. UNCHANGED config
    BY <1>26, CreateUserDoes, CoreHolds
  <2> QED BY <2>1, <2>2 DEF SealKept, Sealing, SealingTable, PastTable, Past
<1> QED BY <1>1, <1>2, <1>3, <1>4, <1>5, <1>6, <1>7, <1>8, <1>9, <1>10, <1>11, <1>12, <1>13,
           <1>14, <1>15, <1>16, <1>17, <1>18, <1>19, <1>20, <1>21, <1>22, <1>23, <1>24, <1>25,
           <1>26, StepAt DEF EnvironmentsNext, Boot, Request, Step

\* The row is encrypted, or is yet to be.
RowGood == row = Absent \/ row.secret.by # NoKey \/ Creating
ReplacesGood ==
    \A r \in Requests : task[r].pc = "replace" /\ server[task[r].at].key # NoKey => task[r].row.secret.by # NoKey
AllKeyed == \A p \in Servers : Past0(p) => server[p].key # NoKey

LEMMA StepRowGood ==
    ASSUME CoreInv, AllKeyed, ReplacesGood, RowGood, "creation" \notin reasons', EnvironmentsNext
    PROVE  RowGood'
<1>1. ASSUME NEW p \in Servers, NEW k \in EncryptionKeys \cup {NoKey}, Start(p, k)
      PROVE  RowGood'
  BY <1>1, StartDoes, CoreHolds DEF RowGood, Creating
<1>2. ASSUME NEW p \in Servers, EncryptDatabaseIfNeeded(p)
      PROVE  RowGood'
  BY <1>2, EncryptDatabaseIfNeededDoes, CoreHolds DEF RowGood, Creating
<1>3. ASSUME NEW p \in Servers, DropConfig(p)
      PROVE  RowGood'
  BY <1>3, DropConfigDoes, CoreHolds DEF RowGood, Creating
<1>4. ASSUME NEW p \in Servers, InsertConfig(p)
      PROVE  RowGood'
  BY <1>4, InsertConfigDoes, CoreHolds DEF RowGood, Creating
<1>5. ASSUME NEW p \in Servers, ReadEnvironments(p)
      PROVE  RowGood'
  BY <1>5, ReadEnvironmentsDoes, CoreHolds DEF RowGood, Creating
<1>6. ASSUME NEW p \in Servers, EncryptDatabase(p)
      PROVE  RowGood'
  <2>1. /\ WellRow(server[p].row) /\ server[p].key \in EncryptionKeys \cup {NoKey} /\ server[p].key # NoKey
        /\ row' = EncryptEnvironment(server[p].key, server[p].row)
    BY <1>6, EncryptDatabaseDoes, CoreHolds DEF ServersFit, ServerFits, Types, ServerType,
       Encrypting
  <2>2. row'.secret.by # NoKey
    BY <2>1, EncryptWell
  <2> QED BY <2>2 DEF RowGood
<1>7. ASSUME NEW p \in Servers, ReadRows(p)
      PROVE  RowGood'
  BY <1>7, ReadRowsDoes, CoreHolds DEF RowGood, Creating
<1>8. ASSUME NEW p \in Servers, NEW x \in server[p].rows, EncryptRow(p, x)
      PROVE  RowGood'
  BY <1>8, EncryptRowDoes, CoreHolds DEF RowGood, Creating
<1>9. ASSUME NEW p \in Servers, CacheSecrets(p)
      PROVE  RowGood'
  BY <1>9, CacheSecretsDoes, CoreHolds, PresentKey DEF RowGood, Creating
<1>10. ASSUME NEW p \in Servers, Stop(p)
       PROVE  RowGood'
  <2>1. (\E r \in Requests : task[r].pc \in {"created", "encrypted"} /\ task[r].at = p) => "creation" \in reasons'
    BY <1>10, StopDoes, CoreHolds DEF LeftBy, Active
  <2>2. \A r \in Requests : task[r].pc \in {"created", "encrypted"} /\ task[r].at # p => task'[r] = task[r]
    BY <1>10, StopDoes, CoreHolds
  <2> QED BY <2>1, <2>2, <1>10, StopDoes, CoreHolds DEF RowGood, Creating
<1>11. ASSUME NEW r \in Requests, NEW p \in Servers, RotateKey(r, p)
       PROVE  RowGood'
  <2>1. \A q \in Requests : task[q].pc \in {"created", "encrypted"} => task'[q] = task[q]
    BY <1>11, RotateKeyDoes, CoreHolds DEF Moved, Taken
  <2> QED BY <2>1, <1>11, RotateKeyDoes, CoreHolds DEF RowGood, Creating
<1>12. ASSUME NEW r \in Requests, NEW p \in Servers, RevertKey(r, p)
       PROVE  RowGood'
  <2>1. \A q \in Requests : task[q].pc \in {"created", "encrypted"} => task'[q] = task[q]
    BY <1>12, RevertKeyDoes, CoreHolds DEF Moved, Taken
  <2> QED BY <2>1, <1>12, RevertKeyDoes, CoreHolds DEF RowGood, Creating
<1>13. ASSUME NEW r \in Requests, NEW p \in Servers, ActivateKey(r, p)
       PROVE  RowGood'
  <2>1. \A q \in Requests : task[q].pc \in {"created", "encrypted"} => task'[q] = task[q]
    BY <1>13, ActivateKeyDoes, CoreHolds DEF Moved, Taken
  <2> QED BY <2>1, <1>13, ActivateKeyDoes, CoreHolds DEF RowGood, Creating
<1>14. ASSUME NEW r \in Requests, NEW p \in Servers, UpdateSetting(r, p)
       PROVE  RowGood'
  <2>1. \A q \in Requests : task[q].pc \in {"created", "encrypted"} => task'[q] = task[q]
    BY <1>14, UpdateSettingDoes, CoreHolds DEF Moved, Taken
  <2>2. row'.secret = row.secret /\ row # Absent
    BY <1>14, UpdateSettingDoes, ConfiguredTypes, PendTypes, PresentAt, CoreHolds DEF Types
  <2> QED BY <2>1, <2>2 DEF RowGood, Creating
<1>15. ASSUME NEW r \in Requests, NEW p \in Servers, UpdateEnvironmentVariables(r, p)
       PROVE  RowGood'
  <2>1. \A q \in Requests : task[q].pc \in {"created", "encrypted"} => task'[q] = task[q]
    BY <1>15, UpdateEnvironmentVariablesDoes, CoreHolds DEF Moved, Taken
  <2> QED BY <2>1, <1>15, UpdateEnvironmentVariablesDoes, CoreHolds DEF RowGood, Creating
<1>16. ASSUME NEW r \in Requests, NEW p \in Servers, SaveCredentials(r, p)
       PROVE  RowGood'
  <2>1. \A q \in Requests : task[q].pc \in {"created", "encrypted"} => task'[q] = task[q]
    BY <1>16, SaveCredentialsDoes, CoreHolds DEF Moved, Taken
  <2> QED BY <2>1, <1>16, SaveCredentialsDoes, CoreHolds DEF RowGood, Creating
<1>17. ASSUME NEW r \in Requests, NEW p \in Servers, CreateEnvironment(r, p)
       PROVE  RowGood'
  BY <1>17, CreateEnvironmentDoes, CoreHolds DEF RowGood, Creating, Moved
<1>18. ASSUME NEW r \in Requests, NEW p \in Servers, task[r].at = p, WritePending(r)
       PROVE  RowGood'
  <2>1. /\ task[r].pc = "pending" /\ row' = Pend(row, r) /\ row \in RowType
        /\ \A q \in Requests : q # r => task'[q] = task[q]
    BY <1>18, WritePendingDoes, CoreHolds DEF Moved, Types
  <2>2. row'.secret = row.secret /\ row # Absent
    BY <2>1, PendTypes, PresentAt
  <2> QED BY <2>1, <2>2 DEF RowGood, Creating
<1>19. ASSUME NEW r \in Requests, NEW p \in Servers, task[r].at = p, WriteRotated(r)
       PROVE  RowGood'
  <2>1. /\ WellRow(task[r].row) /\ Key(r) \in EncryptionKeys \cup {NoKey} /\ Key(r) # NoKey
        /\ row' = EncryptEnvironment(Key(r), task[r].row)
    BY <1>19, WriteRotatedDoes, CoreHolds
       DEF TasksFit, TaskFits, Reading, Key, Types, ServerType, AllKeyed, Past0
  <2>2. row'.secret.by # NoKey
    BY <2>1, EncryptWell
  <2> QED BY <2>2 DEF RowGood
<1>20. ASSUME NEW r \in Requests, NEW p \in Servers, task[r].at = p, RevertSecretKey(r)
       PROVE  RowGood'
  <2>1. \A q \in Requests : task[q].pc \in {"created", "encrypted"} => task'[q] = task[q]
    BY <1>20, RevertSecretKeyDoes, CoreHolds DEF Moved
  <2>2. row'.secret = row.secret /\ row # Absent
    BY <1>20, RevertSecretKeyDoes, PresentAt, CoreHolds
  <2> QED BY <2>1, <2>2 DEF RowGood, Creating
<1>21. ASSUME NEW r \in Requests, NEW p \in Servers, task[r].at = p, ReplaceKey(r)
       PROVE  RowGood'
  <2>1. CASE End(r) /\ Reads /\ task[r].pc = "replace"
    <3>1. Moved(r, "done", None, Absent) /\ UNCHANGED row
      BY <2>1, EndsMoved, CoreHolds DEF Reads
    <3>2. \A q \in Requests : task[q].pc \in {"created", "encrypted"} => task'[q] = task[q]
      BY <2>1, <3>1 DEF Moved
    <3> QED BY <3>1, <3>2 DEF RowGood, Creating
  <2>2. CASE Replace(r, task[r].row.pending) /\ task[r].row.pending.key # None /\ task[r].pc = "replace"
    <3>1. row'.secret = task[r].row.pending
      BY <2>2, CoreHolds DEF Replace, Types, RowType
    <3>2. TaskFits(r) /\ server[p].key # NoKey
      BY <2>2, <1>21, CoreHolds DEF TasksFit, TaskFits, AllKeyed, Past0
    <3>3. task[r].row.secret.by # NoKey
      BY <2>2, <3>2, <1>21 DEF ReplacesGood
    <3>4. task[r].row.pending.by # NoKey
      BY <2>2, <3>2, <3>3 DEF TaskFits, Reading, WellRow, WellText
    <3> QED BY <3>1, <3>4 DEF RowGood
  <2> QED BY <2>1, <2>2, <1>21 DEF ReplaceKey, At
<1>22. ASSUME NEW r \in Requests, NEW p \in Servers, task[r].at = p, AddToEnvironmentSecretCache(r)
       PROVE  RowGood'
  <2>0. row.secret.key # None
    BY <1>22, StepAt DEF Step
  <2>1. \A q \in Requests : task[q].pc \in {"created", "encrypted"} => task'[q] = task[q]
    BY <1>22, AddToEnvironmentSecretCacheDoes, CoreHolds, <2>0 DEF Moved, Taken
  <2> QED BY <2>1, <1>22, AddToEnvironmentSecretCacheDoes, CoreHolds, <2>0 DEF RowGood, Creating
<1>23. ASSUME NEW r \in Requests, NEW p \in Servers, task[r].at = p, InsertVariables(r)
       PROVE  RowGood'
  <2>1. \A q \in Requests : task[q].pc \in {"created", "encrypted"} => task'[q] = task[q]
    BY <1>23, InsertVariablesDoes, CoreHolds DEF Moved, Taken
  <2> QED BY <2>1, <1>23, InsertVariablesDoes, CoreHolds DEF RowGood, Creating
<1>24. ASSUME NEW r \in Requests, NEW p \in Servers, task[r].at = p, ReadCreated(r)
       PROVE  RowGood'
  <2>1. WellRow(row)
    BY CoreHolds DEF RowFits
  <2>2. CASE ~Decrypts(server[p].key, row)
    BY <2>1, <2>2, <1>24, ReadCreatedDoes, CoreHolds DEF RowGood, Decrypts, WellRow, WellText
  <2>3. CASE Decrypts(server[p].key, row)
    BY <2>3, <1>24, ReadCreatedDoes, CoreHolds DEF RowGood, Creating, Moved
  <2> QED BY <2>2, <2>3
<1>25. ASSUME NEW r \in Requests, NEW p \in Servers, task[r].at = p, WriteCreated(r)
       PROVE  RowGood'
  <2>1. /\ WellRow(task[r].row) /\ Key(r) \in EncryptionKeys \cup {NoKey} /\ Key(r) # NoKey
        /\ row' = EncryptEnvironment(Key(r), task[r].row)
    BY <1>25, WriteCreatedDoes, CoreHolds, EncryptedPresent
       DEF TasksFit, TaskFits, Reading, Key, Types, ServerType, AllKeyed, Past0
  <2>2. row'.secret.by # NoKey
    BY <2>1, EncryptWell
  <2> QED BY <2>2 DEF RowGood
<1>26. ASSUME NEW r \in Requests, NEW p \in Servers, task[r].at = p, CreateUser(r)
       PROVE  RowGood'
  <2>1. \A q \in Requests : task[q].pc \in {"created", "encrypted"} => task'[q] = task[q]
    BY <1>26, CreateUserDoes, CoreHolds DEF Moved, Taken
  <2> QED BY <2>1, <1>26, CreateUserDoes, CoreHolds DEF RowGood, Creating
<1> QED BY <1>1, <1>2, <1>3, <1>4, <1>5, <1>6, <1>7, <1>8, <1>9, <1>10, <1>11, <1>12, <1>13,
           <1>14, <1>15, <1>16, <1>17, <1>18, <1>19, <1>20, <1>21, <1>22, <1>23, <1>24, <1>25,
           <1>26, StepAt DEF EnvironmentsNext, Boot, Request, Step

Activating(r) == \E p \in Servers : ActivateKey(r, p)
ReplacesKept == \A q \in Requests : task'[q].pc = "replace" => task'[q] = task[q] \/ Activating(q)

LEMMA StepReplaces ==
    ASSUME CoreInv, EnvironmentsNext
    PROVE  ReplacesKept
<1> USE DEF ReplacesKept, Moved
<1>1. ASSUME NEW p \in Servers, NEW k \in EncryptionKeys \cup {NoKey}, Start(p, k)
      PROVE  ReplacesKept
  BY <1>1, StartDoes, CoreHolds
<1>2. ASSUME NEW p \in Servers, EncryptDatabaseIfNeeded(p)
      PROVE  ReplacesKept
  BY <1>2, EncryptDatabaseIfNeededDoes, CoreHolds
<1>3. ASSUME NEW p \in Servers, DropConfig(p)
      PROVE  ReplacesKept
  BY <1>3, DropConfigDoes, CoreHolds
<1>4. ASSUME NEW p \in Servers, InsertConfig(p)
      PROVE  ReplacesKept
  BY <1>4, InsertConfigDoes, CoreHolds
<1>5. ASSUME NEW p \in Servers, ReadEnvironments(p)
      PROVE  ReplacesKept
  BY <1>5, ReadEnvironmentsDoes, CoreHolds
<1>6. ASSUME NEW p \in Servers, EncryptDatabase(p)
      PROVE  ReplacesKept
  BY <1>6, EncryptDatabaseDoes, CoreHolds
<1>7. ASSUME NEW p \in Servers, ReadRows(p)
      PROVE  ReplacesKept
  BY <1>7, ReadRowsDoes, CoreHolds
<1>8. ASSUME NEW p \in Servers, NEW x \in server[p].rows, EncryptRow(p, x)
      PROVE  ReplacesKept
  BY <1>8, EncryptRowDoes, CoreHolds
<1>9. ASSUME NEW p \in Servers, CacheSecrets(p)
      PROVE  ReplacesKept
  BY <1>9, CacheSecretsDoes, CoreHolds, PresentKey
<1>10. ASSUME NEW p \in Servers, Stop(p)
       PROVE  ReplacesKept
  <2>1. Done.pc = "done"
    BY DEF Done
  <2> QED BY <2>1, <1>10, StopDoes, CoreHolds
<1>11. ASSUME NEW r \in Requests, NEW p \in Servers, RotateKey(r, p)
       PROVE  ReplacesKept
  BY <1>11, RotateKeyDoes, CoreHolds
<1>12. ASSUME NEW r \in Requests, NEW p \in Servers, RevertKey(r, p)
       PROVE  ReplacesKept
  BY <1>12, RevertKeyDoes, CoreHolds
<1>13. ASSUME NEW r \in Requests, NEW p \in Servers, ActivateKey(r, p)
       PROVE  ReplacesKept
  BY <1>13, ActivateKeyDoes, CoreHolds DEF Activating
<1>14. ASSUME NEW r \in Requests, NEW p \in Servers, UpdateSetting(r, p)
       PROVE  ReplacesKept
  BY <1>14, UpdateSettingDoes, CoreHolds
<1>15. ASSUME NEW r \in Requests, NEW p \in Servers, UpdateEnvironmentVariables(r, p)
       PROVE  ReplacesKept
  BY <1>15, UpdateEnvironmentVariablesDoes, CoreHolds
<1>16. ASSUME NEW r \in Requests, NEW p \in Servers, SaveCredentials(r, p)
       PROVE  ReplacesKept
  BY <1>16, SaveCredentialsDoes, CoreHolds
<1>17. ASSUME NEW r \in Requests, NEW p \in Servers, CreateEnvironment(r, p)
       PROVE  ReplacesKept
  BY <1>17, CreateEnvironmentDoes, CoreHolds
<1>18. ASSUME NEW r \in Requests, NEW p \in Servers, task[r].at = p, WritePending(r)
       PROVE  ReplacesKept
  BY <1>18, WritePendingDoes, CoreHolds
<1>19. ASSUME NEW r \in Requests, NEW p \in Servers, task[r].at = p, WriteRotated(r)
       PROVE  ReplacesKept
  BY <1>19, WriteRotatedDoes, CoreHolds
<1>20. ASSUME NEW r \in Requests, NEW p \in Servers, task[r].at = p, RevertSecretKey(r)
       PROVE  ReplacesKept
  BY <1>20, RevertSecretKeyDoes, CoreHolds
<1>21. ASSUME NEW r \in Requests, NEW p \in Servers, task[r].at = p, ReplaceKey(r)
       PROVE  ReplacesKept
  <2>1. Moved(r, "done", None, Absent) \/ Moved(r, "recache", p, task[r].row)
    BY <1>21, ReplaceKeyDoes, CoreHolds
  <2> QED BY <2>1
<1>22. ASSUME NEW r \in Requests, NEW p \in Servers, task[r].at = p, AddToEnvironmentSecretCache(r)
       PROVE  ReplacesKept
  <2>0. row.secret.key # None
    BY <1>22, StepAt DEF Step
  <2> QED BY <1>22, AddToEnvironmentSecretCacheDoes, CoreHolds, <2>0
<1>23. ASSUME NEW r \in Requests, NEW p \in Servers, task[r].at = p, InsertVariables(r)
       PROVE  ReplacesKept
  BY <1>23, InsertVariablesDoes, CoreHolds
<1>24. ASSUME NEW r \in Requests, NEW p \in Servers, task[r].at = p, ReadCreated(r)
       PROVE  ReplacesKept
  BY <1>24, ReadCreatedDoes, CoreHolds
<1>25. ASSUME NEW r \in Requests, NEW p \in Servers, task[r].at = p, WriteCreated(r)
       PROVE  ReplacesKept
  BY <1>25, WriteCreatedDoes, CoreHolds, EncryptedPresent
<1>26. ASSUME NEW r \in Requests, NEW p \in Servers, task[r].at = p, CreateUser(r)
       PROVE  ReplacesKept
  BY <1>26, CreateUserDoes, CoreHolds
<1> QED BY <1>1, <1>2, <1>3, <1>4, <1>5, <1>6, <1>7, <1>8, <1>9, <1>10, <1>11, <1>12, <1>13,
           <1>14, <1>15, <1>16, <1>17, <1>18, <1>19, <1>20, <1>21, <1>22, <1>23, <1>24, <1>25,
           <1>26, StepAt DEF EnvironmentsNext, Boot, Request, Step

LEMMA StepRowSealed ==
    ASSUME CoreInv, CoreInv', OneKey, ConfigTells, RowSealed, EnvironmentsNext
    PROVE  RowSealed'
<1> SUFFICES ASSUME Trusted', "creation" \notin reasons'
             PROVE  (Sealing' => RowGood') /\ ReplacesGood'
  BY DEF RowSealed, RowGood, ReplacesGood
<1>1. Trusted /\ "keys" \notin reasons /\ "creation" \notin reasons
  BY TrustedStays, StepReasons
<1>2. (Sealing => RowGood) /\ ReplacesGood
  BY <1>1 DEF RowSealed, RowGood, ReplacesGood
<1>3. Sealing => AllKeyed
  BY <1>1, Keyed DEF AllKeyed
<1>4. Sealing => RowGood'
  BY <1>2, <1>3, StepRowGood
<1>5. Sealing' /\ ~Sealing => RowGood'
  <2> SUFFICES ASSUME Sealing', ~Sealing PROVE RowGood'
    OBVIOUS
  <2>1. PICK p \in Servers : ReadEnvironments(p) \/ EncryptDatabase(p) \/ ReadRows(p)
                             \/ \E x \in server[p].rows : EncryptRow(p, x)
    BY StepSeal DEF SealKept, Passing
  <2>2. CASE ReadEnvironments(p)
    <3>1. WellRow(row)
      BY CoreHolds DEF RowFits
    <3>2. UNCHANGED <<config, row>> /\ \A q \in Servers : q # p => server'[q] = server[q]
      BY <2>2, ReadEnvironmentsDoes, CoreHolds DEF Turned
    <3>3. row # Absent /\ ~row.secret.iv => server'[p].pc = "encrypt"
      BY <2>2, ReadEnvironmentsDoes, CoreHolds DEF Turned
    <3>4. row # Absent /\ ~row.secret.iv => FALSE
      BY <3>2, <3>3 DEF Sealing, Past
    <3> QED BY <3>1, <3>2, <3>4 DEF RowGood, WellRow, WellText
  <2>3. CASE EncryptDatabase(p)
    <3>1. /\ WellRow(server[p].row) /\ server[p].key \in EncryptionKeys \cup {NoKey} /\ server[p].key # NoKey
          /\ row' = EncryptEnvironment(server[p].key, server[p].row)
      BY <2>3, EncryptDatabaseDoes, CoreHolds DEF ServersFit, ServerFits, Types, ServerType,
         Encrypting
    <3>2. row'.secret.by # NoKey
      BY <3>1, EncryptWell
    <3> QED BY <3>2 DEF RowGood
  <2>4. CASE ReadRows(p) \/ \E x \in server[p].rows : EncryptRow(p, x)
    <3>1. server[p].pc \in {"readRows", "encryptRows"}
      BY <2>4 DEF ReadRows, EncryptRow
    <3>2. server[p].key # NoKey
      BY <3>1, CoreHolds DEF ServersFit, ServerFits, Encrypting
    <3> QED BY <3>1, <3>2 DEF Sealing, Past
  <2> QED BY <2>1, <2>2, <2>3, <2>4
<1>6. ReplacesGood'
  <2> SUFFICES ASSUME NEW r \in Requests, task'[r].pc = "replace", server'[task'[r].at].key # NoKey
               PROVE  task'[r].row.secret.by # NoKey
    BY DEF ReplacesGood
  <2>1. task'[r].at \in Servers /\ server'[task'[r].at].pc = "serving"
    BY DEF CoreInv, TasksFit, TaskFits
  <2>2. CASE task'[r] = task[r]
    <3>1. task[r].at \in Servers /\ server[task[r].at].pc = "serving"
      BY <2>2, CoreHolds DEF TasksFit, TaskFits
    <3>2. server'[task[r].at].key = server[task[r].at].key
      <4>1. CASE KeysKept
        BY <2>1, <2>2, <4>1 DEF KeysKept
      <4>2. CASE Starting
        BY <3>1, <4>2, StartDoes, CoreHolds DEF Starting, Turned
      <4> QED BY <4>1, <4>2, StepKeys
    <3> QED BY <1>2, <2>2, <3>2 DEF ReplacesGood
  <2>3. CASE Activating(r)
    <3>1. PICK p \in Servers : ActivateKey(r, p)
      BY <2>3 DEF Activating
    <3>2. /\ user /\ row # Absent /\ server[p].pc = "serving" /\ UNCHANGED server
          /\ task'[r].at = p /\ task'[r].row = row
      BY <3>1, ActivateKeyDoes, CoreHolds DEF Moved, Taken
    <3>3. Sealing
      BY <3>2 DEF Sealing, Past
    <3>4. ~Creating
      BY <3>2, CoreHolds DEF Creating, TasksFit, TaskFits, Creators
    <3> QED BY <1>2, <3>2, <3>3, <3>4 DEF RowGood
  <2> QED BY <2>2, <2>3, StepReplaces DEF ReplacesKept
<1> QED BY <1>4, <1>5, <1>6

(***************************************************************************)
(* The tables, one after the other.                                        *)
(***************************************************************************)

FirstTable == \A p \in Servers : server[p].pc \notin {"readRows", "encryptRows"} => server[p].table = 1

LEMMA StepFirstTable ==
    ASSUME CoreInv, FirstTable, EnvironmentsNext
    PROVE  FirstTable'
<1> USE DEF NextRowTurned, Taken, Turned, Cached, FirstTable
<1>1. ASSUME NEW p \in Servers, NEW k \in EncryptionKeys \cup {NoKey}, Start(p, k)
      PROVE  FirstTable'
  BY <1>1, StartDoes, CoreHolds
<1>2. ASSUME NEW p \in Servers, EncryptDatabaseIfNeeded(p)
      PROVE  FirstTable'
  BY <1>2, EncryptDatabaseIfNeededDoes, CoreHolds
<1>3. ASSUME NEW p \in Servers, DropConfig(p)
      PROVE  FirstTable'
  BY <1>3, DropConfigDoes, CoreHolds
<1>4. ASSUME NEW p \in Servers, InsertConfig(p)
      PROVE  FirstTable'
  BY <1>4, InsertConfigDoes, CoreHolds
<1>5. ASSUME NEW p \in Servers, ReadEnvironments(p)
      PROVE  FirstTable'
  BY <1>5, ReadEnvironmentsDoes, CoreHolds
<1>6. ASSUME NEW p \in Servers, EncryptDatabase(p)
      PROVE  FirstTable'
  BY <1>6, EncryptDatabaseDoes, CoreHolds
<1>7. ASSUME NEW p \in Servers, ReadRows(p)
      PROVE  FirstTable'
  BY <1>7, ReadRowsDoes, CoreHolds
<1>8. ASSUME NEW p \in Servers, NEW x \in server[p].rows, EncryptRow(p, x)
      PROVE  FirstTable'
  <2>1. NextRowTurned(p, server[p].rows \ {x})
    BY <1>8, EncryptRowDoes, CoreHolds
  <2> QED BY <2>1
<1>9. ASSUME NEW p \in Servers, CacheSecrets(p)
      PROVE  FirstTable'
  BY <1>9, CacheSecretsDoes, CoreHolds, PresentKey
<1>10. ASSUME NEW p \in Servers, Stop(p)
       PROVE  FirstTable'
  BY <1>10, StopDoes, CoreHolds
<1>11. ASSUME NEW r \in Requests, NEW p \in Servers, RotateKey(r, p)
       PROVE  FirstTable'
  BY <1>11, RotateKeyDoes, CoreHolds
<1>12. ASSUME NEW r \in Requests, NEW p \in Servers, RevertKey(r, p)
       PROVE  FirstTable'
  BY <1>12, RevertKeyDoes, CoreHolds
<1>13. ASSUME NEW r \in Requests, NEW p \in Servers, ActivateKey(r, p)
       PROVE  FirstTable'
  BY <1>13, ActivateKeyDoes, CoreHolds
<1>14. ASSUME NEW r \in Requests, NEW p \in Servers, UpdateSetting(r, p)
       PROVE  FirstTable'
  BY <1>14, UpdateSettingDoes, CoreHolds
<1>15. ASSUME NEW r \in Requests, NEW p \in Servers, UpdateEnvironmentVariables(r, p)
       PROVE  FirstTable'
  BY <1>15, UpdateEnvironmentVariablesDoes, CoreHolds
<1>16. ASSUME NEW r \in Requests, NEW p \in Servers, SaveCredentials(r, p)
       PROVE  FirstTable'
  BY <1>16, SaveCredentialsDoes, CoreHolds
<1>17. ASSUME NEW r \in Requests, NEW p \in Servers, CreateEnvironment(r, p)
       PROVE  FirstTable'
  BY <1>17, CreateEnvironmentDoes, CoreHolds
<1>18. ASSUME NEW r \in Requests, NEW p \in Servers, task[r].at = p, WritePending(r)
       PROVE  FirstTable'
  BY <1>18, WritePendingDoes, CoreHolds
<1>19. ASSUME NEW r \in Requests, NEW p \in Servers, task[r].at = p, WriteRotated(r)
       PROVE  FirstTable'
  BY <1>19, WriteRotatedDoes, CoreHolds
<1>20. ASSUME NEW r \in Requests, NEW p \in Servers, task[r].at = p, RevertSecretKey(r)
       PROVE  FirstTable'
  BY <1>20, RevertSecretKeyDoes, CoreHolds
<1>21. ASSUME NEW r \in Requests, NEW p \in Servers, task[r].at = p, ReplaceKey(r)
       PROVE  FirstTable'
  <2>1. UNCHANGED server \/ Cached(p, server[p].cache \ {task[r].row.secret.key}) \/ Cached(p, server[p].cache)
    BY <1>21, ReplaceKeyDoes, CoreHolds
  <2> QED BY <2>1
<1>22. ASSUME NEW r \in Requests, NEW p \in Servers, task[r].at = p, AddToEnvironmentSecretCache(r)
       PROVE  FirstTable'
  <2>0. row.secret.key # None
    BY <1>22, StepAt DEF Step
  <2> QED BY <1>22, AddToEnvironmentSecretCacheDoes, CoreHolds, <2>0
<1>23. ASSUME NEW r \in Requests, NEW p \in Servers, task[r].at = p, InsertVariables(r)
       PROVE  FirstTable'
  BY <1>23, InsertVariablesDoes, CoreHolds
<1>24. ASSUME NEW r \in Requests, NEW p \in Servers, task[r].at = p, ReadCreated(r)
       PROVE  FirstTable'
  BY <1>24, ReadCreatedDoes, CoreHolds
<1>25. ASSUME NEW r \in Requests, NEW p \in Servers, task[r].at = p, WriteCreated(r)
       PROVE  FirstTable'
  BY <1>25, WriteCreatedDoes, CoreHolds, EncryptedPresent
<1>26. ASSUME NEW r \in Requests, NEW p \in Servers, task[r].at = p, CreateUser(r)
       PROVE  FirstTable'
  BY <1>26, CreateUserDoes, CoreHolds
<1> QED BY <1>1, <1>2, <1>3, <1>4, <1>5, <1>6, <1>7, <1>8, <1>9, <1>10, <1>11, <1>12, <1>13,
           <1>14, <1>15, <1>16, <1>17, <1>18, <1>19, <1>20, <1>21, <1>22, <1>23, <1>24, <1>25,
           <1>26, StepAt DEF EnvironmentsNext, Boot, Request, Step

Listing(q) == ReadRows(q) \/ \E x \in server[q].rows : EncryptRow(q, x)
ListsKept ==
    \A q \in Servers : server'[q].pc = "encryptRows" =>
        \/ server[q].pc = "encryptRows" /\ server'[q].rows = server[q].rows /\ server'[q].table = server[q].table
        \/ Listing(q)

LEMMA StepLists ==
    ASSUME CoreInv, EnvironmentsNext
    PROVE  ListsKept
<1> USE DEF Turned, ListsKept, Taken, Cached
<1>1. ASSUME NEW p \in Servers, NEW k \in EncryptionKeys \cup {NoKey}, Start(p, k)
      PROVE  ListsKept
  BY <1>1, StartDoes, CoreHolds
<1>2. ASSUME NEW p \in Servers, EncryptDatabaseIfNeeded(p)
      PROVE  ListsKept
  BY <1>2, EncryptDatabaseIfNeededDoes, CoreHolds
<1>3. ASSUME NEW p \in Servers, DropConfig(p)
      PROVE  ListsKept
  BY <1>3, DropConfigDoes, CoreHolds
<1>4. ASSUME NEW p \in Servers, InsertConfig(p)
      PROVE  ListsKept
  BY <1>4, InsertConfigDoes, CoreHolds
<1>5. ASSUME NEW p \in Servers, ReadEnvironments(p)
      PROVE  ListsKept
  BY <1>5, ReadEnvironmentsDoes, CoreHolds
<1>6. ASSUME NEW p \in Servers, EncryptDatabase(p)
      PROVE  ListsKept
  BY <1>6, EncryptDatabaseDoes, CoreHolds
<1>7. ASSUME NEW p \in Servers, ReadRows(p)
      PROVE  ListsKept
  BY <1>7, ReadRowsDoes, CoreHolds DEF Listing, NextRowTurned
<1>8. ASSUME NEW p \in Servers, NEW x \in server[p].rows, EncryptRow(p, x)
      PROVE  ListsKept
  <2>1. NextRowTurned(p, server[p].rows \ {x})
    BY <1>8, EncryptRowDoes, CoreHolds
  <2>2. Listing(p)
    BY <1>8 DEF Listing
  <2> QED BY <2>1, <2>2 DEF NextRowTurned
<1>9. ASSUME NEW p \in Servers, CacheSecrets(p)
      PROVE  ListsKept
  BY <1>9, CacheSecretsDoes, CoreHolds, PresentKey
<1>10. ASSUME NEW p \in Servers, Stop(p)
       PROVE  ListsKept
  BY <1>10, StopDoes, CoreHolds
<1>11. ASSUME NEW r \in Requests, NEW p \in Servers, RotateKey(r, p)
       PROVE  ListsKept
  BY <1>11, RotateKeyDoes, CoreHolds
<1>12. ASSUME NEW r \in Requests, NEW p \in Servers, RevertKey(r, p)
       PROVE  ListsKept
  BY <1>12, RevertKeyDoes, CoreHolds
<1>13. ASSUME NEW r \in Requests, NEW p \in Servers, ActivateKey(r, p)
       PROVE  ListsKept
  BY <1>13, ActivateKeyDoes, CoreHolds
<1>14. ASSUME NEW r \in Requests, NEW p \in Servers, UpdateSetting(r, p)
       PROVE  ListsKept
  BY <1>14, UpdateSettingDoes, CoreHolds
<1>15. ASSUME NEW r \in Requests, NEW p \in Servers, UpdateEnvironmentVariables(r, p)
       PROVE  ListsKept
  BY <1>15, UpdateEnvironmentVariablesDoes, CoreHolds
<1>16. ASSUME NEW r \in Requests, NEW p \in Servers, SaveCredentials(r, p)
       PROVE  ListsKept
  BY <1>16, SaveCredentialsDoes, CoreHolds
<1>17. ASSUME NEW r \in Requests, NEW p \in Servers, CreateEnvironment(r, p)
       PROVE  ListsKept
  BY <1>17, CreateEnvironmentDoes, CoreHolds
<1>18. ASSUME NEW r \in Requests, NEW p \in Servers, task[r].at = p, WritePending(r)
       PROVE  ListsKept
  BY <1>18, WritePendingDoes, CoreHolds
<1>19. ASSUME NEW r \in Requests, NEW p \in Servers, task[r].at = p, WriteRotated(r)
       PROVE  ListsKept
  BY <1>19, WriteRotatedDoes, CoreHolds
<1>20. ASSUME NEW r \in Requests, NEW p \in Servers, task[r].at = p, RevertSecretKey(r)
       PROVE  ListsKept
  BY <1>20, RevertSecretKeyDoes, CoreHolds
<1>21. ASSUME NEW r \in Requests, NEW p \in Servers, task[r].at = p, ReplaceKey(r)
       PROVE  ListsKept
  <2>1. UNCHANGED server \/ Cached(p, server[p].cache \ {task[r].row.secret.key}) \/ Cached(p, server[p].cache)
    BY <1>21, ReplaceKeyDoes, CoreHolds
  <2> QED BY <2>1
<1>22. ASSUME NEW r \in Requests, NEW p \in Servers, task[r].at = p, AddToEnvironmentSecretCache(r)
       PROVE  ListsKept
  <2>0. row.secret.key # None
    BY <1>22, StepAt DEF Step
  <2> QED BY <1>22, AddToEnvironmentSecretCacheDoes, CoreHolds, <2>0
<1>23. ASSUME NEW r \in Requests, NEW p \in Servers, task[r].at = p, InsertVariables(r)
       PROVE  ListsKept
  BY <1>23, InsertVariablesDoes, CoreHolds
<1>24. ASSUME NEW r \in Requests, NEW p \in Servers, task[r].at = p, ReadCreated(r)
       PROVE  ListsKept
  BY <1>24, ReadCreatedDoes, CoreHolds
<1>25. ASSUME NEW r \in Requests, NEW p \in Servers, task[r].at = p, WriteCreated(r)
       PROVE  ListsKept
  BY <1>25, WriteCreatedDoes, CoreHolds, EncryptedPresent
<1>26. ASSUME NEW r \in Requests, NEW p \in Servers, task[r].at = p, CreateUser(r)
       PROVE  ListsKept
  BY <1>26, CreateUserDoes, CoreHolds
<1> QED BY <1>1, <1>2, <1>3, <1>4, <1>5, <1>6, <1>7, <1>8, <1>9, <1>10, <1>11, <1>12, <1>13,
           <1>14, <1>15, <1>16, <1>17, <1>18, <1>19, <1>20, <1>21, <1>22, <1>23, <1>24, <1>25,
           <1>26, StepAt DEF EnvironmentsNext, Boot, Request, Step

LEMMA EncryptRowClears ==
    ASSUME CoreInv, NEW p \in Servers, NEW x \in server[p].rows, EncryptRow(p, x)
    PROVE  \A y \in tables'[Tables[server[p].table]] :
              y.text.by = NoKey => y \in tables[Tables[server[p].table]] /\ y.id # x.id
<1> DEFINE t == Tables[server[p].table]
           same == {y \in tables[t] : y.id = x.id}
           e == Encrypt(server[p].key, x)
<1>1. /\ x \in TableRows /\ server[p].key \in EncryptionKeys \cup {NoKey} /\ server[p].key # NoKey
  BY EncryptRowDoes, CoreHolds DEF ServersFit, ServerFits, Encrypting, Types, ServerType
<1>2. e.text.by # NoKey
  BY <1>1, EncryptRowWell
<1>3. tables'[t] = IF same = {} THEN tables[t] ELSE (tables[t] \ same) \cup {e}
  BY EncryptRowDoes, CoreHolds
<1> HIDE DEF t, e
<1> QED BY <1>2, <1>3 DEF t

LEMMA StepTablesSealed ==
    ASSUME CoreInv, OneKey, ConfigTells, FirstTable, TablesSealed, RowsListed, EnvironmentsNext
    PROVE  TablesSealed'
<1> SUFFICES ASSUME Trusted', NEW i \in {1, 2}, SealingTable(i)', NEW x \in tables'[Tables[i]]
             PROVE  x.text.by # NoKey
  BY DEF TablesSealed
<1>1. Trusted /\ Tables[i] \in TableNames
  BY TrustedStays, TableTypes
<1>2. CASE SealingTable(i)
  <2>1. \A y \in tables[Tables[i]] : y.text.by # NoKey
    BY <1>1, <1>2 DEF TablesSealed
  <2>2. \A p \in Servers : Past0(p) => server[p].key # NoKey
    BY <1>1, <1>2, PastSeals, Keyed
  <2> QED BY <1>1, <2>1, <2>2, StepTablesBy, WritingPast0 DEF TablesBy
<1>3. CASE ~SealingTable(i)
  <2>1. PICK p \in Servers : ReadEnvironments(p) \/ EncryptDatabase(p) \/ ReadRows(p)
                             \/ \E z \in server[p].rows : EncryptRow(p, z)
    BY <1>3, StepSeal DEF SealKept, Passing
  <2>2. server[p].pc \in Encrypting /\ server[p].key # NoKey
    BY <2>1, CoreHolds DEF ReadEnvironments, EncryptDatabase, ReadRows, EncryptRow, Encrypting,
       ServersFit,
                           ServerFits
  <2>3. CASE ReadEnvironments(p)
    <3>1. /\ UNCHANGED config /\ \A q \in Servers : q # p => server'[q] = server[q]
          /\ server'[p].pc \in {"readRows", "encrypt"} /\ server'[p].table = 1
      BY <2>3, ReadEnvironmentsDoes, CoreHolds DEF Turned, FirstTable
    <3> QED BY <1>3, <3>1 DEF SealingTable, PastTable, Past
  <2>4. CASE EncryptDatabase(p)
    <3>1. /\ UNCHANGED config /\ \A q \in Servers : q # p => server'[q] = server[q]
          /\ server'[p].pc = "readRows" /\ server'[p].table = 1
      BY <2>4, EncryptDatabaseDoes, CoreHolds DEF Turned, FirstTable
    <3> QED BY <1>3, <3>1 DEF SealingTable, PastTable, Past
  <2>5. CASE ReadRows(p)
    <3> DEFINE rows == {y \in tables[Tables[server[p].table]] : ~y.text.iv}
    <3>1. /\ UNCHANGED <<config, tables>> /\ NextRowTurned(p, rows) /\ server[p].pc = "readRows"
      BY <2>5, ReadRowsDoes, CoreHolds
    <3> HIDE DEF rows
    <3>2. PastTable(p, i)'
      BY <1>3, <3>1 DEF SealingTable, PastTable, Past, NextRowTurned, Turned
    <3>3. server[p].table \in {1, 2}
      BY CoreHolds, TableTypes DEF Types, ServerType
    <3>4. PastTable(p, i) \/ (rows = {} /\ server[p].table = i)
      BY <2>2, <3>1, <3>2, <3>3 DEF PastTable, Past, NextRowTurned, Turned
    <3>5. rows = {} /\ server[p].table = i
      BY <1>3, <3>4 DEF SealingTable
    <3> QED BY <1>1, <3>1, <3>5, CoreHolds DEF rows, TablesFit, WellText
  <2>6. CASE \E z \in server[p].rows : EncryptRow(p, z)
    <3>1. PICK z \in server[p].rows : EncryptRow(p, z)
      BY <2>6
    <3>2. /\ UNCHANGED config /\ NextRowTurned(p, server[p].rows \ {z}) /\ server[p].pc = "encryptRows"
      BY <3>1, EncryptRowDoes, CoreHolds
    <3>3. PastTable(p, i)'
      BY <1>3, <3>2 DEF SealingTable, PastTable, Past, NextRowTurned, Turned
    <3>4. server[p].table \in {1, 2}
      BY CoreHolds, TableTypes DEF Types, ServerType
    <3>5. PastTable(p, i) \/ (server[p].rows \ {z} = {} /\ server[p].table = i)
      BY <2>2, <3>2, <3>3, <3>4 DEF PastTable, Past, NextRowTurned, Turned
    <3>6. server[p].rows = {z} /\ server[p].table = i
      BY <1>3, <3>5 DEF SealingTable
    <3>7. \A y \in tables[Tables[i]] : y.text.by = NoKey => y.id = z.id
      BY <1>1, <3>2, <3>6 DEF RowsListed
    <3> QED BY <3>1, <3>6, <3>7, EncryptRowClears
  <2> QED BY <2>1, <2>3, <2>4, <2>5, <2>6
<1> QED BY <1>2, <1>3

LEMMA StepRowsListed ==
    ASSUME CoreInv, OneKey, RowsListed, EnvironmentsNext
    PROVE  RowsListed'
<1> SUFFICES ASSUME Trusted', NEW p \in Servers, server'[p].pc = "encryptRows",
                    NEW x \in tables'[Tables[server'[p].table]], x.text.by = NoKey
             PROVE  \E y \in server'[p].rows : y.id = x.id
  BY DEF RowsListed
<1>1. Trusted /\ "keys" \notin reasons
  BY TrustedStays
<1>2. CASE /\ server[p].pc = "encryptRows" /\ server'[p].rows = server[p].rows
           /\ server'[p].table = server[p].table
  <2>1. server[p].key # NoKey /\ Tables[server[p].table] \in TableNames
    BY <1>2, CoreHolds, TableTypes DEF ServersFit, ServerFits, Encrypting, Types, ServerType
  <2>2. \A q \in Servers : Writing(q) => server[q].key # NoKey
    BY <1>1, <1>2, <2>1 DEF OneKey, Writing
  <2>3. x \in tables[Tables[server[p].table]]
    BY <1>2, <2>1, <2>2, StepTablesBy DEF TablesBy
  <2> QED BY <1>1, <1>2, <2>3 DEF RowsListed
<1>3. CASE ReadRows(p)
  <2> DEFINE rows == {y \in tables[Tables[server[p].table]] : ~y.text.iv}
  <2>1. UNCHANGED tables /\ NextRowTurned(p, rows) /\ Tables[server[p].table] \in TableNames
    BY <1>3, ReadRowsDoes, CoreHolds, TableTypes DEF Types, ServerType
  <2> HIDE DEF rows
  <2>2. server'[p].rows = rows /\ server'[p].table = server[p].table
    BY <2>1 DEF NextRowTurned, Turned
  <2> QED BY <2>1, <2>2, CoreHolds DEF rows, TablesFit, WellText
<1>4. CASE \E z \in server[p].rows : EncryptRow(p, z)
  <2>1. PICK z \in server[p].rows : EncryptRow(p, z)
    BY <1>4
  <2>2. NextRowTurned(p, server[p].rows \ {z}) /\ server[p].pc = "encryptRows"
    BY <2>1, EncryptRowDoes, CoreHolds
  <2>3. server'[p].rows = server[p].rows \ {z} /\ server'[p].table = server[p].table
    BY <2>2 DEF NextRowTurned, Turned
  <2>4. x \in tables[Tables[server[p].table]] /\ x.id # z.id
    BY <2>1, <2>3, EncryptRowClears
  <2>5. PICK y \in server[p].rows : y.id = x.id
    BY <1>1, <2>2, <2>4 DEF RowsListed
  <2> QED BY <2>3, <2>4, <2>5
<1> QED BY <1>2, <1>3, <1>4, StepLists DEF ListsKept, Listing

(***************************************************************************)
(* The row that is held to be written back is the row, unless they met.    *)
(***************************************************************************)

HeldRows ==
    "overlap" \notin reasons =>
       /\ \A r \in Requests : task[r].pc \in {"pending", "rotated"} => task[r].row = row
       /\ \A p \in Servers : server[p].pc = "encrypt" => server[p].row = row

SettingKept == "overlap" \notin reasons => row.setting = wanted.setting

KeysOf(S) == {x.text.key : x \in S}

CredentialsKept ==
    "overlap" \notin reasons => KeysOf(tables["credentials"]) = wanted.rows["credentials"]

LEMMA HoldingIs ==
    /\ \A r \in Requests : r \in Holding <=> task[r].pc \in {"pending", "rotated"}
    /\ \A p \in Servers : p \in Holding <=> server[p].pc = "encrypt"
BY RequestTypes DEF Holding, Up

\* Nobody holds the row but x, or the step is an overlap.
LEMMA NoHolders ==
    ASSUME Holding = {}
    PROVE  /\ \A r \in Requests : task[r].pc \notin {"pending", "rotated"}
           /\ \A p \in Servers : server[p].pc # "encrypt"
BY HoldingIs

LEMMA OverlappingIs == ASSUME "overlap" \notin Overlapping PROVE Holding = {}
BY DEF Overlapping

LEMMA StepHeldRows ==
    ASSUME CoreInv, HeldRows, EnvironmentsNext
    PROVE  HeldRows'
<1>1. ASSUME NEW p \in Servers, NEW k \in EncryptionKeys \cup {NoKey}, Start(p, k)
      PROVE  HeldRows'
  BY <1>1, StartDoes, CoreHolds, StepReasons DEF HeldRows, Turned, NextRowTurned
<1>2. ASSUME NEW p \in Servers, EncryptDatabaseIfNeeded(p)
      PROVE  HeldRows'
  BY <1>2, EncryptDatabaseIfNeededDoes, CoreHolds, StepReasons DEF HeldRows, Turned,
     NextRowTurned
<1>3. ASSUME NEW p \in Servers, DropConfig(p)
      PROVE  HeldRows'
  BY <1>3, DropConfigDoes, CoreHolds, StepReasons DEF HeldRows, Turned, NextRowTurned
<1>4. ASSUME NEW p \in Servers, InsertConfig(p)
      PROVE  HeldRows'
  BY <1>4, InsertConfigDoes, CoreHolds, StepReasons DEF HeldRows, Turned, NextRowTurned
<1>5. ASSUME NEW p \in Servers, ReadEnvironments(p)
      PROVE  HeldRows'
  BY <1>5, ReadEnvironmentsDoes, CoreHolds, StepReasons DEF HeldRows, Turned, NextRowTurned
<1>6. ASSUME NEW p \in Servers, EncryptDatabase(p)
      PROVE  HeldRows'
  <2> SUFFICES ASSUME "overlap" \notin reasons' PROVE HeldRows'
    BY DEF HeldRows
  <2>1. Holding = {p}
    BY <1>6, EncryptDatabaseDoes, CoreHolds
  <2>2. /\ \A q \in Requests : task[q].pc \notin {"pending", "rotated"}
        /\ \A q \in Servers : server[q].pc = "encrypt" => q = p
    BY <2>1, HoldingIs, RequestTypes
  <2> QED BY <2>2, <1>6, EncryptDatabaseDoes, CoreHolds DEF HeldRows, Turned
<1>7. ASSUME NEW p \in Servers, ReadRows(p)
      PROVE  HeldRows'
  BY <1>7, ReadRowsDoes, CoreHolds, StepReasons DEF HeldRows, Turned, NextRowTurned
<1>8. ASSUME NEW p \in Servers, NEW x \in server[p].rows, EncryptRow(p, x)
      PROVE  HeldRows'
  <2>1. UNCHANGED <<row, task>> /\ NextRowTurned(p, server[p].rows \ {x})
    BY <1>8, EncryptRowDoes, CoreHolds
  <2>2. /\ \A q \in Servers : q # p => server'[q] = server[q]
        /\ server'[p].pc # "encrypt"
    BY <2>1 DEF NextRowTurned, Turned
  <2> QED BY <2>1, <2>2, StepReasons DEF HeldRows
<1>9. ASSUME NEW p \in Servers, CacheSecrets(p)
      PROVE  HeldRows'
  BY <1>9, CacheSecretsDoes, CoreHolds, PresentKey, StepReasons DEF HeldRows, Turned,
     NextRowTurned
<1>10. ASSUME NEW p \in Servers, Stop(p)
       PROVE  HeldRows'
  <2>1. Done.pc = "done"
    BY DEF Done
  <2>2. \A q \in Requests : task'[q].pc \in {"pending", "rotated"} => task'[q] = task[q]
    BY <2>1, <1>10, StopDoes, CoreHolds
  <2> QED BY <2>2, <1>10, StopDoes, CoreHolds, StepReasons DEF HeldRows, Turned
<1>11. ASSUME NEW r \in Requests, NEW p \in Servers, RotateKey(r, p)
       PROVE  HeldRows'
  <2>1. \A q \in Requests : task'[q].pc \in {"pending", "rotated"} => task'[q] = task[q] \/ task'[q].row = row
    BY <1>11, RotateKeyDoes, CoreHolds DEF Moved
  <2>2. \A q \in Servers : server'[q].pc = "encrypt" =>
              server[q].pc = "encrypt" /\ server'[q].row = server[q].row
    BY <1>11, RotateKeyDoes, CoreHolds DEF Cached, Turned
  <2> QED BY <2>1, <2>2, <1>11, RotateKeyDoes, CoreHolds, StepReasons DEF HeldRows
<1>12. ASSUME NEW r \in Requests, NEW p \in Servers, RevertKey(r, p)
       PROVE  HeldRows'
  <2>1. \A q \in Requests : task'[q].pc \in {"pending", "rotated"} => task'[q] = task[q] \/ task'[q].row = row
    BY <1>12, RevertKeyDoes, CoreHolds DEF Moved
  <2>2. \A q \in Servers : server'[q].pc = "encrypt" =>
              server[q].pc = "encrypt" /\ server'[q].row = server[q].row
    BY <1>12, RevertKeyDoes, CoreHolds DEF Cached, Turned
  <2> QED BY <2>1, <2>2, <1>12, RevertKeyDoes, CoreHolds, StepReasons DEF HeldRows
<1>13. ASSUME NEW r \in Requests, NEW p \in Servers, ActivateKey(r, p)
       PROVE  HeldRows'
  <2>1. \A q \in Requests : task'[q].pc \in {"pending", "rotated"} => task'[q] = task[q] \/ task'[q].row = row
    BY <1>13, ActivateKeyDoes, CoreHolds DEF Moved
  <2>2. \A q \in Servers : server'[q].pc = "encrypt" =>
              server[q].pc = "encrypt" /\ server'[q].row = server[q].row
    BY <1>13, ActivateKeyDoes, CoreHolds DEF Cached, Turned
  <2> QED BY <2>1, <2>2, <1>13, ActivateKeyDoes, CoreHolds, StepReasons DEF HeldRows
<1>14. ASSUME NEW r \in Requests, NEW p \in Servers, UpdateSetting(r, p)
       PROVE  HeldRows'
  <2> SUFFICES ASSUME "overlap" \notin reasons' PROVE HeldRows'
    BY DEF HeldRows
  <2>1. Holding = {}
    BY <1>14, UpdateSettingDoes, CoreHolds, OverlappingIs
  <2>2. /\ \A q \in Requests : task'[q].pc \in {"pending", "rotated"} => task[q].pc \in {"pending", "rotated"}
        /\ \A q \in Servers : server'[q].pc = "encrypt" => server[q].pc = "encrypt"
    BY <1>14, UpdateSettingDoes, CoreHolds DEF Moved, Taken, Cached, Turned
  <2> QED BY <2>1, <2>2, NoHolders DEF HeldRows
<1>15. ASSUME NEW r \in Requests, NEW p \in Servers, UpdateEnvironmentVariables(r, p)
       PROVE  HeldRows'
  <2>1. \A q \in Requests : task'[q].pc \in {"pending", "rotated"} => task'[q] = task[q] \/ task'[q].row = row
    BY <1>15, UpdateEnvironmentVariablesDoes, CoreHolds DEF Moved
  <2>2. \A q \in Servers : server'[q].pc = "encrypt" =>
              server[q].pc = "encrypt" /\ server'[q].row = server[q].row
    BY <1>15, UpdateEnvironmentVariablesDoes, CoreHolds DEF Cached, Turned
  <2> QED BY <2>1, <2>2, <1>15, UpdateEnvironmentVariablesDoes, CoreHolds, StepReasons
             DEF HeldRows
<1>16. ASSUME NEW r \in Requests, NEW p \in Servers, SaveCredentials(r, p)
       PROVE  HeldRows'
  <2>1. \A q \in Requests : task'[q].pc \in {"pending", "rotated"} => task'[q] = task[q] \/ task'[q].row = row
    BY <1>16, SaveCredentialsDoes, CoreHolds DEF Moved
  <2>2. \A q \in Servers : server'[q].pc = "encrypt" =>
              server[q].pc = "encrypt" /\ server'[q].row = server[q].row
    BY <1>16, SaveCredentialsDoes, CoreHolds DEF Cached, Turned
  <2> QED BY <2>1, <2>2, <1>16, SaveCredentialsDoes, CoreHolds, StepReasons DEF HeldRows
<1>17. ASSUME NEW r \in Requests, NEW p \in Servers, CreateEnvironment(r, p)
       PROVE  HeldRows'
  <2> SUFFICES ASSUME "overlap" \notin reasons' PROVE HeldRows'
    BY DEF HeldRows
  <2>1. Holding = {}
    BY <1>17, CreateEnvironmentDoes, CoreHolds, OverlappingIs
  <2>2. /\ \A q \in Requests : task'[q].pc \in {"pending", "rotated"} => task[q].pc \in {"pending", "rotated"}
        /\ \A q \in Servers : server'[q].pc = "encrypt" => server[q].pc = "encrypt"
    BY <1>17, CreateEnvironmentDoes, CoreHolds DEF Moved, Taken, Cached, Turned
  <2> QED BY <2>1, <2>2, NoHolders DEF HeldRows
<1>18. ASSUME NEW r \in Requests, NEW p \in Servers, task[r].at = p, WritePending(r)
       PROVE  HeldRows'
  <2> SUFFICES ASSUME "overlap" \notin reasons' PROVE HeldRows'
    BY DEF HeldRows
  <2>1. Holding = {r}
    BY <1>18, WritePendingDoes, CoreHolds
  <2>2. /\ \A q \in Requests : task[q].pc \in {"pending", "rotated"} => q = r
        /\ \A q \in Servers : server[q].pc # "encrypt"
    BY <2>1, HoldingIs, RequestTypes
  <2>3. task[r].row = row
    BY <1>18, WritePendingDoes, CoreHolds, StepReasons DEF HeldRows
  <2> QED BY <2>2, <2>3, <1>18, WritePendingDoes, CoreHolds DEF HeldRows, Moved
<1>19. ASSUME NEW r \in Requests, NEW p \in Servers, task[r].at = p, WriteRotated(r)
       PROVE  HeldRows'
  <2> SUFFICES ASSUME "overlap" \notin reasons' PROVE HeldRows'
    BY DEF HeldRows
  <2>1. Holding = {r}
    BY <1>19, WriteRotatedDoes, CoreHolds
  <2>2. /\ \A q \in Requests : task[q].pc \in {"pending", "rotated"} => q = r
        /\ \A q \in Servers : server[q].pc # "encrypt"
    BY <2>1, HoldingIs, RequestTypes
  <2> QED BY <2>2, <1>19, WriteRotatedDoes, CoreHolds DEF HeldRows, Moved
<1>20. ASSUME NEW r \in Requests, NEW p \in Servers, task[r].at = p, RevertSecretKey(r)
       PROVE  HeldRows'
  <2> SUFFICES ASSUME "overlap" \notin reasons' PROVE HeldRows'
    BY DEF HeldRows
  <2>1. Holding = {}
    BY <1>20, RevertSecretKeyDoes, CoreHolds, OverlappingIs
  <2>2. /\ \A q \in Requests : task'[q].pc \in {"pending", "rotated"} => task[q].pc \in {"pending", "rotated"}
        /\ \A q \in Servers : server'[q].pc = "encrypt" => server[q].pc = "encrypt"
    BY <1>20, RevertSecretKeyDoes, CoreHolds DEF Moved, Taken, Cached, Turned
  <2> QED BY <2>1, <2>2, NoHolders DEF HeldRows
<1>21. ASSUME NEW r \in Requests, NEW p \in Servers, task[r].at = p, ReplaceKey(r)
       PROVE  HeldRows'
  <2>0. UNCHANGED server \/ Cached(p, server[p].cache \ {task[r].row.secret.key}) \/ Cached(p, server[p].cache)
    BY <1>21, ReplaceKeyDoes, CoreHolds
  <2>1. Moved(r, "done", None, Absent) \/ Moved(r, "recache", p, task[r].row)
    BY <1>21, ReplaceKeyDoes, CoreHolds
  <2>2. /\ \A q \in Requests : task'[q].pc \in {"pending", "rotated"} => task'[q] = task[q]
        /\ \A q \in Servers : server'[q].pc = "encrypt" =>
              server[q].pc = "encrypt" /\ server'[q].row = server[q].row
    BY <2>0, <2>1 DEF Moved, Cached, Turned
  <2>3. CASE UNCHANGED row
    BY <2>2, <2>3, StepReasons DEF HeldRows
  <2>4. CASE Replace(r, task[r].row.pending)
    <3>1. "overlap" \notin reasons' => Holding = {}
      BY <2>4, OverlappingIs DEF Replace
    <3> QED BY <2>2, <3>1, NoHolders DEF HeldRows
  <2> QED BY <2>3, <2>4, <1>21 DEF ReplaceKey, Reads
<1>22. ASSUME NEW r \in Requests, NEW p \in Servers, task[r].at = p, AddToEnvironmentSecretCache(r)
       PROVE  HeldRows'
  <2>0. row.secret.key # None
    BY <1>22, StepAt DEF Step
  <2>1. \A q \in Requests : task'[q].pc \in {"pending", "rotated"} => task'[q] = task[q] \/ task'[q].row = row
    BY <1>22, AddToEnvironmentSecretCacheDoes, CoreHolds, <2>0 DEF Moved
  <2>2. \A q \in Servers : server'[q].pc = "encrypt" =>
              server[q].pc = "encrypt" /\ server'[q].row = server[q].row
    BY <1>22, AddToEnvironmentSecretCacheDoes, CoreHolds, <2>0 DEF Cached, Turned
  <2> QED BY <2>1, <2>2, <1>22, AddToEnvironmentSecretCacheDoes, CoreHolds, <2>0, StepReasons
             DEF HeldRows
<1>23. ASSUME NEW r \in Requests, NEW p \in Servers, task[r].at = p, InsertVariables(r)
       PROVE  HeldRows'
  <2>1. \A q \in Requests : task'[q].pc \in {"pending", "rotated"} => task'[q] = task[q] \/ task'[q].row = row
    BY <1>23, InsertVariablesDoes, CoreHolds DEF Moved
  <2>2. \A q \in Servers : server'[q].pc = "encrypt" =>
              server[q].pc = "encrypt" /\ server'[q].row = server[q].row
    BY <1>23, InsertVariablesDoes, CoreHolds DEF Cached, Turned
  <2> QED BY <2>1, <2>2, <1>23, InsertVariablesDoes, CoreHolds, StepReasons DEF HeldRows
<1>24. ASSUME NEW r \in Requests, NEW p \in Servers, task[r].at = p, ReadCreated(r)
       PROVE  HeldRows'
  <2>1. \A q \in Requests : task'[q].pc \in {"pending", "rotated"} => task'[q] = task[q] \/ task'[q].row = row
    BY <1>24, ReadCreatedDoes, CoreHolds DEF Moved
  <2>2. \A q \in Servers : server'[q].pc = "encrypt" =>
              server[q].pc = "encrypt" /\ server'[q].row = server[q].row
    BY <1>24, ReadCreatedDoes, CoreHolds DEF Cached, Turned
  <2> QED BY <2>1, <2>2, <1>24, ReadCreatedDoes, CoreHolds, StepReasons DEF HeldRows
<1>25. ASSUME NEW r \in Requests, NEW p \in Servers, task[r].at = p, WriteCreated(r)
       PROVE  HeldRows'
  <2> SUFFICES ASSUME "overlap" \notin reasons' PROVE HeldRows'
    BY DEF HeldRows
  <2>1. Holding = {}
    BY <1>25, WriteCreatedDoes, CoreHolds, EncryptedPresent, OverlappingIs
  <2>2. /\ \A q \in Requests : task'[q].pc \in {"pending", "rotated"} => task[q].pc \in {"pending", "rotated"}
        /\ \A q \in Servers : server'[q].pc = "encrypt" => server[q].pc = "encrypt"
    BY <1>25, WriteCreatedDoes, CoreHolds, EncryptedPresent DEF Moved, Taken, Cached, Turned
  <2> QED BY <2>1, <2>2, NoHolders DEF HeldRows
<1>26. ASSUME NEW r \in Requests, NEW p \in Servers, task[r].at = p, CreateUser(r)
       PROVE  HeldRows'
  <2>1. \A q \in Requests : task'[q].pc \in {"pending", "rotated"} => task'[q] = task[q] \/ task'[q].row = row
    BY <1>26, CreateUserDoes, CoreHolds DEF Moved
  <2>2. \A q \in Servers : server'[q].pc = "encrypt" =>
              server[q].pc = "encrypt" /\ server'[q].row = server[q].row
    BY <1>26, CreateUserDoes, CoreHolds DEF Cached, Turned
  <2> QED BY <2>1, <2>2, <1>26, CreateUserDoes, CoreHolds, StepReasons DEF HeldRows
<1> QED BY <1>1, <1>2, <1>3, <1>4, <1>5, <1>6, <1>7, <1>8, <1>9, <1>10, <1>11, <1>12, <1>13,
           <1>14, <1>15, <1>16, <1>17, <1>18, <1>19, <1>20, <1>21, <1>22, <1>23, <1>24, <1>25,
           <1>26, StepAt DEF EnvironmentsNext, Boot, Request, Step

LEMMA StepSettingKept ==
    ASSUME CoreInv, HeldRows, SettingKept, EnvironmentsNext
    PROVE  SettingKept'
<1> USE DEF SettingKept
<1>1. ASSUME NEW p \in Servers, NEW k \in EncryptionKeys \cup {NoKey}, Start(p, k)
      PROVE  SettingKept'
  BY <1>1, StartDoes, CoreHolds, StepReasons
<1>2. ASSUME NEW p \in Servers, EncryptDatabaseIfNeeded(p)
      PROVE  SettingKept'
  BY <1>2, EncryptDatabaseIfNeededDoes, CoreHolds, StepReasons
<1>3. ASSUME NEW p \in Servers, DropConfig(p)
      PROVE  SettingKept'
  BY <1>3, DropConfigDoes, CoreHolds, StepReasons
<1>4. ASSUME NEW p \in Servers, InsertConfig(p)
      PROVE  SettingKept'
  BY <1>4, InsertConfigDoes, CoreHolds, StepReasons
<1>5. ASSUME NEW p \in Servers, ReadEnvironments(p)
      PROVE  SettingKept'
  BY <1>5, ReadEnvironmentsDoes, CoreHolds, StepReasons
<1>6. ASSUME NEW p \in Servers, EncryptDatabase(p)
      PROVE  SettingKept'
  <2>1. /\ WellRow(server[p].row) /\ server[p].key \in EncryptionKeys \cup {NoKey}
        /\ row' = EncryptEnvironment(server[p].key, server[p].row) /\ UNCHANGED wanted
        /\ server[p].pc = "encrypt"
    BY <1>6, EncryptDatabaseDoes, CoreHolds DEF ServersFit, ServerFits, Types, ServerType
  <2>2. row'.setting = server[p].row.setting
    BY <2>1, EncryptWell
  <2> QED BY <2>1, <2>2, StepReasons DEF HeldRows
<1>7. ASSUME NEW p \in Servers, ReadRows(p)
      PROVE  SettingKept'
  BY <1>7, ReadRowsDoes, CoreHolds, StepReasons
<1>8. ASSUME NEW p \in Servers, NEW x \in server[p].rows, EncryptRow(p, x)
      PROVE  SettingKept'
  BY <1>8, EncryptRowDoes, CoreHolds, StepReasons
<1>9. ASSUME NEW p \in Servers, CacheSecrets(p)
      PROVE  SettingKept'
  BY <1>9, CacheSecretsDoes, CoreHolds, PresentKey, StepReasons
<1>10. ASSUME NEW p \in Servers, Stop(p)
       PROVE  SettingKept'
  BY <1>10, StopDoes, CoreHolds, StepReasons
<1>11. ASSUME NEW r \in Requests, NEW p \in Servers, RotateKey(r, p)
       PROVE  SettingKept'
  BY <1>11, RotateKeyDoes, CoreHolds, StepReasons
<1>12. ASSUME NEW r \in Requests, NEW p \in Servers, RevertKey(r, p)
       PROVE  SettingKept'
  BY <1>12, RevertKeyDoes, CoreHolds, StepReasons
<1>13. ASSUME NEW r \in Requests, NEW p \in Servers, ActivateKey(r, p)
       PROVE  SettingKept'
  BY <1>13, ActivateKeyDoes, CoreHolds, StepReasons
<1>14. ASSUME NEW r \in Requests, NEW p \in Servers, UpdateSetting(r, p)
       PROVE  SettingKept'
  BY <1>14, UpdateSettingDoes, ConfiguredTypes, CoreHolds DEF Types
<1>15. ASSUME NEW r \in Requests, NEW p \in Servers, UpdateEnvironmentVariables(r, p)
       PROVE  SettingKept'
  BY <1>15, UpdateEnvironmentVariablesDoes, CoreHolds, StepReasons
<1>16. ASSUME NEW r \in Requests, NEW p \in Servers, SaveCredentials(r, p)
       PROVE  SettingKept'
  BY <1>16, SaveCredentialsDoes, CoreHolds, StepReasons
<1>17. ASSUME NEW r \in Requests, NEW p \in Servers, CreateEnvironment(r, p)
       PROVE  SettingKept'
  BY <1>17, CreateEnvironmentDoes, AbsentFields, CoreHolds, StepReasons
<1>18. ASSUME NEW r \in Requests, NEW p \in Servers, task[r].at = p, WritePending(r)
       PROVE  SettingKept'
  BY <1>18, WritePendingDoes, PendTypes, CoreHolds, StepReasons DEF Types
<1>19. ASSUME NEW r \in Requests, NEW p \in Servers, task[r].at = p, WriteRotated(r)
       PROVE  SettingKept'
  <2>1. /\ WellRow(task[r].row) /\ Key(r) \in EncryptionKeys \cup {NoKey}
        /\ row' = EncryptEnvironment(Key(r), task[r].row) /\ UNCHANGED wanted /\ task[r].pc = "rotated"
    BY <1>19, WriteRotatedDoes, CoreHolds DEF TasksFit, TaskFits, Reading, Key, Types,
       ServerType
  <2>2. row'.setting = task[r].row.setting
    BY <2>1, EncryptWell
  <2> QED BY <2>1, <2>2, StepReasons DEF HeldRows
<1>20. ASSUME NEW r \in Requests, NEW p \in Servers, task[r].at = p, RevertSecretKey(r)
       PROVE  SettingKept'
  BY <1>20, RevertSecretKeyDoes, CoreHolds, StepReasons
<1>21. ASSUME NEW r \in Requests, NEW p \in Servers, task[r].at = p, ReplaceKey(r)
       PROVE  SettingKept'
  <2>1. row'.setting = row.setting /\ UNCHANGED wanted
    BY <1>21, ReplaceKeyDoes, CoreHolds
  <2> QED BY <2>1, StepReasons
<1>22. ASSUME NEW r \in Requests, NEW p \in Servers, task[r].at = p, AddToEnvironmentSecretCache(r)
       PROVE  SettingKept'
  <2>0. row.secret.key # None
    BY <1>22, StepAt DEF Step
  <2> QED BY <1>22, AddToEnvironmentSecretCacheDoes, CoreHolds, <2>0, StepReasons
<1>23. ASSUME NEW r \in Requests, NEW p \in Servers, task[r].at = p, InsertVariables(r)
       PROVE  SettingKept'
  BY <1>23, InsertVariablesDoes, CoreHolds, StepReasons
<1>24. ASSUME NEW r \in Requests, NEW p \in Servers, task[r].at = p, ReadCreated(r)
       PROVE  SettingKept'
  BY <1>24, ReadCreatedDoes, CoreHolds, StepReasons
<1>25. ASSUME NEW r \in Requests, NEW p \in Servers, task[r].at = p, WriteCreated(r)
       PROVE  SettingKept'
  <2>1. /\ WellRow(task[r].row) /\ Key(r) \in EncryptionKeys \cup {NoKey}
        /\ row' = EncryptEnvironment(Key(r), task[r].row) /\ UNCHANGED wanted
    BY <1>25, WriteCreatedDoes, EncryptedPresent, CoreHolds
       DEF TasksFit, TaskFits, Reading, Key, Types, ServerType
  <2>2. row'.setting = task[r].row.setting
    BY <2>1, EncryptWell
  <2>3. "overlap" \notin reasons' => row = task[r].row
    BY <1>25, WriteCreatedDoes, EncryptedPresent, CoreHolds
  <2> QED BY <2>1, <2>2, <2>3, StepReasons
<1>26. ASSUME NEW r \in Requests, NEW p \in Servers, task[r].at = p, CreateUser(r)
       PROVE  SettingKept'
  BY <1>26, CreateUserDoes, CoreHolds, StepReasons
<1> QED BY <1>1, <1>2, <1>3, <1>4, <1>5, <1>6, <1>7, <1>8, <1>9, <1>10, <1>11, <1>12, <1>13,
           <1>14, <1>15, <1>16, <1>17, <1>18, <1>19, <1>20, <1>21, <1>22, <1>23, <1>24, <1>25,
           <1>26, StepAt DEF EnvironmentsNext, Boot, Request, Step

LEMMA EncryptRowKeys ==
    ASSUME CoreInv, NEW p \in Servers, NEW x \in server[p].rows, EncryptRow(p, x),
           \A y \in tables[Tables[server[p].table]] : y.id = x.id => y.text.key = x.text.key
    PROVE  \A t \in TableNames : KeysOf(tables'[t]) = KeysOf(tables[t])
<1> DEFINE t == Tables[server[p].table]
           same == {y \in tables[t] : y.id = x.id}
           e == Encrypt(server[p].key, x)
<1>1. x \in TableRows /\ server[p].key \in EncryptionKeys \cup {NoKey}
  BY EncryptRowDoes, CoreHolds DEF Types, ServerType
<1>2. e.text.key = x.text.key
  BY <1>1, EncryptRowWell
<1>3. tables'[t] = IF same = {} THEN tables[t] ELSE (tables[t] \ same) \cup {e}
  BY EncryptRowDoes, CoreHolds
<1>4. \A u \in TableNames : u # t => tables'[u] = tables[u]
  BY EncryptRowDoes, CoreHolds
<1>5. \A y \in same : y.text.key = x.text.key
  OBVIOUS
<1> HIDE DEF e
<1>6. CASE same = {}
  BY <1>3, <1>4, <1>6 DEF KeysOf
<1>7. CASE same # {}
  <2>1. PICK z \in same : TRUE
    BY <1>7
  <2>2. KeysOf(tables'[t]) \subseteq KeysOf(tables[t])
    BY <1>2, <1>3, <1>5, <1>7, <2>1 DEF KeysOf
  <2>3. KeysOf(tables[t]) \subseteq KeysOf(tables'[t])
    BY <1>2, <1>3, <1>5, <1>7 DEF KeysOf
  <2>4. KeysOf(tables'[t]) = KeysOf(tables[t])
    BY <2>2, <2>3
  <2> HIDE DEF t
  <2> SUFFICES ASSUME NEW u \in TableNames PROVE KeysOf(tables'[u]) = KeysOf(tables[u])
    OBVIOUS
  <2>5. CASE u = t
    BY <2>4, <2>5
  <2>6. CASE u # t
    BY <1>4, <2>6
  <2> QED BY <2>5, <2>6
<1> QED BY <1>6, <1>7

LEMMA StepCredentialsKept ==
    ASSUME CoreInv, CredentialsKept, EnvironmentsNext
    PROVE  CredentialsKept'
<1> USE DEF CredentialsKept
<1>1. ASSUME NEW p \in Servers, NEW k \in EncryptionKeys \cup {NoKey}, Start(p, k)
      PROVE  CredentialsKept'
  BY <1>1, StartDoes, CoreHolds, StepReasons
<1>2. ASSUME NEW p \in Servers, EncryptDatabaseIfNeeded(p)
      PROVE  CredentialsKept'
  BY <1>2, EncryptDatabaseIfNeededDoes, CoreHolds, StepReasons
<1>3. ASSUME NEW p \in Servers, DropConfig(p)
      PROVE  CredentialsKept'
  BY <1>3, DropConfigDoes, CoreHolds, StepReasons
<1>4. ASSUME NEW p \in Servers, InsertConfig(p)
      PROVE  CredentialsKept'
  BY <1>4, InsertConfigDoes, CoreHolds, StepReasons
<1>5. ASSUME NEW p \in Servers, ReadEnvironments(p)
      PROVE  CredentialsKept'
  BY <1>5, ReadEnvironmentsDoes, CoreHolds, StepReasons
<1>6. ASSUME NEW p \in Servers, EncryptDatabase(p)
      PROVE  CredentialsKept'
  BY <1>6, EncryptDatabaseDoes, CoreHolds, StepReasons
<1>7. ASSUME NEW p \in Servers, ReadRows(p)
      PROVE  CredentialsKept'
  BY <1>7, ReadRowsDoes, CoreHolds, StepReasons
<1>8. ASSUME NEW p \in Servers, NEW x \in server[p].rows, EncryptRow(p, x)
      PROVE  CredentialsKept'
  <2> SUFFICES ASSUME "overlap" \notin reasons' PROVE CredentialsKept'
    OBVIOUS
  <2>1. \A y \in tables[Tables[server[p].table]] : y.id = x.id => y.text.key = x.text.key
    BY ZenonT(60), <1>8, EncryptRowDoes, CoreHolds
  <2>2. KeysOf(tables'["credentials"]) = KeysOf(tables["credentials"])
    BY <2>1, <1>8, EncryptRowKeys DEF TableNames
  <2> QED BY <2>2, <1>8, EncryptRowDoes, CoreHolds, StepReasons
<1>9. ASSUME NEW p \in Servers, CacheSecrets(p)
      PROVE  CredentialsKept'
  BY <1>9, CacheSecretsDoes, CoreHolds, PresentKey, StepReasons
<1>10. ASSUME NEW p \in Servers, Stop(p)
       PROVE  CredentialsKept'
  BY <1>10, StopDoes, CoreHolds, StepReasons
<1>11. ASSUME NEW r \in Requests, NEW p \in Servers, RotateKey(r, p)
       PROVE  CredentialsKept'
  BY <1>11, RotateKeyDoes, CoreHolds, StepReasons
<1>12. ASSUME NEW r \in Requests, NEW p \in Servers, RevertKey(r, p)
       PROVE  CredentialsKept'
  BY <1>12, RevertKeyDoes, CoreHolds, StepReasons
<1>13. ASSUME NEW r \in Requests, NEW p \in Servers, ActivateKey(r, p)
       PROVE  CredentialsKept'
  BY <1>13, ActivateKeyDoes, CoreHolds, StepReasons
<1>14. ASSUME NEW r \in Requests, NEW p \in Servers, UpdateSetting(r, p)
       PROVE  CredentialsKept'
  BY <1>14, UpdateSettingDoes, CoreHolds, StepReasons
<1>15. ASSUME NEW r \in Requests, NEW p \in Servers, UpdateEnvironmentVariables(r, p)
       PROVE  CredentialsKept'
  BY <1>15, UpdateEnvironmentVariablesDoes, CoreHolds, StepReasons
<1>16. ASSUME NEW r \in Requests, NEW p \in Servers, SaveCredentials(r, p)
       PROVE  CredentialsKept'
  <2> DEFINE x == Encrypt(server[p].key, InTheClear(0, r))
  <2>1. server[p].key \in EncryptionKeys \cup {NoKey} /\ InTheClear(0, r) \in TableRows
    BY RequestTypes, BoundsAssumption, ClearTypes, CoreHolds DEF Types, ServerType, Keys
  <2>2. x.text.key = r
    BY <2>1, EncryptRowWell, ClearFields
  <2>3. tables'["credentials"] = {x} /\ wanted'.rows["credentials"] = {r}
    BY <1>16, SaveCredentialsDoes, CoreHolds
  <2> HIDE DEF x
  <2> QED BY <2>2, <2>3 DEF KeysOf
<1>17. ASSUME NEW r \in Requests, NEW p \in Servers, CreateEnvironment(r, p)
       PROVE  CredentialsKept'
  BY <1>17, CreateEnvironmentDoes, CoreHolds, StepReasons
<1>18. ASSUME NEW r \in Requests, NEW p \in Servers, task[r].at = p, WritePending(r)
       PROVE  CredentialsKept'
  BY <1>18, WritePendingDoes, CoreHolds, StepReasons
<1>19. ASSUME NEW r \in Requests, NEW p \in Servers, task[r].at = p, WriteRotated(r)
       PROVE  CredentialsKept'
  BY <1>19, WriteRotatedDoes, CoreHolds, StepReasons
<1>20. ASSUME NEW r \in Requests, NEW p \in Servers, task[r].at = p, RevertSecretKey(r)
       PROVE  CredentialsKept'
  BY <1>20, RevertSecretKeyDoes, CoreHolds, StepReasons
<1>21. ASSUME NEW r \in Requests, NEW p \in Servers, task[r].at = p, ReplaceKey(r)
       PROVE  CredentialsKept'
  <2>1. UNCHANGED <<tables, wanted>>
    BY <1>21, ReplaceKeyDoes, CoreHolds
  <2> QED BY <2>1, StepReasons
<1>22. ASSUME NEW r \in Requests, NEW p \in Servers, task[r].at = p, AddToEnvironmentSecretCache(r)
       PROVE  CredentialsKept'
  <2>0. row.secret.key # None
    BY <1>22, StepAt DEF Step
  <2> QED BY <1>22, AddToEnvironmentSecretCacheDoes, CoreHolds, <2>0, StepReasons
<1>23. ASSUME NEW r \in Requests, NEW p \in Servers, task[r].at = p, InsertVariables(r)
       PROVE  CredentialsKept'
  BY <1>23, InsertVariablesDoes, CoreHolds, StepReasons
<1>24. ASSUME NEW r \in Requests, NEW p \in Servers, task[r].at = p, ReadCreated(r)
       PROVE  CredentialsKept'
  BY <1>24, ReadCreatedDoes, CoreHolds, StepReasons
<1>25. ASSUME NEW r \in Requests, NEW p \in Servers, task[r].at = p, WriteCreated(r)
       PROVE  CredentialsKept'
  BY <1>25, WriteCreatedDoes, CoreHolds, EncryptedPresent, StepReasons
<1>26. ASSUME NEW r \in Requests, NEW p \in Servers, task[r].at = p, CreateUser(r)
       PROVE  CredentialsKept'
  BY <1>26, CreateUserDoes, CoreHolds, StepReasons
<1> QED BY <1>1, <1>2, <1>3, <1>4, <1>5, <1>6, <1>7, <1>8, <1>9, <1>10, <1>11, <1>12, <1>13,
           <1>14, <1>15, <1>16, <1>17, <1>18, <1>19, <1>20, <1>21, <1>22, <1>23, <1>24, <1>25,
           <1>26, StepAt DEF EnvironmentsNext, Boot, Request, Step

(***************************************************************************)
(* The variables are those acknowledged, or one request is editing them.   *)
(***************************************************************************)

Editing == \E r \in Requests : task[r].pc = "variables"

VariablesKept ==
    "variables" \notin reasons =>
       /\ \A r, q \in Requests : task[r].pc = "variables" /\ task[q].pc = "variables" => r = q
       /\ Editing => tables["variables"] = {}
       /\ ~Editing => KeysOf(tables["variables"]) = wanted.rows["variables"]

VariablesSame ==
    /\ \A r \in Requests : task'[r].pc = "variables" <=> task[r].pc = "variables"
    /\ KeysOf(tables'["variables"]) = KeysOf(tables["variables"])
    /\ wanted'.rows["variables"] = wanted.rows["variables"]

LEMMA SameVariablesKept ==
    ASSUME CoreInv, VariablesKept, EnvironmentsNext, VariablesSame
    PROVE  VariablesKept'
<1>1. Editing' <=> Editing
  BY DEF VariablesSame, Editing
<1>2. tables["variables"] = {} => tables'["variables"] = {}
  BY DEF VariablesSame, KeysOf
<1> QED BY <1>1, <1>2, StepReasons DEF VariablesKept, VariablesSame

LEMMA StepVariablesKept ==
    ASSUME CoreInv, VariablesKept, EnvironmentsNext
    PROVE  VariablesKept'
<1>1. ASSUME NEW p \in Servers, NEW k \in EncryptionKeys \cup {NoKey}, Start(p, k)
      PROVE  VariablesKept'
  <2>2. UNCHANGED task
    BY <1>1, StartDoes, CoreHolds
  <2>4. tables'["variables"] = tables["variables"] /\ wanted'.rows["variables"] = wanted.rows["variables"]
    BY <1>1, StartDoes, CoreHolds
  <2>1. VariablesSame
    BY <2>2, <2>4 DEF VariablesSame
  <2> QED BY <2>1, SameVariablesKept
<1>2. ASSUME NEW p \in Servers, EncryptDatabaseIfNeeded(p)
      PROVE  VariablesKept'
  <2>2. UNCHANGED task
    BY <1>2, EncryptDatabaseIfNeededDoes, CoreHolds
  <2>4. tables'["variables"] = tables["variables"] /\ wanted'.rows["variables"] = wanted.rows["variables"]
    BY <1>2, EncryptDatabaseIfNeededDoes, CoreHolds
  <2>1. VariablesSame
    BY <2>2, <2>4 DEF VariablesSame
  <2> QED BY <2>1, SameVariablesKept
<1>3. ASSUME NEW p \in Servers, DropConfig(p)
      PROVE  VariablesKept'
  <2>2. UNCHANGED task
    BY <1>3, DropConfigDoes, CoreHolds
  <2>4. tables'["variables"] = tables["variables"] /\ wanted'.rows["variables"] = wanted.rows["variables"]
    BY <1>3, DropConfigDoes, CoreHolds
  <2>1. VariablesSame
    BY <2>2, <2>4 DEF VariablesSame
  <2> QED BY <2>1, SameVariablesKept
<1>4. ASSUME NEW p \in Servers, InsertConfig(p)
      PROVE  VariablesKept'
  <2>2. UNCHANGED task
    BY <1>4, InsertConfigDoes, CoreHolds
  <2>4. tables'["variables"] = tables["variables"] /\ wanted'.rows["variables"] = wanted.rows["variables"]
    BY <1>4, InsertConfigDoes, CoreHolds
  <2>1. VariablesSame
    BY <2>2, <2>4 DEF VariablesSame
  <2> QED BY <2>1, SameVariablesKept
<1>5. ASSUME NEW p \in Servers, ReadEnvironments(p)
      PROVE  VariablesKept'
  <2>2. UNCHANGED task
    BY <1>5, ReadEnvironmentsDoes, CoreHolds
  <2>4. tables'["variables"] = tables["variables"] /\ wanted'.rows["variables"] = wanted.rows["variables"]
    BY <1>5, ReadEnvironmentsDoes, CoreHolds
  <2>1. VariablesSame
    BY <2>2, <2>4 DEF VariablesSame
  <2> QED BY <2>1, SameVariablesKept
<1>6. ASSUME NEW p \in Servers, EncryptDatabase(p)
      PROVE  VariablesKept'
  <2>2. UNCHANGED task
    BY <1>6, EncryptDatabaseDoes, CoreHolds
  <2>4. tables'["variables"] = tables["variables"] /\ wanted'.rows["variables"] = wanted.rows["variables"]
    BY <1>6, EncryptDatabaseDoes, CoreHolds
  <2>1. VariablesSame
    BY <2>2, <2>4 DEF VariablesSame
  <2> QED BY <2>1, SameVariablesKept
<1>7. ASSUME NEW p \in Servers, ReadRows(p)
      PROVE  VariablesKept'
  <2>2. UNCHANGED task
    BY <1>7, ReadRowsDoes, CoreHolds
  <2>4. tables'["variables"] = tables["variables"] /\ wanted'.rows["variables"] = wanted.rows["variables"]
    BY <1>7, ReadRowsDoes, CoreHolds
  <2>1. VariablesSame
    BY <2>2, <2>4 DEF VariablesSame
  <2> QED BY <2>1, SameVariablesKept
<1>8. ASSUME NEW p \in Servers, NEW x \in server[p].rows, EncryptRow(p, x)
      PROVE  VariablesKept'
  <2>1. UNCHANGED <<task, wanted>>
    BY <1>8, EncryptRowDoes, CoreHolds
  <2>2. KeysOf(tables'["variables"]) = KeysOf(tables["variables"])
    <3>1. CASE Tables[server[p].table] = "variables"
      <4>1. server[p].table = 2 /\ server[p].pc = "encryptRows"
        BY <3>1, <1>8, EncryptRowDoes, TableTypes, CoreHolds DEF Types, ServerType
      <4>2. x.id = x.text.key
        BY <4>1, CoreHolds DEF ServersFit, ServerFits
      <4>3. \A y \in tables[Tables[server[p].table]] : y.id = x.id => y.text.key = x.text.key
        BY <3>1, <4>2, CoreHolds DEF TablesFit
      <4> QED BY <4>3, <1>8, EncryptRowKeys DEF TableNames
    <3>2. CASE Tables[server[p].table] # "variables"
      <4>1. tables'["variables"] = tables["variables"]
        BY <3>2, <1>8, EncryptRowDoes, CoreHolds DEF TableNames
      <4> QED BY <4>1
    <3> QED BY <3>1, <3>2
  <2>3. VariablesSame
    BY <2>1, <2>2 DEF VariablesSame
  <2> QED BY <1>8, <2>3, SameVariablesKept DEF EnvironmentsNext, Boot
<1>9. ASSUME NEW p \in Servers, CacheSecrets(p)
      PROVE  VariablesKept'
  <2>2. UNCHANGED task
    BY <1>9, CacheSecretsDoes, CoreHolds, PresentKey
  <2>4. tables'["variables"] = tables["variables"] /\ wanted'.rows["variables"] = wanted.rows["variables"]
    BY <1>9, CacheSecretsDoes, CoreHolds, PresentKey
  <2>1. VariablesSame
    BY <2>2, <2>4 DEF VariablesSame
  <2> QED BY <2>1, SameVariablesKept
<1>10. ASSUME NEW p \in Servers, Stop(p)
       PROVE  VariablesKept'
  <2>1. Editing /\ "variables" \notin reasons' => \A q \in Requests : task[q].pc = "variables" => task[q].at # p
    BY <1>10, StopDoes, CoreHolds DEF LeftBy, Active, At
  <2>2. UNCHANGED <<tables, wanted>> /\ Done.pc = "done"
    BY <1>10, StopDoes, CoreHolds DEF Done
  <2>3. CASE "variables" \in reasons'
    BY <2>3 DEF VariablesKept
  <2>4. CASE "variables" \notin reasons'
    <3>1. \A q \in Requests : task'[q].pc = "variables" <=> task[q].pc = "variables"
      BY <2>1, <2>2, <2>4, <1>10, StopDoes, CoreHolds DEF Editing
    <3>2. VariablesSame
      BY <2>2, <3>1 DEF VariablesSame
    <3> QED BY <3>2, SameVariablesKept DEF EnvironmentsNext, Boot
  <2> QED BY <2>3, <2>4
<1>11. ASSUME NEW r \in Requests, NEW p \in Servers, RotateKey(r, p)
       PROVE  VariablesKept'
  <2>2. \A q \in Requests : task'[q].pc = "variables" <=> task[q].pc = "variables"
    BY <1>11, RotateKeyDoes, CoreHolds DEF Moved, Taken, Idle
  <2>4. tables'["variables"] = tables["variables"] /\ wanted'.rows["variables"] = wanted.rows["variables"]
    BY <1>11, RotateKeyDoes, CoreHolds
  <2>1. VariablesSame
    BY <2>2, <2>4 DEF VariablesSame
  <2> QED BY <2>1, SameVariablesKept
<1>12. ASSUME NEW r \in Requests, NEW p \in Servers, RevertKey(r, p)
       PROVE  VariablesKept'
  <2>2. \A q \in Requests : task'[q].pc = "variables" <=> task[q].pc = "variables"
    BY <1>12, RevertKeyDoes, CoreHolds DEF Moved, Taken, Idle
  <2>4. tables'["variables"] = tables["variables"] /\ wanted'.rows["variables"] = wanted.rows["variables"]
    BY <1>12, RevertKeyDoes, CoreHolds
  <2>1. VariablesSame
    BY <2>2, <2>4 DEF VariablesSame
  <2> QED BY <2>1, SameVariablesKept
<1>13. ASSUME NEW r \in Requests, NEW p \in Servers, ActivateKey(r, p)
       PROVE  VariablesKept'
  <2>2. \A q \in Requests : task'[q].pc = "variables" <=> task[q].pc = "variables"
    BY <1>13, ActivateKeyDoes, CoreHolds DEF Moved, Taken, Idle
  <2>4. tables'["variables"] = tables["variables"] /\ wanted'.rows["variables"] = wanted.rows["variables"]
    BY <1>13, ActivateKeyDoes, CoreHolds
  <2>1. VariablesSame
    BY <2>2, <2>4 DEF VariablesSame
  <2> QED BY <2>1, SameVariablesKept
<1>14. ASSUME NEW r \in Requests, NEW p \in Servers, UpdateSetting(r, p)
       PROVE  VariablesKept'
  <2>2. \A q \in Requests : task'[q].pc = "variables" <=> task[q].pc = "variables"
    BY <1>14, UpdateSettingDoes, CoreHolds DEF Moved, Taken, Idle
  <2>4. tables'["variables"] = tables["variables"] /\ wanted'.rows["variables"] = wanted.rows["variables"]
    BY <1>14, UpdateSettingDoes, CoreHolds
  <2>1. VariablesSame
    BY <2>2, <2>4 DEF VariablesSame
  <2> QED BY <2>1, SameVariablesKept
<1>15. ASSUME NEW r \in Requests, NEW p \in Servers, UpdateEnvironmentVariables(r, p)
       PROVE  VariablesKept'
  <2> SUFFICES ASSUME "variables" \notin reasons' PROVE VariablesKept'
    BY DEF VariablesKept
  <2>1. /\ \A q \in Requests : task[q].pc # "variables"
        /\ tables'["variables"] = {} /\ task'[r].pc = "variables"
        /\ \A q \in Requests : q # r => task'[q] = task[q]
    BY <1>15, UpdateEnvironmentVariablesDoes, CoreHolds DEF At, Moved
  <2> QED BY <2>1 DEF VariablesKept, Editing
<1>16. ASSUME NEW r \in Requests, NEW p \in Servers, SaveCredentials(r, p)
       PROVE  VariablesKept'
  <2>2. \A q \in Requests : task'[q].pc = "variables" <=> task[q].pc = "variables"
    BY <1>16, SaveCredentialsDoes, CoreHolds DEF Moved, Taken, Idle
  <2>4. tables'["variables"] = tables["variables"] /\ wanted'.rows["variables"] = wanted.rows["variables"]
    BY <1>16, SaveCredentialsDoes, CoreHolds
  <2>1. VariablesSame
    BY <2>2, <2>4 DEF VariablesSame
  <2> QED BY <2>1, SameVariablesKept
<1>17. ASSUME NEW r \in Requests, NEW p \in Servers, CreateEnvironment(r, p)
       PROVE  VariablesKept'
  <2>2. \A q \in Requests : task'[q].pc = "variables" <=> task[q].pc = "variables"
    BY <1>17, CreateEnvironmentDoes, CoreHolds DEF Moved, Taken, Idle
  <2>4. tables'["variables"] = tables["variables"] /\ wanted'.rows["variables"] = wanted.rows["variables"]
    BY <1>17, CreateEnvironmentDoes, CoreHolds
  <2>1. VariablesSame
    BY <2>2, <2>4 DEF VariablesSame
  <2> QED BY <2>1, SameVariablesKept
<1>18. ASSUME NEW r \in Requests, NEW p \in Servers, task[r].at = p, WritePending(r)
       PROVE  VariablesKept'
  <2>2. \A q \in Requests : task'[q].pc = "variables" <=> task[q].pc = "variables"
    BY <1>18, WritePendingDoes, CoreHolds DEF Moved, Taken, Idle
  <2>4. tables'["variables"] = tables["variables"] /\ wanted'.rows["variables"] = wanted.rows["variables"]
    BY <1>18, WritePendingDoes, CoreHolds
  <2>1. VariablesSame
    BY <2>2, <2>4 DEF VariablesSame
  <2> QED BY <2>1, SameVariablesKept
<1>19. ASSUME NEW r \in Requests, NEW p \in Servers, task[r].at = p, WriteRotated(r)
       PROVE  VariablesKept'
  <2>2. \A q \in Requests : task'[q].pc = "variables" <=> task[q].pc = "variables"
    BY <1>19, WriteRotatedDoes, CoreHolds DEF Moved, Taken, Idle
  <2>4. tables'["variables"] = tables["variables"] /\ wanted'.rows["variables"] = wanted.rows["variables"]
    BY <1>19, WriteRotatedDoes, CoreHolds
  <2>1. VariablesSame
    BY <2>2, <2>4 DEF VariablesSame
  <2> QED BY <2>1, SameVariablesKept
<1>20. ASSUME NEW r \in Requests, NEW p \in Servers, task[r].at = p, RevertSecretKey(r)
       PROVE  VariablesKept'
  <2>2. \A q \in Requests : task'[q].pc = "variables" <=> task[q].pc = "variables"
    BY <1>20, RevertSecretKeyDoes, CoreHolds DEF Moved, Taken, Idle
  <2>4. tables'["variables"] = tables["variables"] /\ wanted'.rows["variables"] = wanted.rows["variables"]
    BY <1>20, RevertSecretKeyDoes, CoreHolds
  <2>1. VariablesSame
    BY <2>2, <2>4 DEF VariablesSame
  <2> QED BY <2>1, SameVariablesKept
<1>21. ASSUME NEW r \in Requests, NEW p \in Servers, task[r].at = p, ReplaceKey(r)
       PROVE  VariablesKept'
  <2>0. Moved(r, "done", None, Absent) \/ Moved(r, "recache", p, task[r].row)
    BY <1>21, ReplaceKeyDoes, CoreHolds
  <2>3. task[r].pc = "replace"
    BY <1>21, ReplaceKeyDoes, CoreHolds
  <2>2. \A q \in Requests : task'[q].pc = "variables" <=> task[q].pc = "variables"
    BY <2>0, <2>3 DEF Moved
  <2>4. tables'["variables"] = tables["variables"] /\ wanted'.rows["variables"] = wanted.rows["variables"]
    BY <1>21, ReplaceKeyDoes, CoreHolds
  <2>1. VariablesSame
    BY <2>2, <2>4 DEF VariablesSame
  <2> QED BY <2>1, SameVariablesKept
<1>22. ASSUME NEW r \in Requests, NEW p \in Servers, task[r].at = p, AddToEnvironmentSecretCache(r)
       PROVE  VariablesKept'
  <2>0. row.secret.key # None
    BY <1>22, StepAt DEF Step
  <2>2. \A q \in Requests : task'[q].pc = "variables" <=> task[q].pc = "variables"
    BY <1>22, AddToEnvironmentSecretCacheDoes, CoreHolds, <2>0 DEF Moved, Taken, Idle
  <2>4. tables'["variables"] = tables["variables"] /\ wanted'.rows["variables"] = wanted.rows["variables"]
    BY <1>22, AddToEnvironmentSecretCacheDoes, CoreHolds, <2>0
  <2>1. VariablesSame
    BY <2>2, <2>4 DEF VariablesSame
  <2> QED BY <2>1, SameVariablesKept
<1>23. ASSUME NEW r \in Requests, NEW p \in Servers, task[r].at = p, InsertVariables(r)
       PROVE  VariablesKept'
  <2> SUFFICES ASSUME "variables" \notin reasons' PROVE VariablesKept'
    BY DEF VariablesKept
  <2> DEFINE x == Encrypt(server[p].key, InTheClear(r, r))
  <2>1. server[p].key \in EncryptionKeys \cup {NoKey} /\ InTheClear(r, r) \in TableRows
    BY RequestTypes, ClearTypes, CoreHolds DEF Types, ServerType
  <2>2. x.text.key = r
    BY <2>1, EncryptRowWell, ClearFields
  <2>3. /\ tables'["variables"] = tables["variables"] \cup {x} /\ wanted'.rows["variables"] = {r}
        /\ task[r].pc = "variables" /\ task'[r].pc = "done"
        /\ \A q \in Requests : q # r => task'[q] = task[q]
        /\ "variables" \notin reasons
    BY <1>23, InsertVariablesDoes, CoreHolds DEF Moved
  <2> HIDE DEF x
  <2>4. /\ tables["variables"] = {}
        /\ \A q \in Requests : task[q].pc = "variables" => q = r
    BY <2>3 DEF VariablesKept, Editing
  <2>5. ~Editing'
    BY <2>3, <2>4 DEF Editing
  <2> QED BY <2>2, <2>3, <2>4, <2>5 DEF VariablesKept, KeysOf, Editing
<1>24. ASSUME NEW r \in Requests, NEW p \in Servers, task[r].at = p, ReadCreated(r)
       PROVE  VariablesKept'
  <2>2. \A q \in Requests : task'[q].pc = "variables" <=> task[q].pc = "variables"
    BY <1>24, ReadCreatedDoes, CoreHolds DEF Moved, Taken, Idle
  <2>4. tables'["variables"] = tables["variables"] /\ wanted'.rows["variables"] = wanted.rows["variables"]
    BY <1>24, ReadCreatedDoes, CoreHolds
  <2>1. VariablesSame
    BY <2>2, <2>4 DEF VariablesSame
  <2> QED BY <2>1, SameVariablesKept
<1>25. ASSUME NEW r \in Requests, NEW p \in Servers, task[r].at = p, WriteCreated(r)
       PROVE  VariablesKept'
  <2>2. \A q \in Requests : task'[q].pc = "variables" <=> task[q].pc = "variables"
    BY <1>25, WriteCreatedDoes, CoreHolds, EncryptedPresent DEF Moved, Taken, Idle
  <2>4. tables'["variables"] = tables["variables"] /\ wanted'.rows["variables"] = wanted.rows["variables"]
    BY <1>25, WriteCreatedDoes, CoreHolds, EncryptedPresent
  <2>1. VariablesSame
    BY <2>2, <2>4 DEF VariablesSame
  <2> QED BY <2>1, SameVariablesKept
<1>26. ASSUME NEW r \in Requests, NEW p \in Servers, task[r].at = p, CreateUser(r)
       PROVE  VariablesKept'
  <2>2. \A q \in Requests : task'[q].pc = "variables" <=> task[q].pc = "variables"
    BY <1>26, CreateUserDoes, CoreHolds DEF Moved, Taken, Idle
  <2>4. tables'["variables"] = tables["variables"] /\ wanted'.rows["variables"] = wanted.rows["variables"]
    BY <1>26, CreateUserDoes, CoreHolds
  <2>1. VariablesSame
    BY <2>2, <2>4 DEF VariablesSame
  <2> QED BY <2>1, SameVariablesKept
<1> QED BY <1>1, <1>2, <1>3, <1>4, <1>5, <1>6, <1>7, <1>8, <1>9, <1>10, <1>11, <1>12, <1>13,
           <1>14, <1>15, <1>16, <1>17, <1>18, <1>19, <1>20, <1>21, <1>22, <1>23, <1>24, <1>25,
           <1>26, StepAt DEF EnvironmentsNext, Boot, Request, Step

(***************************************************************************)
(* The caches hold the key of the row, or a request is about to see to it. *)
(***************************************************************************)

Refreshing == {"recache", "created", "encrypted"}

CacheFits ==
    reasons \cap {"rotation", "overlap", "keys"} = {} /\ row # Absent =>
        \A p \in Servers : server[p].pc = "serving" =>
            /\ "elsewhere" \notin doubts[p] =>
                  \/ row.secret.key \in server[p].cache
                  \/ \E r \in Requests : task[r].at = p /\ task[r].pc \in Refreshing
            /\ doubts[p] = {} => server[p].cache \subseteq {row.secret.key}

\* Neither the key nor a cache is another.
CacheSame ==
    /\ row' # Absent => row # Absent /\ row'.secret.key = row.secret.key
    /\ \A q \in Servers : server'[q].pc = "serving" =>
          /\ server[q].pc = "serving" /\ server'[q].cache = server[q].cache /\ doubts'[q] = doubts[q]
          /\ \A r \in Requests : task[r].at = q /\ task[r].pc \in Refreshing => task'[r] = task[r]

LEMMA SameCacheFits ==
    ASSUME CoreInv, CacheFits, EnvironmentsNext, CacheSame
    PROVE  CacheFits'
<1> SUFFICES ASSUME reasons' \cap {"rotation", "overlap", "keys"} = {}, row' # Absent,
                    NEW p \in Servers, server'[p].pc = "serving"
             PROVE  /\ "elsewhere" \notin doubts'[p] =>
                          \/ row'.secret.key \in server'[p].cache
                          \/ \E r \in Requests : task'[r].at = p /\ task'[r].pc \in Refreshing
                    /\ doubts'[p] = {} => server'[p].cache \subseteq {row'.secret.key}
  BY DEF CacheFits
<1>1. /\ "elsewhere" \notin doubts[p] =>
            \/ row.secret.key \in server[p].cache
            \/ \E r \in Requests : task[r].at = p /\ task[r].pc \in Refreshing
      /\ doubts[p] = {} => server[p].cache \subseteq {row.secret.key}
  BY StepReasons DEF CacheFits, CacheSame
<1> QED BY <1>1 DEF CacheSame

\* A server that serves reads the row, when no rotation is under way.
LEMMA ServingDecrypts ==
    ASSUME CoreInv, ReadsRow, PendingSealed, reasons \cap {"rotation", "keys"} = {}, ~Rotating,
           NEW p \in Servers, server[p].pc = "serving"
    PROVE  Decrypts(server[p].key, row)
<1>1. WellRow(row)
  BY CoreHolds DEF RowFits
<1>2. By(server[p].key, row.secret) /\ By(server[p].key, row.pending)
  BY DEF ReadsRow
<1>3. row.secret.by # NoKey /\ row.pending.key # None => row.pending.by # NoKey
  BY DEF PendingSealed
<1> QED BY <1>1, <1>2, <1>3 DEF WellRow, WellText, By, Decrypts

LEMMA StepCacheFits ==
    ASSUME CoreInv, ReadsRow, PendingSealed, HeldRows, CacheFits, EnvironmentsNext
    PROVE  CacheFits'
<1>1. ASSUME NEW p \in Servers, NEW k \in EncryptionKeys \cup {NoKey}, Start(p, k)
      PROVE  CacheFits'
  <2>1. CacheSame
    BY <1>1, StartDoes, CoreHolds DEF CacheSame, Refreshing, Moved, Taken, Turned, Idle
  <2> QED BY <2>1, SameCacheFits
<1>2. ASSUME NEW p \in Servers, EncryptDatabaseIfNeeded(p)
      PROVE  CacheFits'
  <2>1. CacheSame
    BY <1>2, EncryptDatabaseIfNeededDoes, CoreHolds DEF CacheSame, Refreshing, Moved, Taken,
       Turned, Idle
  <2> QED BY <2>1, SameCacheFits
<1>3. ASSUME NEW p \in Servers, DropConfig(p)
      PROVE  CacheFits'
  <2>1. CacheSame
    BY <1>3, DropConfigDoes, CoreHolds DEF CacheSame, Refreshing, Moved, Taken, Turned, Idle
  <2> QED BY <2>1, SameCacheFits
<1>4. ASSUME NEW p \in Servers, InsertConfig(p)
      PROVE  CacheFits'
  <2>1. CacheSame
    BY <1>4, InsertConfigDoes, CoreHolds DEF CacheSame, Refreshing, Moved, Taken, Turned, Idle
  <2> QED BY <2>1, SameCacheFits
<1>5. ASSUME NEW p \in Servers, ReadEnvironments(p)
      PROVE  CacheFits'
  <2>1. CacheSame
    BY <1>5, ReadEnvironmentsDoes, CoreHolds DEF CacheSame, Refreshing, Moved, Taken, Turned,
       Idle
  <2> QED BY <2>1, SameCacheFits
<1>6. ASSUME NEW p \in Servers, EncryptDatabase(p)
      PROVE  CacheFits'
  <2> SUFFICES ASSUME reasons' \cap {"rotation", "overlap", "keys"} = {} PROVE CacheFits'
    BY DEF CacheFits
  <2>0. reasons \cap {"rotation", "overlap", "keys"} = {}
    BY StepReasons
  <2>1. /\ WellRow(server[p].row) /\ server[p].row # Absent /\ server[p].key \in EncryptionKeys \cup {NoKey}
        /\ row' = EncryptEnvironment(server[p].key, server[p].row)
    BY <1>6, EncryptDatabaseDoes, CoreHolds DEF ServersFit, ServerFits, Types, ServerType
  <2>2. server[p].row = row
    BY <2>0, <1>6, EncryptDatabaseDoes, CoreHolds DEF HeldRows
  <2>3. row'.secret.key = row.secret.key /\ row # Absent
    BY <2>1, <2>2, EncryptWell
  <2>4. CacheSame
    BY <2>3, <1>6, EncryptDatabaseDoes, CoreHolds DEF CacheSame, Refreshing, Moved, Turned
  <2> QED BY <2>4, SameCacheFits
<1>7. ASSUME NEW p \in Servers, ReadRows(p)
      PROVE  CacheFits'
  <2>1. UNCHANGED <<row, task, doubts>> /\ \E rows : NextRowTurned(p, rows)
    BY <1>7, ReadRowsDoes, CoreHolds
  <2>2. CacheSame
    BY <2>1 DEF CacheSame, NextRowTurned, Turned
  <2> QED BY <2>2, SameCacheFits
<1>8. ASSUME NEW p \in Servers, NEW x \in server[p].rows, EncryptRow(p, x)
      PROVE  CacheFits'
  <2>1. UNCHANGED <<row, task, doubts>> /\ \E rows : NextRowTurned(p, rows)
    BY <1>8, EncryptRowDoes, CoreHolds
  <2>2. CacheSame
    BY <2>1 DEF CacheSame, NextRowTurned, Turned
  <2> QED BY <2>2, SameCacheFits
<1>9. ASSUME NEW p \in Servers, CacheSecrets(p)
      PROVE  CacheFits'
  <2>1. /\ UNCHANGED <<row, task, reasons>> /\ doubts'[p] = {}
        /\ \A q \in Servers : q # p => server'[q] = server[q] /\ doubts'[q] = doubts[q]
        /\ row # Absent /\ server'[p].pc = "serving" => server'[p].cache = {row.secret.key}
    BY <1>9, CacheSecretsDoes, CoreHolds, PresentKey DEF Turned
  <2> QED BY <2>1 DEF CacheFits
<1>10. ASSUME NEW p \in Servers, Stop(p)
       PROVE  CacheFits'
  <2>1. /\ UNCHANGED <<row, doubts>> /\ server'[p].pc = "down"
        /\ \A q \in Servers : q # p => server'[q] = server[q]
        /\ \A q \in Requests : task[q].at # p => task'[q] = task[q]
    BY <1>10, StopDoes, CoreHolds DEF Turned
  <2>2. CacheSame
    BY <2>1 DEF CacheSame
  <2> QED BY <2>2, SameCacheFits
<1>11. ASSUME NEW r \in Requests, NEW p \in Servers, RotateKey(r, p)
       PROVE  CacheFits'
  <2>1. CacheSame
    BY <1>11, RotateKeyDoes, CoreHolds DEF CacheSame, Refreshing, Moved, Taken, Turned, Idle
  <2> QED BY <2>1, SameCacheFits
<1>12. ASSUME NEW r \in Requests, NEW p \in Servers, RevertKey(r, p)
       PROVE  CacheFits'
  <2>1. CacheSame
    BY <1>12, RevertKeyDoes, CoreHolds DEF CacheSame, Refreshing, Moved, Taken, Turned, Idle
  <2> QED BY <2>1, SameCacheFits
<1>13. ASSUME NEW r \in Requests, NEW p \in Servers, ActivateKey(r, p)
       PROVE  CacheFits'
  <2>1. CacheSame
    BY <1>13, ActivateKeyDoes, CoreHolds DEF CacheSame, Refreshing, Moved, Taken, Turned, Idle
  <2> QED BY <2>1, SameCacheFits
<1>14. ASSUME NEW r \in Requests, NEW p \in Servers, UpdateSetting(r, p)
       PROVE  CacheFits'
  <2>1. row'.secret = row.secret /\ row # Absent
    BY <1>14, UpdateSettingDoes, ConfiguredTypes, CoreHolds DEF Types
  <2>2. CacheSame
    BY <2>1, <1>14, UpdateSettingDoes, CoreHolds DEF CacheSame, Refreshing, Moved, Taken, Idle
  <2> QED BY <2>2, SameCacheFits
<1>15. ASSUME NEW r \in Requests, NEW p \in Servers, UpdateEnvironmentVariables(r, p)
       PROVE  CacheFits'
  <2>1. CacheSame
    BY <1>15, UpdateEnvironmentVariablesDoes, CoreHolds DEF CacheSame, Refreshing, Moved,
       Taken, Turned, Idle
  <2> QED BY <2>1, SameCacheFits
<1>16. ASSUME NEW r \in Requests, NEW p \in Servers, SaveCredentials(r, p)
       PROVE  CacheFits'
  <2>1. CacheSame
    BY <1>16, SaveCredentialsDoes, CoreHolds DEF CacheSame, Refreshing, Moved, Taken, Turned,
       Idle
  <2> QED BY <2>1, SameCacheFits
<1>17. ASSUME NEW r \in Requests, NEW p \in Servers, CreateEnvironment(r, p)
       PROVE  CacheFits'
  <2> SUFFICES ASSUME reasons' \cap {"rotation", "overlap", "keys"} = {} PROVE CacheFits'
    BY DEF CacheFits
  <2>0. reasons \cap {"rotation", "overlap", "keys"} = {}
    BY StepReasons
  <2>1. /\ row = Absent /\ UNCHANGED server /\ DoubtedTo(p, {})
        /\ task'[r].at = p /\ task'[r].pc \in Refreshing
    BY <1>17, CreateEnvironmentDoes, CoreHolds DEF Moved, Refreshing
  <2>2. \A q \in Servers : q # p => "elsewhere" \in doubts'[q]
    BY <2>1 DEF DoubtedTo
  <2>3. server'[p].cache = {}
    BY <2>1, CoreHolds DEF ServersFit, ServerFits
  <2> QED BY <2>1, <2>2, <2>3 DEF CacheFits
<1>18. ASSUME NEW r \in Requests, NEW p \in Servers, task[r].at = p, WritePending(r)
       PROVE  CacheFits'
  <2>3. row' = Pend(row, r) /\ row \in RowType /\ row # Absent
    BY <1>18, WritePendingDoes, StepAt, CoreHolds DEF Step, Types
  <2>1. row'.secret = row.secret /\ row # Absent
    BY <2>3, PendTypes
  <2>2. CacheSame
    BY <2>1, <1>18, WritePendingDoes, CoreHolds DEF CacheSame, Refreshing, Moved
  <2> QED BY <2>2, SameCacheFits
<1>19. ASSUME NEW r \in Requests, NEW p \in Servers, task[r].at = p, WriteRotated(r)
       PROVE  CacheFits'
  <2> SUFFICES ASSUME reasons' \cap {"rotation", "overlap", "keys"} = {} PROVE CacheFits'
    BY DEF CacheFits
  <2>0. reasons \cap {"rotation", "overlap", "keys"} = {}
    BY StepReasons
  <2>1. /\ WellRow(task[r].row) /\ task[r].row # Absent /\ Key(r) \in EncryptionKeys \cup {NoKey}
        /\ row' = EncryptEnvironment(Key(r), task[r].row)
    BY <1>19, WriteRotatedDoes, CoreHolds DEF TasksFit, TaskFits, Reading, Key, Types,
       ServerType
  <2>2. task[r].row = row
    BY <2>0, <1>19, WriteRotatedDoes, CoreHolds DEF HeldRows
  <2>3. row'.secret.key = row.secret.key /\ row # Absent
    BY <2>1, <2>2, EncryptWell
  <2>4. CacheSame
    BY <2>3, <1>19, WriteRotatedDoes, CoreHolds DEF CacheSame, Refreshing, Moved, Turned
  <2> QED BY <2>4, SameCacheFits
<1>20. ASSUME NEW r \in Requests, NEW p \in Servers, task[r].at = p, RevertSecretKey(r)
       PROVE  CacheFits'
  <2>1. row'.secret = row.secret /\ row # Absent
    BY <1>20, RevertSecretKeyDoes, PresentAt, CoreHolds
  <2>2. CacheSame
    BY <2>1, <1>20, RevertSecretKeyDoes, CoreHolds DEF CacheSame, Refreshing, Moved
  <2> QED BY <2>2, SameCacheFits
<1>21. ASSUME NEW r \in Requests, NEW p \in Servers, task[r].at = p, ReplaceKey(r)
       PROVE  CacheFits'
  <2> SUFFICES ASSUME reasons' \cap {"rotation", "overlap", "keys"} = {} PROVE CacheFits'
    BY DEF CacheFits
  <2>0. reasons \cap {"rotation", "overlap", "keys"} = {}
    BY StepReasons
  <2> DEFINE old == task[r].row.secret
             new == task[r].row.pending
  <2>1. CASE new.key = None
    <3>1. UNCHANGED <<row, server, doubts>> /\ Moved(r, "done", None, Absent) /\ task[r].pc = "replace"
      BY <2>1, <1>21, ReplaceKeyDoes, CoreHolds
    <3>2. CacheSame
      BY <3>1 DEF CacheSame, Refreshing, Moved
    <3> QED BY <3>2, SameCacheFits
  <2>2. CASE new.key # None
    <3>1. /\ row'.secret = new /\ row.secret = old /\ Moved(r, "recache", p, task[r].row)
          /\ \/ Cached(p, server[p].cache \ {old.key}) /\ DoubtedTo(p, {})
             \/ Cached(p, server[p].cache) /\ DoubtedTo(p, {"encrypted"})
      BY <2>2, <1>21, ReplaceKeyDoes, CoreHolds
    <3>2. row # Absent
      BY <1>21, StepAt DEF Step
    <3> HIDE DEF old, new
    <3>3. \A q \in Servers : q # p => "elsewhere" \in doubts'[q]
      BY <3>1 DEF DoubtedTo
    <3>4. task'[r].at = p /\ task'[r].pc \in Refreshing
      BY <3>1 DEF Moved, Refreshing
    <3>5. server'[p].pc = "serving" /\ doubts'[p] = {} => server'[p].cache = {}
      <4> SUFFICES ASSUME server'[p].pc = "serving", doubts'[p] = {} PROVE server'[p].cache = {}
        OBVIOUS
      <4>1. DoubtedTo(p, {}) /\ Cached(p, server[p].cache \ {old.key})
        BY <3>1 DEF DoubtedTo
      <4>2. doubts[p] = {} /\ server[p].pc = "serving"
        BY <4>1 DEF DoubtedTo, Cached, Turned
      <4>3. server[p].cache \subseteq {old.key}
        BY <2>0, <3>1, <3>2, <4>2 DEF CacheFits
      <4> QED BY <4>1, <4>3 DEF Cached, Turned
    <3> QED BY <3>3, <3>4, <3>5 DEF CacheFits
  <2> QED BY <2>1, <2>2
<1>22. ASSUME NEW r \in Requests, NEW p \in Servers, task[r].at = p, AddToEnvironmentSecretCache(r)
       PROVE  CacheFits'
  <2> SUFFICES ASSUME reasons' \cap {"rotation", "overlap", "keys"} = {} PROVE CacheFits'
    BY DEF CacheFits
  <2>0. reasons \cap {"rotation", "overlap", "keys"} = {}
    BY StepReasons
  <2>1. row.secret.key # None /\ server[p].pc = "serving" /\ row # Absent
    BY <1>22, PresentAt, StepAt DEF Step
  <2>2. /\ UNCHANGED <<row, doubts>> /\ Moved(r, "done", None, Absent) /\ task[r].at = p
        /\ \/ Decrypts(server[p].key, row) /\ Cached(p, server[p].cache \cup {row.secret.key})
           \/ ~Decrypts(server[p].key, row)
        /\ reasons' = Overlapping
    BY <2>1, <1>22, AddToEnvironmentSecretCacheDoes, CoreHolds
  <2>3. ~Rotating
    BY <2>2, OverlappingIs, NoHolders DEF Rotating
  <2>4. Decrypts(server[p].key, row)
    BY <2>0, <2>1, <2>3, ServingDecrypts
  <2>5. Cached(p, server[p].cache \cup {row.secret.key})
    BY <2>2, <2>4
  <2>6. \A q \in Servers : q # p =>
          server'[q] = server[q] /\ \A z \in Requests : task[z].at = q => task'[z] = task[z]
    BY <2>2, <2>5 DEF Moved, Cached, Turned
  <2>7. server'[p].cache = server[p].cache \cup {row.secret.key}
    BY <2>5 DEF Cached, Turned
  <2> QED BY <2>0, <2>1, <2>2, <2>6, <2>7 DEF CacheFits
<1>23. ASSUME NEW r \in Requests, NEW p \in Servers, task[r].at = p, InsertVariables(r)
       PROVE  CacheFits'
  <2>1. CacheSame
    BY <1>23, InsertVariablesDoes, CoreHolds DEF CacheSame, Refreshing, Moved, Taken, Turned,
       Idle
  <2> QED BY <2>1, SameCacheFits
<1>24. ASSUME NEW r \in Requests, NEW p \in Servers, task[r].at = p, ReadCreated(r)
       PROVE  CacheFits'
  <2> SUFFICES ASSUME reasons' \cap {"rotation", "overlap", "keys"} = {} PROVE CacheFits'
    BY DEF CacheFits
  <2>0. reasons \cap {"rotation", "overlap", "keys"} = {}
    BY StepReasons
  <2>1. task[r].pc = "created" /\ TaskFits(r) /\ WellRow(row)
    BY <1>24, ReadCreatedDoes, CoreHolds DEF TasksFit, RowFits
  <2>2. server[p].pc = "serving" /\ ~user /\ row.pending = NoText
    BY <2>1, <1>24, CoreHolds DEF TaskFits, Creators, RowFits
  <2>3. By(server[p].key, row.secret)
    BY <2>0, <2>2 DEF ReadsRow
  <2>4. Decrypts(server[p].key, row)
    BY <2>1, <2>2, <2>3, AbsentFields DEF WellRow, WellText, By, Decrypts
  <2>5. UNCHANGED <<row, server, doubts>> /\ Moved(r, "encrypted", p, row)
    BY <2>4, <1>24, ReadCreatedDoes, CoreHolds
  <2>6. task'[r].at = p /\ task'[r].pc \in Refreshing /\ \A q \in Requests : q # r => task'[q] = task[q]
    BY <2>5 DEF Moved, Refreshing
  <2> QED BY <2>0, <2>5, <2>6, <1>24 DEF CacheFits
<1>25. ASSUME NEW r \in Requests, NEW p \in Servers, task[r].at = p, WriteCreated(r)
       PROVE  CacheFits'
  <2> SUFFICES ASSUME reasons' \cap {"rotation", "overlap", "keys"} = {} PROVE CacheFits'
    BY DEF CacheFits
  <2>0. reasons \cap {"rotation", "overlap", "keys"} = {}
    BY StepReasons
  <2>1. /\ WellRow(task[r].row) /\ task[r].row # Absent /\ Key(r) \in EncryptionKeys \cup {NoKey}
        /\ row' = EncryptEnvironment(Key(r), task[r].row)
    BY <1>25, WriteCreatedDoes, EncryptedPresent, CoreHolds
       DEF TasksFit, TaskFits, Reading, Key, Types, ServerType
  <2>2. /\ task[r].row = row /\ Moved(r, "user", p, task[r].row) /\ UNCHANGED doubts /\ task[r].at = p
        /\ Cached(p, server[p].cache \cup {task[r].row.secret.key})
    BY <1>25, WriteCreatedDoes, EncryptedPresent, CoreHolds
  <2>3. row'.secret.key = row.secret.key /\ row # Absent
    BY <2>1, <2>2, EncryptWell
  <2>4. \A q \in Servers : q # p =>
          server'[q] = server[q] /\ \A z \in Requests : task[z].at = q => task'[z] = task[z]
    BY <2>2 DEF Moved, Cached, Turned
  <2>5. server'[p].cache = server[p].cache \cup {row.secret.key} /\ server'[p].pc = server[p].pc
    BY <2>2 DEF Cached, Turned
  <2> QED BY <2>0, <2>2, <2>3, <2>4, <2>5 DEF CacheFits
<1>26. ASSUME NEW r \in Requests, NEW p \in Servers, task[r].at = p, CreateUser(r)
       PROVE  CacheFits'
  <2>1. CacheSame
    BY <1>26, CreateUserDoes, CoreHolds DEF CacheSame, Refreshing, Moved, Taken, Turned, Idle
  <2> QED BY <2>1, SameCacheFits
<1> QED BY <1>1, <1>2, <1>3, <1>4, <1>5, <1>6, <1>7, <1>8, <1>9, <1>10, <1>11, <1>12, <1>13,
           <1>14, <1>15, <1>16, <1>17, <1>18, <1>19, <1>20, <1>21, <1>22, <1>23, <1>24, <1>25,
           <1>26, StepAt DEF EnvironmentsNext, Boot, Request, Step

(***************************************************************************)
(* The inductive invariant, and what it says between requests and starts.  *)
(***************************************************************************)

EnvironmentInv ==
    /\ CoreInv
    /\ OneKey
    /\ ReadsRow
    /\ ConfigTells
    /\ PendingSealed
    /\ RowSealed
    /\ FirstTable
    /\ TablesSealed
    /\ RowsListed
    /\ HeldRows
    /\ SettingKept
    /\ CredentialsKept
    /\ VariablesKept
    /\ CacheFits

LEMMA InitEnvironment == EnvironmentsInit => EnvironmentInv
<1> SUFFICES ASSUME EnvironmentsInit PROVE EnvironmentInv
  OBVIOUS
<1>1. CoreInv
  BY InitCore
<1>2. /\ \A p \in Servers : server[p] = Down
      /\ \A r \in Requests : task[r] = Idle
      /\ reasons = {} /\ config = NoConfig
  BY DEF EnvironmentsInit
<1>3. /\ Down.pc = "down" /\ Down.key = NoKey /\ Down.table = 1 /\ Idle.pc = "idle" /\ ~config.complete
  BY <1>2, AbsentFields DEF Down, Idle
<1>4. OneKey /\ ReadsRow /\ RowsListed /\ CacheFits /\ FirstTable
  BY <1>2, <1>3 DEF OneKey, ReadsRow, RowsListed, CacheFits, FirstTable
<1>5. ConfigTells
  <2>1. row.secret.by = NoKey /\ row.pending.by = NoKey
    BY AbsentFields, TextFields DEF EnvironmentsInit
  <2>2. \A t \in TableNames : \A x \in tables[t] : x.text.by = NoKey
    BY TextFields DEF EnvironmentsInit, InTheClear
  <2> QED BY <1>2, <1>3, <2>1, <2>2 DEF ConfigTells, AllBy, AllIn, By, Past0
<1>6. PendingSealed
  BY AbsentFields DEF EnvironmentsInit, PendingSealed
<1>7. RowSealed /\ TablesSealed
  BY <1>2, <1>3 DEF RowSealed, TablesSealed, Sealing, SealingTable, Past, PastTable
<1>8. HeldRows
  BY <1>2, <1>3 DEF HeldRows
<1>9. SettingKept
  BY AbsentFields DEF EnvironmentsInit, SettingKept
<1>10. \A t \in TableNames : KeysOf(tables[t]) = wanted.rows[t]
  <2>1. CASE row = Absent
    BY <2>1 DEF EnvironmentsInit, KeysOf
  <2>2. CASE row # Absent
    <3>1. \A t \in TableNames : tables[t] = {InTheClear(0, 0)} /\ wanted.rows[t] = {0}
      BY <2>2 DEF EnvironmentsInit
    <3>2. InTheClear(0, 0).text.key = 0
      BY TextFields DEF InTheClear
    <3> QED BY <3>1, <3>2 DEF KeysOf
  <2> QED BY <2>1, <2>2
<1>11. CredentialsKept /\ VariablesKept
  BY <1>2, <1>3, <1>10 DEF CredentialsKept, VariablesKept, Editing, TableNames
<1> QED BY <1>1, <1>4, <1>5, <1>6, <1>7, <1>8, <1>9, <1>11 DEF EnvironmentInv

LEMMA StepEnvironment == EnvironmentInv /\ [EnvironmentsNext]_environmentsVars => EnvironmentInv'
<1> USE DEF EnvironmentInv
<1> SUFFICES ASSUME EnvironmentInv, [EnvironmentsNext]_environmentsVars PROVE EnvironmentInv'
  OBVIOUS
<1>1. CoreInv'
  BY StepCore
<1>2. CASE EnvironmentsNext
  <2>1. OneKey' /\ ReadsRow' /\ ConfigTells' /\ PendingSealed'
    BY <1>2, StepOneKey, StepReadsRow, StepConfigTells, StepPendingSealed
  <2>2. RowSealed'
    BY <1>1, <1>2, StepRowSealed
  <2>3. FirstTable' /\ TablesSealed' /\ RowsListed'
    BY <1>2, StepFirstTable, StepTablesSealed, StepRowsListed
  <2>4. HeldRows' /\ SettingKept' /\ CredentialsKept' /\ VariablesKept'
    BY <1>2, StepHeldRows, StepSettingKept, StepCredentialsKept, StepVariablesKept
  <2>5. CacheFits'
    BY <1>2, StepCacheFits
  <2> QED BY <1>1, <2>1, <2>2, <2>3, <2>4, <2>5
<1>3. CASE UNCHANGED environmentsVars
  <2>1. UNCHANGED <<config, row, tables, user, server, task, wanted, doubts, reasons>>
    BY <1>3 DEF environmentsVars
  <2>2. OneKey' /\ ReadsRow' /\ ConfigTells' /\ PendingSealed'
    BY <2>1 DEF OneKey, ReadsRow, ConfigTells, AllBy, AllIn, Inserting, Trusted, Past0,
       PendingSealed, Rotating
  <2>3. RowSealed' /\ FirstTable' /\ TablesSealed' /\ RowsListed'
    BY <2>1 DEF Trusted, RowSealed, Sealing, Past, Creating, FirstTable, TablesSealed,
       SealingTable, PastTable, RowsListed
  <2>4. HeldRows' /\ SettingKept' /\ CredentialsKept' /\ VariablesKept' /\ CacheFits'
    BY <2>1 DEF HeldRows, SettingKept, CredentialsKept, VariablesKept, Editing, CacheFits
  <2> QED BY <1>1, <2>2, <2>3, <2>4
<1> QED BY <1>2, <1>3

LEMMA SpecEnvironment == EnvironmentsSpec => []EnvironmentInv
BY InitEnvironment, StepEnvironment, PTL DEF EnvironmentsSpec

LEMMA QuietIs ==
    ASSUME Quiet
    PROVE  /\ \A r \in Requests : task[r].pc \in {"idle", "done"}
           /\ \A p \in Servers : server[p].pc \in {"down", "serving"}
           /\ ~Inserting /\ ~Rotating /\ ~Creating /\ ~Editing
BY DEF Quiet, Active, Inserting, Rotating, Creating, Editing

\* What the configuration tells of a quiet database.
LEMMA QuietKey ==
    ASSUME EnvironmentInv, Quiet, Trusted
    PROVE  AllBy(config.hash)
BY QuietIs, AbsentFields DEF EnvironmentInv, ConfigTells

LEMMA OpensAll ==
    ASSUME CoreInv, NEW k, AllBy(k), NEW t \in TableNames
    PROVE  \A x \in tables[t] : Opens(k, x)
BY CoreHolds DEF TablesFit, WellText, AllBy, AllIn, By, Opens

LEMMA RotatedOut ==
    ASSUME EnvironmentInv, Quiet, "rotation" \notin reasons, row.secret.by # NoKey, row.pending.key # None
    PROVE  row.pending.by # NoKey
BY QuietIs DEF EnvironmentInv, PendingSealed

LEMMA CanStart == EnvironmentInv => SomeServerCanStart
<1> SUFFICES ASSUME EnvironmentInv, Quiet, reasons \subseteq {"creation", "variables", "overlap"}
             PROVE  \E k \in EncryptionKeys \cup {NoKey} :
                       /\ config = NoConfig \/ config.hash = k
                       /\ Decrypts(k, row)
                       /\ \A x \in Rows : Opens(k, x)
  BY DEF SomeServerCanStart
<1>1. CoreInv /\ config.hash \in EncryptionKeys \cup {NoKey} /\ WellRow(row)
  BY CoreHolds DEF EnvironmentInv, Types, RowFits
<1>2. AllBy(config.hash)
  BY QuietKey DEF Trusted
<1>3. Decrypts(config.hash, row)
  BY <1>1, <1>2, RotatedOut DEF AllBy, AllIn, By, WellRow, WellText, Decrypts
<1>4. \A x \in Rows : Opens(config.hash, x)
  BY <1>1, <1>2, OpensAll DEF Rows
<1> QED BY <1>1, <1>3, <1>4

LEMMA Complete == EnvironmentInv => EncryptionIsComplete
<1> SUFFICES ASSUME EnvironmentInv, Quiet, config.complete, row # Absent, reasons \subseteq {"variables", "overlap"}
             PROVE  /\ row.secret.by = config.hash
                    /\ row.pending.key # None => row.pending.by = config.hash
                    /\ \A x \in Rows : x.text.by = config.hash
  BY DEF EncryptionIsComplete
<1>1. AllBy(config.hash) /\ Trusted
  BY QuietKey DEF Trusted
<1>2. row.secret.by # NoKey
  BY <1>1, QuietIs DEF EnvironmentInv, RowSealed, Sealing
<1>3. row.pending.key # None => row.pending.by # NoKey
  BY <1>2, RotatedOut
<1>4. \A t \in TableNames : \A x \in tables[t] : x.text.by # NoKey
  <2>1. \A i \in {1, 2} : \A x \in tables[Tables[i]] : x.text.by # NoKey
    BY <1>1 DEF EnvironmentInv, TablesSealed, SealingTable
  <2> QED BY <2>1, TableTypes DEF TableNames
<1> QED BY <1>1, <1>2, <1>3, <1>4 DEF AllBy, AllIn, By, Rows

LEMMA CachesAgree == EnvironmentInv => CacheAgrees
<1> SUFFICES ASSUME EnvironmentInv, Quiet, row # Absent, reasons \cap {"rotation", "overlap", "keys"} = {},
                    NEW p \in Serving
             PROVE  /\ "elsewhere" \notin doubts[p] =>
                           GetAccountIdAndEnvironmentIdBySecretKey(p, row.secret.key)
                    /\ doubts[p] = {} =>
                           \A key \in Keys :
                              GetAccountIdAndEnvironmentIdBySecretKey(p, key) => key = row.secret.key
  BY DEF CacheAgrees
<1>1. p \in Servers /\ server[p].pc = "serving"
  BY DEF Serving
<1>2. \A r \in Requests : task[r].pc \notin Refreshing
  BY QuietIs DEF Refreshing
<1>3. /\ "elsewhere" \notin doubts[p] => row.secret.key \in server[p].cache
      /\ doubts[p] = {} => server[p].cache \subseteq {row.secret.key}
  BY <1>1, <1>2 DEF EnvironmentInv, CacheFits
<1> QED BY <1>3 DEF GetAccountIdAndEnvironmentIdBySecretKey

LEMMA EditsKept == EnvironmentInv => EditsAreKept
<1> SUFFICES ASSUME EnvironmentInv, Quiet PROVE EditsAreKept
  BY DEF EditsAreKept
<1>1. ASSUME Trusted, NEW p \in Serving, NEW t \in TableNames
      PROVE  DecryptRows(p, t) = KeysOf(tables[t])
  <2>1. p \in Servers /\ Past0(p)
    BY <1>1 DEF Serving, Past0
  <2>2. AllBy(server[p].key) /\ CoreInv
    BY <1>1, <2>1 DEF EnvironmentInv, ConfigTells
  <2> QED BY <2>2, OpensAll DEF DecryptRows, KeysOf
<1>2. "overlap" \notin reasons => row.setting = wanted.setting
  BY DEF EnvironmentInv, SettingKept
<1>3. "overlap" \notin reasons => KeysOf(tables["credentials"]) = wanted.rows["credentials"]
  BY DEF EnvironmentInv, CredentialsKept
<1>4. "variables" \notin reasons => KeysOf(tables["variables"]) = wanted.rows["variables"]
  BY QuietIs DEF EnvironmentInv, VariablesKept
<1>5. reasons \cap {"overlap", "config", "keys"} = {} =>
         \A p \in Serving : GetCredentials(p) = wanted.rows["credentials"]
  BY <1>1, <1>3 DEF Trusted, GetCredentials, TableNames
<1>6. reasons \cap {"variables", "config", "keys"} = {} =>
         \A p \in Serving : GetEnvironmentVariables(p) = wanted.rows["variables"]
  BY <1>1, <1>4 DEF Trusted, GetEnvironmentVariables, TableNames
<1> QED BY <1>2, <1>5, <1>6 DEF EditsAreKept

\* Between requests and starts some key reads all that is stored, and it is the key that
\* is configured; and once the encryption is complete all is encrypted with it.
THEOREM Readable == EnvironmentsSpec => []KeysAreReadable
<1>1. EnvironmentInv => KeysAreReadable
  BY CanStart, Complete DEF KeysAreReadable
<1> QED BY <1>1, SpecEnvironment, PTL

\* Between requests and starts the caches answer by the key of the row, and the settings,
\* the credentials and the variables are those that were acknowledged last.
THEOREM Effective == EnvironmentsSpec => []WritesTakeEffect
<1>1. EnvironmentInv => WritesTakeEffect
  BY CachesAgree, EditsKept DEF WritesTakeEffect
<1> QED BY <1>1, SpecEnvironment, PTL
=============================================================================
