------------------------------ MODULE SyncRun ------------------------------
(***************************************************************************)
(* One sync of one connection: the initial run, the continuous runs that   *)
(* Temporal starts from the schedule, and the two rows they share in       *)
(* Postgres, the sync (last_sync_date) and its jobs (status, updated_at).  *)
(*                                                                         *)
(*   worker/lib/activities.ts             routeSync, scheduleAndRouteSync  *)
(*   shared/lib/services/sync/run.service.ts    run, reportResults, ...    *)
(*   shared/lib/services/sync/sync.service.ts   the last sync date         *)
(*   shared/lib/services/sync/job.service.ts    the jobs                   *)
(*                                                                         *)
(* Every await is a step boundary, so runs, the script and the provider    *)
(* interleave.  The provider changes one object at each tick of the clock; *)
(* a change is named by its time.  A script given a last sync date d       *)
(* fetches what changed after d, and everything when it is given none.     *)
(***************************************************************************)
EXTENDS Integers, FiniteSets

CONSTANTS
    NumRuns,    \* bound: the runs of the sync that are looked at
    MaxTime,    \* bound: the changes at the provider
    MaxMishaps, \* bound: the different things that go wrong in one behaviour
    UserDates   \* the dates a script may pass to nango.setLastSyncDate

ASSUME RunsAssumption == NumRuns \in Nat \ {0}
ASSUME DatesAssumption == UserDates \subseteq Nat \ {0}

NoDate == 0     \* the null of last_sync_date
Initial == 1    \* the run started by startContinuous; the others are continuous
Runs == 1..NumRuns

VARIABLES
    now,        \* the clock, and so the changes made so far: 1..now
    lastDate,   \* _nango_syncs.last_sync_date
    job,        \* run -> status of its row in _nango_sync_jobs
    updated,    \* run -> updated_at of that row
    pc,         \* run -> the await the worker is at
    cursor,     \* run -> lastSyncDate, the date handed to the script
    start,      \* run -> syncStartDate
    fetched,    \* run -> how far the script has saved what it fetched
    open,       \* run -> Temporal has its workflow open
    delivered,  \* history: the changes saved for the customer
    ended,      \* run -> history: when it was marked SUCCESS, 0 if never
    asked,      \* history: the dates scripts set themselves
    setter,     \* history: who wrote lastDate, "script", "service" or "none"
    mishaps,    \* history: what went wrong so far
    overlap     \* history: two runs have been in progress at once

sharedVars == <<lastDate, setter>>
jobVars == <<job, updated, ended>>
runVars == <<cursor, start, fetched>>
dataVars == <<delivered, asked>>
vars == <<now, sharedVars, jobVars, pc, runVars, open, dataVars, mishaps, overlap>>

Statuses == {"NONE", "RUNNING", "PAUSED", "STOPPED", "SUCCESS"}
Mishaps == {"insert", "script", "upsert", "partial", "throw", "abort", "crash", "timeout"}
Locations == {"idle", "paused", "prepare", "read", "backup", "clear", "start", "script",
              "upsert", "failed", "finish", "check", "write", "results", "restoreCheck",
              "restoreWrite", "report", "done", "dead"}

InProgress(r) == pc[r] \notin {"idle", "paused", "done", "dead"}
Goto(r, from, to) == pc[r] = from /\ pc' = [pc EXCEPT ![r] = to]
Mishap(m) ==
    /\ Cardinality(mishaps \union {m}) <= MaxMishaps
    /\ mishaps' = mishaps \union {m}
EndsAs(r, from, to) ==
    /\ Goto(r, from, to)
    /\ open' = [open EXCEPT ![r] = FALSE]

(***************************************************************************)
(* The sync row: sync.service.ts.                                          *)
(***************************************************************************)

\* getJobLastSyncDate: updated_at of the job marked SUCCESS last.
IsJobLastSyncDate(d) ==
    \/ /\ d = NoDate
       /\ \A r \in Runs : job[r] # "SUCCESS"
    \/ \E r \in Runs :
          /\ job[r] = "SUCCESS" /\ d = updated[r]
          /\ \A q \in Runs : job[q] = "SUCCESS" => updated[q] <= d

\* getLastSyncDate: the column, or else the backup.
IsLastSyncDate(d) ==
    IF lastDate = NoDate THEN IsJobLastSyncDate(d) ELSE d = lastDate

SetLastSyncDate(d, who) ==
    /\ lastDate' = d
    /\ setter' = who

\* Mutant: the column is set to undefined instead of null.
ClearToUndefined == SetLastSyncDate(-1, "none")

ClearLastSyncDate == SetLastSyncDate(NoDate, "none")

(***************************************************************************)
(* The jobs: job.service.ts.                                               *)
(***************************************************************************)

UpdateSyncJobStatus(r, status) ==
    /\ job' = [job EXCEPT ![r] = status]
    /\ updated' = [updated EXCEPT ![r] = now]

IsInitialSyncStillRunning == job[Initial] = "RUNNING"

(***************************************************************************)
(* Starting a run.                                                         *)
(***************************************************************************)

\* startContinuous has created the initial job and, unless auto_start is
\* false, started the initial workflow; then it creates the schedule.
Init ==
    /\ now = 1
    /\ lastDate = NoDate /\ setter = "none"
    /\ \E autoStart \in BOOLEAN :
          /\ job = [r \in Runs |-> IF r # Initial THEN "NONE"
                                   ELSE IF autoStart THEN "RUNNING" ELSE "PAUSED"]
          /\ pc = [r \in Runs |-> IF r # Initial THEN "idle"
                                  ELSE IF autoStart THEN "prepare" ELSE "paused"]
          /\ open = [r \in Runs |-> r = Initial /\ autoStart]
    /\ updated = [r \in Runs |-> 0]
    /\ ended = [r \in Runs |-> 0]
    /\ cursor = [r \in Runs |-> NoDate]
    /\ start = [r \in Runs |-> 0]
    /\ fetched = [r \in Runs |-> 0]
    /\ delivered = {} /\ asked = {}
    /\ mishaps = {} /\ overlap = FALSE

\* An object changes at the provider.
Change ==
    /\ now < MaxTime
    /\ now' = now + 1
    /\ UNCHANGED <<sharedVars, jobVars, pc, runVars, open, dataVars, mishaps, overlap>>

\* The schedule, or a trigger of it, starts a continuous workflow: BUFFER_ONE
\* keeps it waiting while another continuous workflow is open.
\* scheduleAndRouteSync returns at once, with no effect, while the initial job
\* is RUNNING; createSyncJob reports a failed insert and yields no job.
ScheduleAndRouteSync(r, inserted) ==
    /\ r # Initial
    /\ pc[r - 1] # "idle"
    /\ \A q \in Runs \ {Initial} : ~open[q]
    /\ ~IsInitialSyncStillRunning
    /\ Goto(r, "idle", "prepare")
    /\ open' = [open EXCEPT ![r] = TRUE]
    /\ job' = [job EXCEPT ![r] = IF inserted THEN "RUNNING" ELSE "NONE"]
    /\ overlap' = (overlap \/ \E q \in Runs : InProgress(q))
    /\ IF inserted THEN UNCHANGED mishaps ELSE Mishap("insert")
    /\ UNCHANGED <<now, sharedVars, updated, ended, runVars, dataVars>>

\* run: the configuration, the environment and the integration file are there.
Prepare(r) ==
    /\ Goto(r, "prepare", "read")
    /\ UNCHANGED <<now, sharedVars, jobVars, runVars, open, dataVars, mishaps, overlap>>

\* run: one of them is missing, which ends in reportFailureForResults.
PrepareFails(r) ==
    /\ Goto(r, "prepare", "report")
    /\ UNCHANGED <<now, sharedVars, jobVars, runVars, open, dataVars, mishaps, overlap>>

(***************************************************************************)
(* The date the run starts from, read and then cleared.                    *)
(***************************************************************************)

ReadDate(r) ==
    /\ cursor' = [cursor EXCEPT ![r] = lastDate]
    /\ Goto(r, "read", IF lastDate = NoDate THEN "backup" ELSE "clear")
    /\ UNCHANGED <<now, sharedVars, jobVars, start, fetched, open, dataVars, mishaps, overlap>>

ReadBackupDate(r) ==
    /\ \E d \in 0..now :
          /\ IsJobLastSyncDate(d)
          /\ cursor' = [cursor EXCEPT ![r] = d]
    /\ Goto(r, "backup", "clear")
    /\ UNCHANGED <<now, sharedVars, jobVars, start, fetched, open, dataVars, mishaps, overlap>>

ClearDate(r) ==
    /\ ClearLastSyncDate
    /\ Goto(r, "clear", "start")
    /\ UNCHANGED <<now, jobVars, runVars, open, dataVars, mishaps, overlap>>

(***************************************************************************)
(* The script.                                                             *)
(***************************************************************************)

StartScript(r) ==
    /\ start' = [start EXCEPT ![r] = now]
    /\ fetched' = [fetched EXCEPT ![r] = cursor[r]]
    /\ Goto(r, "start", "script")
    /\ UNCHANGED <<now, sharedVars, jobVars, cursor, open, dataVars, mishaps, overlap>>

\* The script fetches a further page and saves it with batchSave, which throws
\* if there is no job.
ScriptSaves(r) ==
    /\ pc[r] = "script" /\ job[r] # "NONE"
    /\ \E upto \in fetched[r] + 1 .. now :
          /\ delivered' = delivered \union (fetched[r] + 1 .. upto)
          /\ fetched' = [fetched EXCEPT ![r] = upto]
    /\ UNCHANGED <<now, sharedVars, jobVars, pc, cursor, start, open, asked, mishaps, overlap>>

\* NangoSync.setLastSyncDate, which overrides whatever is there.
ScriptSetsDate(r, d) ==
    /\ pc[r] = "script"
    /\ SetLastSyncDate(d, "script")
    /\ asked' = asked \union {d}
    /\ UNCHANGED <<now, jobVars, pc, runVars, open, delivered, mishaps, overlap>>

\* It returns nothing, having saved all there was when it started.
ScriptReturnsVoid(r) ==
    /\ fetched[r] >= start[r]
    /\ Goto(r, "script", "finish")
    /\ UNCHANGED <<now, sharedVars, jobVars, runVars, open, dataVars, mishaps, overlap>>

\* It returns the rest of that, for run to save.
ScriptReturnsRecords(r) ==
    /\ Goto(r, "script", "upsert")
    /\ UNCHANGED <<now, sharedVars, jobVars, runVars, open, dataVars, mishaps, overlap>>

UpsertResults(r) ==
    /\ delivered' = delivered \union (fetched[r] + 1 .. start[r])
    /\ fetched' = [fetched EXCEPT ![r] = IF @ < start[r] THEN start[r] ELSE @]
    /\ Goto(r, "upsert", "finish")
    /\ UNCHANGED <<now, sharedVars, jobVars, cursor, start, open, asked, mishaps, overlap>>

\* formatDataRecords or upsert does not succeed; nothing is saved.
UpsertFails(r) ==
    /\ Goto(r, "upsert", "failed")
    /\ Mishap("upsert")
    /\ UNCHANGED <<now, sharedVars, jobVars, runVars, open, dataVars, overlap>>

\* runScript turns whatever the script throws into success: false, and run
\* reports the failure, inside its try.
ScriptFails(r) ==
    /\ Goto(r, "script", "failed")
    /\ Mishap("script")
    /\ UNCHANGED <<now, sharedVars, jobVars, runVars, open, dataVars, overlap>>

(***************************************************************************)
(* reportResults for the last model.                                       *)
(***************************************************************************)

MarkSuccess(r) ==
    /\ job[r] # "NONE"
    /\ UpdateSyncJobStatus(r, "SUCCESS")
    /\ ended' = [ended EXCEPT ![r] = now]
    /\ Goto(r, "finish", "check")
    /\ UNCHANGED <<now, sharedVars, runVars, open, dataVars, mishaps, overlap>>

\* Mutant: override is left at its default.
CheckDateOverriding(r) ==
    /\ Goto(r, "check", "write")
    /\ UNCHANGED <<now, sharedVars, jobVars, runVars, open, dataVars, mishaps, overlap>>

\* setLastSyncDate(syncStartDate, override = false): look, then write.
CheckDate(r) ==
    /\ Goto(r, "check", IF lastDate = NoDate THEN "write" ELSE "results")
    /\ UNCHANGED <<now, sharedVars, jobVars, runVars, open, dataVars, mishaps, overlap>>

\* Mutant: the date of the end of the run is written.
WriteEndDate(r) ==
    /\ SetLastSyncDate(now, "service")
    /\ Goto(r, "write", "results")
    /\ UNCHANGED <<now, jobVars, runVars, open, dataVars, mishaps, overlap>>

WriteDate(r) ==
    /\ SetLastSyncDate(start[r], "service")
    /\ Goto(r, "write", "results")
    /\ UNCHANGED <<now, jobVars, runVars, open, dataVars, mishaps, overlap>>

\* Slack, the snapshot, the job's result, the webhook and the log.
FinishResults(r) ==
    /\ EndsAs(r, "results", "done")
    /\ UNCHANGED <<now, sharedVars, jobVars, runVars, dataVars, mishaps, overlap>>

\* reportResults returns at once for a run that has no job.
FinishWithoutJob(r) ==
    /\ job[r] = "NONE"
    /\ EndsAs(r, "finish", "done")
    /\ UNCHANGED <<now, sharedVars, jobVars, runVars, dataVars, mishaps, overlap>>

\* No call of reportResults has index numberOfModels - 1: the script returned
\* records but none for the last model, or the sync has no model.
LastModelMissing(r) ==
    /\ EndsAs(r, "finish", "done")
    /\ Mishap("partial")
    /\ UNCHANGED <<now, sharedVars, jobVars, runVars, dataVars, overlap>>

(***************************************************************************)
(* The catch of run, and reportFailureForResults.                          *)
(***************************************************************************)

\* Something throws inside the try: runScript itself, what follows the script's
\* return, or the report of a failure, before or after it has marked the job.
Throws(r) ==
    /\ pc[r] \in {"script", "upsert", "failed", "finish", "check", "write", "results"}
    /\ pc' = [pc EXCEPT ![r] = "restoreCheck"]
    /\ \/ UNCHANGED <<job, updated>>
       \/ pc[r] = "failed" /\ job[r] # "NONE" /\ UpdateSyncJobStatus(r, "STOPPED")
    /\ Mishap("throw")
    /\ UNCHANGED <<now, sharedVars, ended, runVars, open, dataVars, overlap>>

\* Mutant: the catch does not restore the date.
RestoreNothing(r) ==
    /\ Goto(r, "restoreCheck", "report")
    /\ UNCHANGED <<now, sharedVars, jobVars, runVars, open, dataVars, mishaps, overlap>>

\* setLastSyncDate(lastSyncDate, override = false): no date, or one already
\* there, is left alone.
RestoreCheck(r) ==
    /\ Goto(r, "restoreCheck",
            IF cursor[r] # NoDate /\ lastDate = NoDate THEN "restoreWrite" ELSE "report")
    /\ UNCHANGED <<now, sharedVars, jobVars, runVars, open, dataVars, mishaps, overlap>>

RestoreWrite(r) ==
    /\ SetLastSyncDate(cursor[r], "service")
    /\ Goto(r, "restoreWrite", "report")
    /\ UNCHANGED <<now, jobVars, runVars, open, dataVars, mishaps, overlap>>

\* Mutant: the job keeps its status.
ReportFailureOnly(r) ==
    /\ pc[r] \in {"failed", "report"} /\ EndsAs(r, pc[r], "done")
    /\ UNCHANGED <<now, sharedVars, jobVars, runVars, dataVars, mishaps, overlap>>

ReportFailure(r) ==
    /\ IF job[r] = "NONE" THEN UNCHANGED <<job, updated>>
                          ELSE UpdateSyncJobStatus(r, "STOPPED")
    /\ pc[r] \in {"failed", "report"} /\ EndsAs(r, pc[r], "done")
    /\ UNCHANGED <<now, sharedVars, ended, runVars, dataVars, mishaps, overlap>>

(***************************************************************************)
(* What the code does not handle.                                          *)
(***************************************************************************)

\* An await outside the try of run throws, in the catch too: syncProvider
\* logs it and returns false, and the job keeps its status.  What throws before
\* syncProvider does so before any effect: Temporal tries again, and the last of
\* three attempts ends as here.
Aborts(r) ==
    /\ pc[r] \in {"prepare", "read", "backup", "clear", "restoreCheck", "restoreWrite", "report"}
    /\ EndsAs(r, pc[r], "done")
    /\ Mishap("abort")
    /\ UNCHANGED <<now, sharedVars, jobVars, runVars, dataVars, overlap>>

\* The worker dies. Its activity has no heartbeat: Temporal sees nothing.
Crash(r) ==
    /\ InProgress(r)
    /\ pc' = [pc EXCEPT ![r] = "dead"]
    /\ Mishap("crash")
    /\ UNCHANGED <<now, sharedVars, jobVars, runVars, open, dataVars, overlap>>

\* The 24 hours are over. scheduleToClose is as long as startToClose, so there
\* is no further attempt, and a run that is merely slow is not told.
Timeout(r) ==
    /\ open[r]
    /\ open' = [open EXCEPT ![r] = FALSE]
    /\ IF InProgress(r) THEN Mishap("timeout") ELSE UNCHANGED mishaps
    /\ UNCHANGED <<now, sharedVars, jobVars, pc, runVars, dataVars, overlap>>

(***************************************************************************)
(* The specification.                                                      *)
(***************************************************************************)

\* What the worker does of itself: every await is answered.
WorkerStep(r) ==
    \/ Prepare(r) \/ PrepareFails(r)
    \/ ReadDate(r) \/ ReadBackupDate(r) \/ ClearDate(r)
    \/ StartScript(r) \/ ScriptSaves(r) \/ ScriptReturnsVoid(r) \/ ScriptFails(r)
    \/ ScriptReturnsRecords(r) \/ UpsertResults(r) \/ UpsertFails(r)
    \/ MarkSuccess(r) \/ CheckDate(r) \/ WriteDate(r) \/ FinishResults(r)
    \/ FinishWithoutJob(r) \/ LastModelMissing(r)
    \/ RestoreCheck(r) \/ RestoreWrite(r) \/ ReportFailure(r)

Mishappens(r) == Throws(r) \/ Aborts(r) \/ Crash(r) \/ Timeout(r)

Fires == \E r \in Runs, inserted \in BOOLEAN : ScheduleAndRouteSync(r, inserted)

Next ==
    \/ Change
    \/ Fires
    \/ \E r \in Runs : WorkerStep(r) \/ Mishappens(r)
    \/ \E r \in Runs, d \in UserDates : ScriptSetsDate(r, d)

Spec == Init /\ [][Next]_vars

\* The worker answers every await of a run that lives, and Temporal fires the
\* schedule again and again, unless auto_start is false: it is then paused until
\* somebody starts it.  Nothing that goes wrong is ever owed.
Fairness ==
    /\ \A r \in Runs : WF_vars(WorkerStep(r))
    /\ WF_vars(pc[Initial] # "paused" /\ Fires)

FairSpec == Spec /\ Fairness

(***************************************************************************)
(* Properties.                                                             *)
(***************************************************************************)

TypeOK ==
    /\ now \in Nat
    /\ lastDate \in Nat
    /\ setter \in {"none", "service", "script"}
    /\ job \in [Runs -> Statuses]
    /\ updated \in [Runs -> Nat]
    /\ ended \in [Runs -> Nat]
    /\ pc \in [Runs -> Locations]
    /\ cursor \in [Runs -> Nat]
    /\ start \in [Runs -> Nat]
    /\ fetched \in [Runs -> Nat]
    /\ open \in [Runs -> BOOLEAN]
    /\ delivered \subseteq Nat
    /\ asked \subseteq Nat
    /\ mishaps \subseteq Mishaps
    /\ overlap \in BOOLEAN

\* The script took it on itself not to ask for the change again.
Waived(t) == \E d \in asked : t <= d

\* The change came while a run that ended well was under way: after the date
\* that run leaves in the column, not after its job's updated_at.
InRunWindow(t) == \E r \in Runs : start[r] < t /\ t <= ended[r]

Accounted(d) ==
    \A t \in 1..d : t \in delivered \/ Waived(t) \/ InRunWindow(t)

Delivered(d) == \A t \in 1..d : t \in delivered \/ Waived(t)

\* Whatever fails, crashes, times out or overlaps, the date the next run would
\* start from (column or backup) never skips a change, save one made while a
\* run that was marked SUCCESS was under way.
CursorAccounted == \A d \in 0..MaxTime : IsLastSyncDate(d) => Accounted(d)

\* The date was read by the run.
HasCursor(r) == pc[r] \notin {"idle", "paused", "prepare", "read", "backup"}

\* Comment at run.service.ts:515: the date is the start of the run "to make sure
\* we wouldn't miss any changes while the sync is running".
NoMissedChange ==
    \A r \in Runs : HasCursor(r) => Delivered(cursor[r])

\* It does hold as long as the runs did not overlap and nothing worse befell
\* them than an exception caught by run, which restores the date.
NoMissedChangeInOrder ==
    (~overlap /\ mishaps \subseteq {"throw"}) => NoMissedChange

\* A date set by the script survives until a run starts from it; the run service
\* never overwrites it (unless runs overlap).
UserDateKept ==
    [][(setter = "script" /\ ~overlap /\ setter' # "script") =>
          \E r \in Runs : pc[r] = "clear" /\ pc'[r] = "start" /\ cursor[r] = lastDate]_vars

\* The continuous sync is held back only while the initial run is alive: unless
\* auto_start is false or that run is cut short, it starts.
ContinuousSyncStarts ==
    <>(\/ \E r \in Runs \ {Initial} : pc[r] # "idle"
       \/ pc[Initial] = "paused"
       \/ mishaps \cap {"partial", "abort", "crash"} # {})
=============================================================================
