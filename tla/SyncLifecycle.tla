--------------------------- MODULE SyncLifecycle ---------------------------
(***************************************************************************)
(* The life of the syncs of one flow: a flow is a sync name of a provider  *)
(* config, and has one sync per connection.  A sync is five things: its    *)
(* row, its initial job, its initial workflow, its Temporal schedule and   *)
(* its schedule row.  Requests create, delete, pause, unpause and          *)
(* reschedule them, one statement or one Temporal call at a time.          *)
(*                                                                         *)
(*   shared/lib/clients/sync.client.ts               initiate, commands    *)
(*   shared/lib/services/sync/orchestrator.service.ts                      *)
(*   shared/lib/services/sync/schedule.service.ts    the schedule row      *)
(*   shared/lib/services/sync/sync.service.ts        the sync row          *)
(*   shared/lib/services/sync/config/deploy.service.ts    deploy           *)
(*                                                                         *)
(* A request is a task, and its steps are the awaits of its handler.  A    *)
(* request cut short (the process dies, a statement throws) just ends.     *)
(***************************************************************************)
EXTENDS Integers, FiniteSets

CONSTANTS
    Requests,       \* the requests that can be under way at once
    Connections,    \* the connections of the provider config
    Frequencies,    \* what "runs" of a deployed flow may be
    NumSyncs,       \* bound: the sync rows ever inserted
    MaxEvents       \* bound: the requests made, and the kinds of them that fail

ASSUME FrequenciesAssumption == "none" \notin Frequencies
ASSUME SyncsAssumption == NumSyncs \in Nat

Syncs == 1..NumSyncs
NoSync == 0
NoFrequency == "none"

VARIABLES
    task,       \* request -> its local state
    row,        \* sync -> its row in _nango_syncs
    owner,      \* sync -> its nango_connection_id, as the set of it
    job,        \* sync -> status of its initial job, the latest there is
    workflow,   \* sync -> Temporal was asked to start its initial workflow
    sched,      \* sync -> its Temporal schedule
    every,      \* sync -> the interval of that schedule
    status,     \* sync -> status of its row in _nango_sync_schedules
    frequency,  \* sync -> frequency of that row
    config,     \* runs of the active sync config, NoFrequency if there is none
    connected,  \* the connections that are not deleted
    begun,      \* bound: the requests so far
    failed,     \* history: the kinds of requests in which an await failed, and runs that did
    overlaps    \* history: the kinds of requests that were under way together

syncVars == <<row, owner>>
jobVars == <<job, workflow>>
temporalVars == <<sched, every>>
scheduleVars == <<status, frequency>>
envVars == <<config, connected>>
vars == <<task, syncVars, jobVars, temporalVars, scheduleVars, envVars, begun, failed, overlaps>>

Operations == {"idle", "create", "delete", "pause", "unpause", "deploy", "list"}
Creating == {"insertJob", "startWorkflow", "createSchedule", "pauseSchedule", "insertSchedule"}
Locations == {"idle", "look", "createSync", "insertSync",
              "dropFlow", "findSync", "getSchedule", "dropSchedule", "dropSync", "dropJobs",
              "dropScheduleRow", "dropConnection", "dropConfig",
              "readSchedule", "pause", "unpause", "trigger", "setStatus",
              "compare", "writeFrequency", "describe", "update", "writeConfig", "reconcile",
              "markStopped"} \union Creating

\* The locals of a handler: what it does, the await it is at, the sync and the
\* connection it is about, those it has still to go through, where it goes after
\* them, and what it has read or was given.
Idle == [op |-> "idle", pc |-> "idle", sync |-> NoSync, conn |-> {}, conns |-> {}, todo |-> {},
         then |-> "idle", freq |-> NoFrequency, auto |-> TRUE, seen |-> "none"]

Live(s) == row[s] = "live"
Scheduled(s) == status[s] \in {"RUNNING", "PAUSED", "STOPPED"}
SyncsOf(conns) == {s \in Syncs : Live(s) /\ owner[s] \subseteq conns}

At(r, pc) == task[r].pc = pc
Become(r, tasks) == \E t \in tasks : task' = [task EXCEPT ![r] = t]
Goto(r, from, to) == At(r, from) /\ Become(r, {[task[r] EXCEPT !.pc = to]})
End(r) == Become(r, {Idle})

\* A loop over syncs, and one over connections; in each, the order is the database's.
NextSync(t, pc) ==
    IF t.todo # {} THEN {[t EXCEPT !.pc = pc, !.sync = s, !.todo = @ \ {s}] : s \in t.todo}
    ELSE IF t.then = "idle" THEN {Idle}
    ELSE {[t EXCEPT !.pc = t.then, !.sync = NoSync]}

NextConnection(t, pc) ==
    IF t.conns = {} THEN {Idle}
    ELSE {[t EXCEPT !.pc = pc, !.sync = NoSync, !.conn = {c}, !.conns = @ \ {c}] : c \in t.conns}

Begin(r, tasks) ==
    /\ task[r] = Idle /\ begun + Cardinality(failed) < MaxEvents
    /\ begun' = begun + 1
    /\ Become(r, tasks)

Fails(r) ==
    /\ failed' = failed \union {task[r].op}
    /\ begun + Cardinality(failed') <= MaxEvents

\* No sync yet: the flow is still to be deployed, or it was deployed and the
\* requests that made the connections have still to initiate the syncs.
Init ==
    /\ task = [r \in Requests |-> Idle]
    /\ row = [s \in Syncs |-> "none"] /\ owner = [s \in Syncs |-> {}]
    /\ job = [s \in Syncs |-> "none"] /\ workflow = [s \in Syncs |-> FALSE]
    /\ sched = [s \in Syncs |-> "none"] /\ every = [s \in Syncs |-> NoFrequency]
    /\ status = [s \in Syncs |-> "none"] /\ frequency = [s \in Syncs |-> NoFrequency]
    /\ config \in Frequencies \union {NoFrequency} /\ connected = Connections
    /\ begun = 0 /\ failed = {} /\ overlaps = {}

(***************************************************************************)
(* Creating: initiate for one connection, create for all of them.          *)
(***************************************************************************)

\* initiate, from the controllers that made the connection.
Initiate(r, c, auto) ==
    /\ c \in connected /\ config # NoFrequency
    /\ Begin(r, {[Idle EXCEPT !.op = "create", !.pc = "createSync", !.conn = {c},
                              !.freq = config, !.auto = auto]})
    /\ UNCHANGED <<syncVars, jobVars, temporalVars, scheduleVars, envVars, failed>>

\* create: a connection that has the sync is passed over.
Look(r) ==
    /\ At(r, "look")
    /\ Become(r, IF SyncsOf(task[r].conn) # {} THEN NextConnection(task[r], "look")
                 ELSE {[task[r] EXCEPT !.pc = "createSync"]})
    /\ UNCHANGED <<syncVars, jobVars, temporalVars, scheduleVars, envVars, begun, failed>>

\* createSync looks again and yields null for a sync that exists.  initiate is
\* then done; create passes the null to startContinuous, which throws in its
\* catch too, so that the other connections are dropped.
FindExisting(r) ==
    /\ At(r, "createSync")
    /\ Become(r, IF SyncsOf(task[r].conn) # {} THEN {Idle}
                 ELSE {[task[r] EXCEPT !.pc = "insertSync"]})
    /\ UNCHANGED <<syncVars, jobVars, temporalVars, scheduleVars, envVars, begun, failed>>

\* The unique index has deleted_at, null in a live row: it stops nothing.
InsertSync(r, s) ==
    /\ At(r, "insertSync") /\ row[s] = "none"
    /\ \A q \in Syncs : q < s => row[q] # "none"
    /\ row' = [row EXCEPT ![s] = "live"]
    /\ owner' = [owner EXCEPT ![s] = task[r].conn]
    /\ Become(r, {[task[r] EXCEPT !.pc = "insertJob", !.sync = s]})
    /\ UNCHANGED <<jobVars, temporalVars, scheduleVars, envVars, begun, failed>>

\* Mutant: a sync that is not to start by itself gets no schedule.
InsertJobAndLeavePaused(r) ==
    /\ At(r, "insertJob")
    /\ LET t == task[r] IN
          /\ job' = [job EXCEPT ![t.sync] = IF t.auto THEN "RUNNING" ELSE "PAUSED"]
          /\ Become(r, IF t.auto THEN {[t EXCEPT !.pc = "startWorkflow"]} ELSE NextConnection(t, "look"))
    /\ UNCHANGED <<syncVars, workflow, temporalVars, scheduleVars, envVars, begun, failed>>

\* startContinuous: the initial job, RUNNING or PAUSED by auto_start.
InsertJob(r) ==
    /\ At(r, "insertJob")
    /\ LET t == task[r] IN
          /\ job' = [job EXCEPT ![t.sync] = IF t.auto THEN "RUNNING" ELSE "PAUSED"]
          /\ Become(r, {[t EXCEPT !.pc = IF t.auto THEN "startWorkflow" ELSE "createSchedule"]})
    /\ UNCHANGED <<syncVars, workflow, temporalVars, scheduleVars, envVars, begun, failed>>

\* createSyncJob swallows its failure, and with auto_start false nobody asks.
InsertJobFails(r) ==
    /\ ~task[r].auto
    /\ Goto(r, "insertJob", "createSchedule")
    /\ Fails(r)
    /\ UNCHANGED <<syncVars, jobVars, temporalVars, scheduleVars, envVars, begun>>

\* workflow.start, then updateRunId.
StartWorkflow(r) ==
    /\ Goto(r, "startWorkflow", "createSchedule")
    /\ workflow' = [workflow EXCEPT ![task[r].sync] = TRUE]
    /\ UNCHANGED <<syncVars, job, temporalVars, scheduleVars, envVars, begun, failed>>

CreateSchedule(r) ==
    /\ Goto(r, "createSchedule", IF task[r].auto THEN "insertSchedule" ELSE "pauseSchedule")
    /\ sched' = [sched EXCEPT ![task[r].sync] = "running"]
    /\ every' = [every EXCEPT ![task[r].sync] = task[r].freq]
    /\ UNCHANGED <<syncVars, jobVars, scheduleVars, envVars, begun, failed>>

PauseSchedule(r) ==
    /\ Goto(r, "pauseSchedule", "insertSchedule")
    /\ sched' = [sched EXCEPT ![task[r].sync] = "paused"]
    /\ UNCHANGED <<syncVars, jobVars, every, scheduleVars, envVars, begun, failed>>

InsertSchedule(r) ==
    /\ At(r, "insertSchedule")
    /\ LET t == task[r] IN
          /\ status' = [status EXCEPT ![t.sync] = IF t.auto THEN "RUNNING" ELSE "PAUSED"]
          /\ frequency' = [frequency EXCEPT ![t.sync] = t.freq]
          /\ Become(r, NextConnection(t, "look"))
    /\ UNCHANGED <<syncVars, jobVars, temporalVars, envVars, begun, failed>>

\* The catch of startContinuous, or an early return of it: the sync stays as it
\* is, and the next connection is looked at.
StartFails(r) ==
    /\ task[r].pc \in Creating
    /\ Become(r, NextConnection(task[r], "look"))
    /\ Fails(r)
    /\ UNCHANGED <<syncVars, jobVars, temporalVars, scheduleVars, envVars, begun>>

(***************************************************************************)
(* Deleting: deleteSync for the syncs of a connection or of the flow.      *)
(***************************************************************************)

Deletion == [Idle EXCEPT !.op = "delete"]

\* deleteSyncsByConnection, then the connection.
DeleteConnection(r, c) ==
    /\ c \in connected
    /\ Begin(r, NextSync([Deletion EXCEPT !.conn = {c}, !.todo = SyncsOf({c}),
                                          !.then = "dropConnection"], "getSchedule"))
    /\ UNCHANGED <<syncVars, jobVars, temporalVars, scheduleVars, envVars, failed>>

\* deleteSyncsByProviderConfig or deleteFlow, then the sync config.
DeleteFlow(r) ==
    /\ Begin(r, NextSync([Deletion EXCEPT !.todo = SyncsOf(connected),
                                          !.then = "dropConfig"], "getSchedule"))
    /\ UNCHANGED <<syncVars, jobVars, temporalVars, scheduleVars, envVars, failed>>

\* A deploy without the flow: the sync config, then one sync per connection.
ReconcileDeletion(r) ==
    /\ config # NoFrequency
    /\ Begin(r, {[Deletion EXCEPT !.pc = "dropFlow", !.conns = connected, !.then = "findSync"]})
    /\ UNCHANGED <<syncVars, jobVars, temporalVars, scheduleVars, envVars, failed>>

DropFlow(r) ==
    /\ Goto(r, "dropFlow", "findSync")
    /\ config' = NoFrequency
    /\ UNCHANGED <<syncVars, jobVars, temporalVars, scheduleVars, connected, begun, failed>>

FindSync(r) ==
    /\ At(r, "findSync")
    /\ LET next == NextConnection(task[r], "findSync") IN
       Become(r, {t \in next : SyncsOf(t.conn) = {}}
                 \union UNION {{[t EXCEPT !.pc = "getSchedule", !.sync = s] : s \in SyncsOf(t.conn)}
                               : t \in next})
    /\ UNCHANGED <<syncVars, jobVars, temporalVars, scheduleVars, envVars, begun, failed>>

\* deleteScheduleForSync goes by the schedule row, and does nothing without one.
GetSchedule(r) ==
    /\ Goto(r, "getSchedule", IF Scheduled(task[r].sync) THEN "dropSchedule" ELSE "dropSync")
    /\ UNCHANGED <<syncVars, jobVars, temporalVars, scheduleVars, envVars, begun, failed>>

\* Mutant: the Temporal schedule is only paused.
PauseDroppedSchedule(r) ==
    /\ Goto(r, "dropSchedule", "dropSync")
    /\ sched' = [sched EXCEPT ![task[r].sync] = "paused"]
    /\ UNCHANGED <<syncVars, jobVars, every, scheduleVars, envVars, begun, failed>>

DropSchedule(r) ==
    /\ Goto(r, "dropSchedule", "dropSync")
    /\ sched' = [sched EXCEPT ![task[r].sync] = "none"]
    /\ UNCHANGED <<syncVars, jobVars, every, scheduleVars, envVars, begun, failed>>

DropSync(r) ==
    /\ Goto(r, "dropSync", "dropJobs")
    /\ row' = [row EXCEPT ![task[r].sync] = "deleted"]
    /\ UNCHANGED <<owner, jobVars, temporalVars, scheduleVars, envVars, begun, failed>>

DropJobs(r) ==
    /\ Goto(r, "dropJobs", "dropScheduleRow")
    /\ job' = [job EXCEPT ![task[r].sync] = IF @ = "none" THEN @ ELSE "deleted"]
    /\ UNCHANGED <<syncVars, workflow, temporalVars, scheduleVars, envVars, begun, failed>>

DropScheduleRow(r) ==
    /\ At(r, "dropScheduleRow")
    /\ status' = [status EXCEPT ![task[r].sync] = IF @ = "none" THEN @ ELSE "deleted"]
    /\ Become(r, NextSync(task[r], "getSchedule"))
    /\ UNCHANGED <<syncVars, jobVars, temporalVars, frequency, envVars, begun, failed>>

DropConnection(r) ==
    /\ At(r, "dropConnection") /\ End(r)
    /\ connected' = connected \ task[r].conn
    /\ UNCHANGED <<syncVars, jobVars, temporalVars, scheduleVars, config, begun, failed>>

\* The deletion of its connections is in Integrations; those that are connected here
\* from now on stand for new ones.
DropConfig(r) ==
    /\ At(r, "dropConfig") /\ End(r)
    /\ config' = NoFrequency
    /\ UNCHANGED <<syncVars, jobVars, temporalVars, scheduleVars, connected, begun, failed>>

(***************************************************************************)
(* PAUSE and UNPAUSE: runSyncCommand.  RUN only triggers the schedule.     *)
(***************************************************************************)

\* The syncs are the one of a connection, or all.
Command(r, command, syncs) ==
    /\ syncs # {}
    /\ Begin(r, NextSync([Idle EXCEPT !.op = command, !.todo = syncs], "readSchedule"))
    /\ UNCHANGED <<syncVars, jobVars, temporalVars, scheduleVars, envVars, failed>>

\* The requests pause and start, which answer OK whatever comes of it.
PauseSyncs(r, syncs) == Command(r, "pause", syncs)
StartSyncs(r, syncs) == Command(r, "unpause", syncs)

\* syncCommand of the dashboard, which has the schedule's id from the page.
CommandById(r, command, s) ==
    /\ Scheduled(s)
    /\ Begin(r, {[Idle EXCEPT !.op = command, !.pc = command, !.sync = s]})
    /\ UNCHANGED <<syncVars, jobVars, temporalVars, scheduleVars, envVars, failed>>

\* Without a schedule row both the call and the update are refused an undefined id.
ReadSchedule(r) ==
    /\ At(r, "readSchedule")
    /\ Become(r, IF Scheduled(task[r].sync) THEN {[task[r] EXCEPT !.pc = task[r].op]}
                 ELSE NextSync(task[r], "readSchedule"))
    /\ UNCHANGED <<syncVars, jobVars, temporalVars, scheduleVars, envVars, begun, failed>>

\* Every call to Temporal about a schedule that is gone throws.
Exists(s) == sched[s] # "none"

Pause(r) ==
    /\ Goto(r, "pause", "setStatus")
    /\ sched' = [sched EXCEPT ![task[r].sync] = IF Exists(task[r].sync) THEN "paused" ELSE @]
    /\ UNCHANGED <<syncVars, jobVars, every, scheduleVars, envVars, begun, failed>>

\* Mutant: the schedule is triggered but stays paused.
TriggerOnly(r) ==
    /\ Goto(r, "unpause", "trigger")
    /\ UNCHANGED <<syncVars, jobVars, temporalVars, scheduleVars, envVars, begun, failed>>

Unpause(r) ==
    /\ Goto(r, "unpause", IF Exists(task[r].sync) THEN "trigger" ELSE "setStatus")
    /\ sched' = [sched EXCEPT ![task[r].sync] = IF Exists(task[r].sync) THEN "running" ELSE @]
    /\ UNCHANGED <<syncVars, jobVars, every, scheduleVars, envVars, begun, failed>>

\* UNPAUSE triggers the schedule and reads the row's frequency, to move the offset.
TriggerAndReadFrequency(r) ==
    /\ At(r, "trigger")
    /\ LET t == task[r] IN
       Become(r, IF Exists(t.sync) /\ Scheduled(t.sync)
                 THEN {[t EXCEPT !.pc = "describe", !.freq = frequency[t.sync]]}
                 ELSE {[t EXCEPT !.pc = "setStatus"]})
    /\ UNCHANGED <<syncVars, jobVars, temporalVars, scheduleVars, envVars, begun, failed>>

\* Mutant: the command is written where its status belongs.
SetStatusToCommand(r) ==
    /\ At(r, "setStatus")
    /\ LET t == task[r] IN
          /\ status' = [status EXCEPT ![t.sync] = IF Scheduled(t.sync) THEN t.op ELSE @]
          /\ Become(r, NextSync(t, "readSchedule"))
    /\ UNCHANGED <<syncVars, jobVars, temporalVars, frequency, envVars, begun, failed>>

\* updateScheduleStatus, whatever Temporal answered.
SetStatus(r) ==
    /\ At(r, "setStatus")
    /\ LET t == task[r] IN
          /\ status' = [status EXCEPT ![t.sync] =
                          IF ~Scheduled(t.sync) THEN @
                          ELSE IF t.op = "pause" THEN "PAUSED" ELSE "RUNNING"]
          /\ Become(r, NextSync(t, "readSchedule"))
    /\ UNCHANGED <<syncVars, jobVars, temporalVars, frequency, envVars, begun, failed>>

(***************************************************************************)
(* updateSyncSchedule: handle.update fetches the description of the        *)
(* schedule, has updateFunction change its interval, and sends it all back,*)
(* the pause with it.                                                      *)
(***************************************************************************)

\* What follows the update in UNPAUSE and in the loop of deploy.
Updated(t) ==
    IF t.op = "unpause" THEN {[t EXCEPT !.pc = "setStatus", !.seen = "none"]}
                        ELSE NextSync([t EXCEPT !.seen = "none"], "compare")

Describe(r) ==
    /\ At(r, "describe")
    /\ LET t == task[r] IN
       Become(r, IF Exists(t.sync) THEN {[t EXCEPT !.pc = "update", !.seen = sched[t.sync]]}
                 ELSE Updated(t))
    /\ UNCHANGED <<syncVars, jobVars, temporalVars, scheduleVars, envVars, begun, failed>>

UpdateSchedule(r) ==
    /\ At(r, "update")
    /\ LET t == task[r] IN
          /\ sched' = [sched EXCEPT ![t.sync] = IF Exists(t.sync) THEN t.seen ELSE @]
          /\ every' = [every EXCEPT ![t.sync] = IF Exists(t.sync) THEN t.freq ELSE @]
          /\ Become(r, Updated(t))
    /\ UNCHANGED <<syncVars, jobVars, scheduleVars, envVars, begun, failed>>

(***************************************************************************)
(* Deploying: frequencies first, then the sync config, then the syncs that *)
(* are missing.                                                            *)
(***************************************************************************)

\* deploy, with a sync config that it replaces, goes through the syncs.  When that
\* config cannot be read, it takes the flow for a new one and updates no sync.
Deploy(r, f) ==
    \E found \in BOOLEAN :
        /\ Begin(r, NextSync([Idle EXCEPT !.op = "deploy", !.freq = f, !.then = "writeConfig",
                              !.todo = IF found /\ config # NoFrequency
                                       THEN SyncsOf(connected) ELSE {}], "compare"))
        /\ failed' = IF found THEN failed ELSE failed \union {"deploy"}
        /\ begun' + Cardinality(failed') <= MaxEvents
        /\ UNCHANGED <<syncVars, jobVars, temporalVars, scheduleVars, envVars>>

\* updateSyncScheduleFrequency compares with the row, never with Temporal.
Compare(r) ==
    /\ At(r, "compare")
    /\ LET t == task[r] IN
       Become(r, IF Scheduled(t.sync) /\ frequency[t.sync] # t.freq
                 THEN {[t EXCEPT !.pc = "writeFrequency"]} ELSE NextSync(t, "compare"))
    /\ UNCHANGED <<syncVars, jobVars, temporalVars, scheduleVars, envVars, begun, failed>>

\* Mutant: Temporal is not told.
WriteFrequencyOnly(r) ==
    /\ At(r, "writeFrequency")
    /\ LET t == task[r] IN
          /\ frequency' = [frequency EXCEPT ![t.sync] = IF Scheduled(t.sync) THEN t.freq ELSE @]
          /\ Become(r, NextSync(t, "compare"))
    /\ UNCHANGED <<syncVars, jobVars, temporalVars, status, envVars, begun, failed>>

WriteFrequency(r) ==
    /\ Goto(r, "writeFrequency", "describe")
    /\ LET t == task[r] IN
       frequency' = [frequency EXCEPT ![t.sync] = IF Scheduled(t.sync) THEN t.freq ELSE @]
    /\ UNCHANGED <<syncVars, jobVars, temporalVars, status, envVars, begun, failed>>

WriteConfig(r) ==
    /\ Goto(r, "writeConfig", "reconcile")
    /\ config' = task[r].freq
    /\ UNCHANGED <<syncVars, jobVars, temporalVars, scheduleVars, connected, begun, failed>>

\* getAndReconcileDifferences creates the syncs if no connection has one;
\* triggerIfConnectionsExist, for a flow that Nango provides, always does.
Reconcile(r, preBuilt, auto) ==
    /\ At(r, "reconcile")
    /\ Become(r, IF preBuilt \/ SyncsOf(connected) = {}
                 THEN NextConnection([Idle EXCEPT !.op = "create", !.conns = connected,
                                         !.freq = task[r].freq, !.auto = auto], "look")
                 ELSE {Idle})
    /\ UNCHANGED <<syncVars, jobVars, temporalVars, scheduleVars, envVars, begun, failed>>

(***************************************************************************)
(* Listing: getSyncs.                                                      *)
(***************************************************************************)

\* Temporal has no schedule at all; if it has one, the list is only read.
ListSchedules(r) ==
    /\ \A s \in Syncs : ~Exists(s)
    /\ Begin(r, {[Idle EXCEPT !.op = "list", !.pc = "markStopped"]})
    /\ UNCHANGED <<syncVars, jobVars, temporalVars, scheduleVars, envVars, failed>>

MarkAllAsStopped(r) ==
    /\ At(r, "markStopped") /\ End(r)
    /\ status' = [s \in Syncs |-> IF Scheduled(s) THEN "STOPPED" ELSE status[s]]
    /\ UNCHANGED <<syncVars, jobVars, temporalVars, frequency, envVars, begun, failed>>

\* getSyncs goes on to join the syncs of a connection with their schedules and
\* their jobs, none of them deleted: what the dashboard shows.
Listed(conns) ==
    {s \in SyncsOf(conns) : Scheduled(s) /\ job[s] \notin {"none", "deleted"}}

(***************************************************************************)
(* Reporting: getSyncStatus, which only reads.                             *)
(***************************************************************************)

LatestJob(s) == IF job[s] = "deleted" THEN "none" ELSE job[s]

\* classifySyncStatus: the test for null never succeeds, since a missing job has an
\* undefined status.
ClassifySyncStatus(jobStatus, scheduleStatus) ==
    CASE scheduleStatus = "PAUSED" /\ jobStatus # "RUNNING" -> "PAUSED"
      [] scheduleStatus # "PAUSED" /\ jobStatus = "STOPPED" -> "ERROR"
      [] jobStatus = "RUNNING" -> "RUNNING"
      [] scheduleStatus # "PAUSED" /\ jobStatus = "SUCCESS" -> "SUCCESS"
      [] OTHER -> "STOPPED"

\* The reports of getSyncStatus; next tells whether there is a next run.
Report(s) ==
    LET reported == ClassifySyncStatus(LatestJob(s), status[s])
    IN  [sync |-> s, status |-> reported, next |-> reported # "PAUSED" /\ sched[s] = "running"]

Reports(conns) == {Report(s) : s \in SyncsOf(conns)}

(***************************************************************************)
(* The worker.                                                             *)
(***************************************************************************)

\* The initial run ends, well or not; SyncRun has the rest of it.
JobEnds(s, outcome) ==
    /\ job[s] = "RUNNING" /\ workflow[s]
    /\ job' = [job EXCEPT ![s] = outcome]
    /\ failed' = failed \union IF outcome = "STOPPED" THEN {"run"} ELSE {}
    /\ begun + Cardinality(failed') <= MaxEvents
    /\ UNCHANGED <<task, syncVars, workflow, temporalVars, scheduleVars, envVars, begun>>

(***************************************************************************)
(* What fails.                                                             *)
(***************************************************************************)

\* A failure that the handler swallows, going on as if nothing were wrong.
Swallowed(t) ==
    CASE t.pc = "dropSchedule" -> {[t EXCEPT !.pc = "dropSync"]}
      [] t.pc \in {"pause", "unpause", "trigger"} -> {[t EXCEPT !.pc = "setStatus"]}
      [] t.pc \in {"describe", "update"} -> Updated(t)
      [] t.pc = "setStatus" -> NextSync(t, "readSchedule")
      [] OTHER -> {}

CallFails(r) ==
    /\ Become(r, Swallowed(task[r]))
    /\ Fails(r)
    /\ UNCHANGED <<syncVars, jobVars, temporalVars, scheduleVars, envVars, begun>>

\* The process dies, or a statement throws and nothing catches it.
CutShort(r) ==
    /\ task[r] # Idle /\ End(r)
    /\ Fails(r)
    /\ UNCHANGED <<syncVars, jobVars, temporalVars, scheduleVars, envVars, begun>>

(***************************************************************************)
(* The specification.                                                      *)
(***************************************************************************)

Arrives(r) ==
    \/ \E c \in Connections, auto \in BOOLEAN : Initiate(r, c, auto)
    \/ \E c \in Connections : DeleteConnection(r, c)
    \/ DeleteFlow(r) \/ ReconcileDeletion(r)
    \/ \E syncs \in {SyncsOf(connected)} \union {{s} : s \in SyncsOf(connected)} :
          PauseSyncs(r, syncs) \/ StartSyncs(r, syncs)
    \/ \E command \in {"pause", "unpause"}, s \in Syncs : CommandById(r, command, s)
    \/ \E f \in Frequencies : Deploy(r, f)
    \/ ListSchedules(r)

Step(r) ==
    \/ Look(r) \/ FindExisting(r) \/ \E s \in Syncs : InsertSync(r, s)
    \/ InsertJob(r) \/ StartWorkflow(r) \/ CreateSchedule(r) \/ PauseSchedule(r) \/ InsertSchedule(r)
    \/ DropFlow(r) \/ FindSync(r) \/ GetSchedule(r) \/ DropSchedule(r) \/ DropSync(r)
    \/ DropJobs(r) \/ DropScheduleRow(r) \/ DropConnection(r) \/ DropConfig(r)
    \/ ReadSchedule(r) \/ Pause(r) \/ Unpause(r) \/ TriggerAndReadFrequency(r) \/ SetStatus(r)
    \/ Describe(r) \/ UpdateSchedule(r) \/ Compare(r) \/ WriteFrequency(r) \/ WriteConfig(r)
    \/ \E preBuilt, auto \in BOOLEAN : Reconcile(r, preBuilt, auto)
    \/ MarkAllAsStopped(r)

Failure(r) == InsertJobFails(r) \/ StartFails(r) \/ CallFails(r) \/ CutShort(r)

\* The requests that harm each other, after the step: the other pairs may overlap.
Harmful == {{"create"}, {"create", "delete"}, {"create", "deploy"}, {"create", "list"},
            {"deploy"}, {"deploy", "delete"}, {"deploy", "pause"}, {"deploy", "unpause"},
            {"pause", "unpause"}}
Clashes(tasks) ==
    {m \in Harmful : \E q, r \in Requests : q # r /\ m = {tasks[q].op, tasks[r].op}}

Next ==
    /\ \/ \E r \in Requests : Arrives(r) \/ Step(r) \/ Failure(r)
       \/ \E s \in Syncs, outcome \in {"SUCCESS", "STOPPED"} : JobEnds(s, outcome)
    /\ overlaps' = overlaps \union Clashes(task')

Spec == Init /\ [][Next]_vars

(***************************************************************************)
(* Properties.                                                             *)
(***************************************************************************)

Tasks == [op : Operations, pc : Locations, sync : Syncs \union {NoSync},
          conn : SUBSET Connections, conns : SUBSET Connections, todo : SUBSET Syncs,
          then : {"idle", "dropConnection", "dropConfig", "findSync", "writeConfig"},
          freq : Frequencies \union {NoFrequency}, auto : BOOLEAN,
          seen : {"none", "running", "paused"}]

TypeOK ==
    /\ task \in [Requests -> Tasks]
    /\ row \in [Syncs -> {"none", "live", "deleted"}]
    /\ owner \in [Syncs -> SUBSET Connections]
    /\ job \in [Syncs -> {"none", "RUNNING", "PAUSED", "SUCCESS", "STOPPED", "deleted"}]
    /\ workflow \in [Syncs -> BOOLEAN]
    /\ sched \in [Syncs -> {"none", "running", "paused"}]
    /\ every \in [Syncs -> Frequencies \union {NoFrequency}]
    /\ status \in [Syncs -> {"none", "RUNNING", "PAUSED", "STOPPED", "deleted"}]
    /\ frequency \in [Syncs -> Frequencies \union {NoFrequency}]
    /\ config \in Frequencies \union {NoFrequency}
    /\ connected \subseteq Connections
    /\ begun \in Nat
    /\ failed \subseteq Operations \union {"run"}
    /\ overlaps \subseteq Harmful

Untouched(s) == \A r \in Requests : task[r].sync # s
No(operation) == \A r \in Requests : task[r].op # operation

\* The row says of the schedule what Temporal does with it, and a report says so
\* too: PAUSED of a paused sync that is not in its run, RUNNING of one that is, and
\* no next run but one that Temporal will start.  So it is whatever requests came
\* before, unless a command met the contrary command or a deploy's update, or the
\* list was empty when a sync was created.
StatusAgrees ==
    (/\ overlaps \intersect {{"pause", "unpause"}, {"deploy", "pause"}, {"deploy", "unpause"},
                             {"create", "list"}} = {}
     /\ failed \intersect {"pause", "unpause", "delete"} = {})
        => \A s \in Syncs : (Live(s) /\ Scheduled(s) /\ Untouched(s)) =>
              /\ status[s] = "RUNNING" <=> sched[s] = "running"
              /\ status[s] = "PAUSED" <=> sched[s] = "paused"
              /\ \A report \in Reports(owner[s]) : report.sync = s =>
                    /\ report.status = "PAUSED" <=> (sched[s] = "paused" /\ job[s] # "RUNNING")
                    /\ report.status = "RUNNING" <=> job[s] = "RUNNING"
                    /\ report.next => Exists(s)

\* Temporal runs a sync as often as its row says, unless a deploy met an UNPAUSE
\* or another deploy, or failed: no later deploy of that frequency repairs it.
TemporalHasFrequency ==
    (/\ overlaps \intersect {{"deploy"}, {"deploy", "unpause"}} = {}
     /\ "deploy" \notin failed)
        => \A s \in Syncs : (Scheduled(s) /\ Exists(s) /\ Untouched(s)) => every[s] = frequency[s]

\* And as often as the deployed flow says, unless a creation met the deploy, or
\* the sync survived an earlier deletion of the flow: a flow that is deployed anew
\* updates no sync.
RowHasFrequency ==
    (/\ overlaps \intersect {{"deploy"}, {"create", "deploy"}, {"deploy", "delete"},
                             {"create"}, {"create", "delete"}} = {}
     /\ failed \intersect {"deploy", "delete"} = {}
     /\ No("deploy") /\ config # NoFrequency)
        => \A s \in SyncsOf(connected) : Scheduled(s) => frequency[s] = config

\* A deploy reaches the rows of all syncs and, through them, Temporal.
DeployReachesAll == TemporalHasFrequency /\ RowHasFrequency

\* A deleted sync leaves no Temporal schedule that would run it for ever, unless
\* it was deleted while it was being created, its creation stopped between the
\* schedule and the schedule row, or Temporal refused the deletion.
NoOrphanSchedule ==
    (/\ {"create", "delete"} \notin overlaps
     /\ failed \intersect {"create", "delete"} = {})
        => \A s \in Syncs : row[s] = "deleted" => ~Exists(s)

\* No live sync outlives its connection, whatever fails, unless it was being
\* created while the connection was deleted: nothing would ever delete it.
SyncHasConnection ==
    {"create", "delete"} \notin overlaps => \A s \in Syncs : Live(s) => owner[s] \subseteq connected

\* Nor its flow, unless it was being created or deployed meanwhile, had a double,
\* or the reconciliation, which drops the flow first, was cut short.
SyncHasFlow ==
    (/\ overlaps \intersect {{"create"}, {"create", "delete"}, {"deploy", "delete"}} = {}
     /\ "delete" \notin failed
     /\ No("delete") /\ config = NoFrequency)
        => \A s \in Syncs : ~Live(s)

\* What a deletion leaves behind.
DeletionLeavesNothing == NoOrphanSchedule /\ SyncHasConnection /\ SyncHasFlow

\* A connection has one live sync, unless two creations met.
OneLiveSync ==
    {"create"} \notin overlaps => \A c \in Connections : Cardinality(SyncsOf({c})) <= 1

\* A sync that nobody is at work on has its job, the workflow that ends that job,
\* its schedule and its schedule row, and the dashboard shows it: unless an await
\* of a creation or a deletion failed, since nothing completes a half created or a
\* half deleted sync.
LiveSyncComplete ==
    failed \intersect {"create", "delete"} = {}
        => \A s \in Syncs : (Live(s) /\ Untouched(s)) =>
              /\ job[s] \in {"PAUSED", "SUCCESS", "STOPPED"} \/ (job[s] = "RUNNING" /\ workflow[s])
              /\ Exists(s) /\ Scheduled(s)
              /\ s \in Listed(owner[s])

\* What a creation leaves: one sync per connection, and all of it.
CreationIsWhole == OneLiveSync /\ LiveSyncComplete
=============================================================================
