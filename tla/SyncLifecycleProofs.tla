------------------------- MODULE SyncLifecycleProofs -------------------------
(***************************************************************************)
(* What the requests leave of a sync: its parts, its deletion, its status  *)
(* and its frequency, for any number of requests, connections and syncs.   *)
(***************************************************************************)
EXTENDS SyncLifecycle, FiniteSetTheorems, TLAPS

(***************************************************************************)
(* The inductive invariant: what a location tells of a handler.            *)
(***************************************************************************)

CreateLocations == {"look", "createSync", "insertSync"} \union Creating
Dropping == {"getSchedule", "dropSchedule", "dropSync", "dropJobs", "dropScheduleRow"}
DeleteLocations == {"dropFlow", "findSync", "dropConnection", "dropConfig"} \union Dropping
\* The locations past the test for a schedule row.
Commanding == {"pause", "unpause", "trigger", "describe", "update", "setStatus", "writeFrequency"}

OpFits(t) ==
    /\ t.pc = "idle" => t = Idle
    /\ t.pc \in CreateLocations => t.op = "create"
    /\ t.pc \in DeleteLocations => t.op = "delete"
    /\ t.pc = "readSchedule" => t.op \in {"pause", "unpause"}
    /\ t.pc = "pause" => t.op = "pause"
    /\ t.pc \in {"unpause", "trigger"} => t.op = "unpause"
    /\ t.pc = "setStatus" => t.op \in {"pause", "unpause"}
    /\ t.pc \in {"describe", "update"} => t.op \in {"unpause", "deploy"}
    /\ t.pc \in {"compare", "writeFrequency", "writeConfig", "reconcile"} => t.op = "deploy"
    /\ t.pc = "markStopped" => t.op = "list"

One(conns) == \E c \in Connections : conns = {c}
LoopFits(t) ==
    /\ t.op \in {"create", "pause", "unpause", "list"} => t.then = "idle"
    /\ t.op = "deploy" => t.then = "writeConfig" /\ t.freq \in Frequencies
    /\ t.op = "create" => t.freq \in Frequencies /\ One(t.conn)
    /\ t.op = "delete" => t.then \in {"dropConnection", "dropConfig", "findSync"}
    /\ t.pc \in {"dropFlow", "findSync"} => t.then = "findSync"
    /\ t.pc \in {"dropConnection", "dropConfig"} => t.then = t.pc /\ t.todo = {}
    /\ (t.op = "delete" /\ t.then = "dropConnection") => One(t.conn)
    /\ (t.op = "delete" /\ t.then = "findSync") => t.todo = {}
    /\ t.pc \in {"writeConfig", "reconcile"} => t.todo = {}
    /\ t.pc = "update" => t.seen \in {"running", "paused"}

Inserted == {s \in Syncs : row[s] # "none"}
SyncFits(t) ==
    /\ t.todo \subseteq Inserted
    /\ t.pc \in Creating \union Dropping \union Commanding \union {"readSchedule", "compare"}
          => t.sync \in Inserted
    /\ t.pc \in Creating => status[t.sync] = "none"
    /\ t.pc \in Commanding => status[t.sync] # "none"
    /\ t.pc \in {"dropJobs", "dropScheduleRow"} => row[t.sync] = "deleted"

HandlersFit == \A r \in Requests : OpFits(task[r]) /\ LoopFits(task[r])
SyncsFit == \A r \in Requests : SyncFits(task[r])

\* A row that is not inserted yet has nothing, and one has been inserted once and for
\* one connection.
RowsFit ==
    /\ \A s \in Syncs : row[s] = "none" => status[s] = "none" /\ sched[s] = "none"
    /\ \A s \in Inserted : One(owner[s])
    /\ \A s \in Syncs : status[s] = "deleted" => row[s] = "deleted"
    /\ \A q, r \in Requests :
          (q # r /\ task[q].pc \in Creating /\ task[r].pc \in Creating)
             => task[q].sync # task[r].sync

MeetingsKnown ==
    \A q, r \in Requests :
       (q # r /\ {task[q].op, task[r].op} \in Harmful) => {task[q].op, task[r].op} \in overlaps

CoreInv == TypeOK /\ HandlersFit /\ SyncsFit /\ RowsFit /\ MeetingsKnown

(***************************************************************************)
(* What a creation leaves.                                                 *)
(***************************************************************************)

NoneFound ==
    {"create"} \notin overlaps =>
       /\ \A s1, s2 \in Syncs : Live(s1) /\ Live(s2) /\ owner[s1] = owner[s2] => s1 = s2
       /\ \A r \in Requests : At(r, "insertSync") => SyncsOf(task[r].conn) = {}

On(r, s, pcs) == task[r].sync = s /\ task[r].pc \in pcs

JobDone(s) ==
    job[s] \in {"PAUSED", "SUCCESS", "STOPPED"} \/ (job[s] = "RUNNING" /\ workflow[s])
PartsAreMade ==
    failed \intersect {"create", "delete"} = {} =>
       \A s \in Syncs : Live(s) =>
          /\ \/ JobDone(s)
             \/ \E r \in Requests :
                   On(r, s, {"insertJob"}) \/ (On(r, s, {"startWorkflow"})
                      /\ job[s] = "RUNNING")
          /\ \/ Exists(s)
             \/ \E r \in Requests :
                   On(r, s, {"insertJob", "startWorkflow", "createSchedule", "dropSync"})
          /\ Scheduled(s) \/ \E r \in Requests : On(r, s, Creating)

(***************************************************************************)
(* What a deletion leaves.                                                 *)
(***************************************************************************)

SchedulesGo ==
    ({"create", "delete"} \notin overlaps /\ failed \intersect {"create", "delete"} = {}) =>
       /\ \A s \in Syncs : row[s] = "deleted" => ~ Exists(s)
       /\ \A r \in Requests : At(r, "dropSync") => ~ Exists(task[r].sync)
       /\ \A r \in Requests : task[r].pc \in Creating => Live(task[r].sync)
       /\ \A s \in Syncs : Exists(s) =>
             Scheduled(s) \/ \E r \in Requests : On(r, s, {"pauseSchedule", "insertSchedule"})

\* The syncs that a deletion has still to see to.
Ahead(r) ==
    task[r].todo \union IF task[r].pc \in {"getSchedule", "dropSchedule", "dropSync"}
                        THEN {task[r].sync} ELSE {}
Deleting(r, then) == task[r].op = "delete" /\ task[r].then = then

ConnectionsCovered ==
    {"create", "delete"} \notin overlaps =>
       /\ \A s \in Syncs : Live(s) => owner[s] \subseteq connected
       /\ \A r \in Requests : task[r].op = "create" =>
             task[r].conn \subseteq connected /\ task[r].conns \subseteq connected
       /\ \A r \in Requests : Deleting(r, "dropConnection")
             => SyncsOf(task[r].conn) \subseteq Ahead(r)

FlowOverlaps == {{"create"}, {"create", "delete"}, {"deploy", "delete"}}
FlowCovered ==
    (overlaps \intersect FlowOverlaps = {} /\ "delete" \notin failed) =>
       /\ \A r \in Requests :
             task[r].op = "create" \/ At(r, "reconcile") => config # NoFrequency
       /\ \A r \in Requests : Deleting(r, "dropConfig") =>
             \A s \in Syncs : Live(s) => s \in Ahead(r)
       /\ \A r \in Requests : Deleting(r, "findSync") =>
             \A s \in Syncs : Live(s) => s \in Ahead(r) \/ owner[s] \subseteq task[r].conns
       /\ config = NoFrequency =>
             \A s \in Syncs : Live(s) => \E r \in Requests : Deleting(r, "findSync")

(***************************************************************************)
(* What Temporal and the schedule row say.                                 *)
(***************************************************************************)

Agrees(s) ==
    /\ status[s] = "RUNNING" <=> sched[s] = "running"
    /\ status[s] = "PAUSED" <=> sched[s] = "paused"
Moving(r, s) ==
    \/ task[r].op = "pause" /\ On(r, s, {"setStatus"})
    \/ task[r].op = "unpause" /\ On(r, s, {"trigger", "describe", "update", "setStatus"})
    \/ On(r, s, {"dropSync"})
CommandOverlaps ==
    {{"pause", "unpause"}, {"deploy", "pause"}, {"deploy", "unpause"}, {"create", "list"}}
Is(s, how) == Exists(s) => sched[s] = how
CommandsAlone ==
    /\ overlaps \intersect CommandOverlaps = {}
    /\ failed \intersect {"pause", "unpause", "delete"} = {}

\* A command is at work on every sync whose row is not yet what Temporal does.
OthersAgree ==
    \A s \in Syncs : (Live(s) /\ Scheduled(s)) => Agrees(s) \/ \E r \in Requests : Moving(r, s)
\* A schedule that is gone was just dropped.
GoneIsDropped ==
    \A s \in Syncs :
       (Live(s) /\ ~ Exists(s)
           /\ (Scheduled(s) \/ \E r \in Requests : On(r, s, {"pauseSchedule", "insertSchedule"})))
       => \E r \in Requests : On(r, s, {"dropSync"})
\* What a handler is about to write is what the schedule does.
Written(t) ==
    /\ t.pc = "pauseSchedule" => ~ t.auto
    /\ t.pc = "insertSchedule" => Is(t.sync, IF t.auto THEN "running" ELSE "paused")
    /\ (t.op = "pause" /\ t.pc = "setStatus") => Is(t.sync, "paused")
    /\ (t.op = "unpause" /\ t.pc \in {"trigger", "describe", "update", "setStatus"})
          => Is(t.sync, "running") /\ (t.pc = "update" => t.seen = "running")
    /\ (t.op = "deploy" /\ t.pc = "update") => Is(t.sync, t.seen)
    /\ t.pc = "markStopped" => \A s \in Syncs : ~ Exists(s)
WrittenIsSo == \A r \in Requests : Written(task[r])
StatusKept == CommandsAlone => OthersAgree /\ GoneIsDropped /\ WrittenIsSo

TemporalAlone ==
    overlaps \intersect {{"deploy"}, {"deploy", "unpause"}} = {} /\ "deploy" \notin failed
Telling(r, s) == task[r].op = "deploy" /\ On(r, s, {"describe", "update"})
\* A deploy is telling Temporal the interval of every schedule that has another than its row.
IntervalsAgree ==
    \A s \in Syncs : (Scheduled(s) /\ Exists(s)) =>
       every[s] = frequency[s] \/ \E r \in Requests : Telling(r, s)
\* What a handler is about to write, in the row or in Temporal, is what the other has.
Carried(t) ==
    /\ t.pc \in {"pauseSchedule", "insertSchedule"} => every[t.sync] = t.freq
    /\ t.pc \in {"describe", "update"} => (Scheduled(t.sync) => frequency[t.sync] = t.freq)
FrequenciesCarried == \A r \in Requests : Carried(task[r])
TemporalKept == TemporalAlone => IntervalsAgree /\ FrequenciesCarried

RowOverlaps ==
    {{"deploy"}, {"create", "deploy"}, {"deploy", "delete"}, {"create"}, {"create", "delete"}}
RowsAlone ==
    overlaps \intersect RowOverlaps = {} /\ failed \intersect {"deploy", "delete"} = {}
\* With no deploy under way, every row is as the flow is deployed.
RowsAsDeployed ==
    (No("deploy") /\ config # NoFrequency) =>
       \A s \in Syncs : (Live(s) /\ Scheduled(s)) => frequency[s] = config
CreationsAsDeployed == \A r \in Requests : task[r].op = "create" => task[r].freq = config
\* A deploy has seen to the row, or will.
Reached(r, s) ==
    frequency[s] = task[r].freq \/ s \in task[r].todo \/ On(r, s, {"compare", "writeFrequency"})
DeploysReach ==
    \A r \in Requests : task[r].op = "deploy" =>
       /\ At(r, "reconcile") => config = task[r].freq
       /\ \A s \in Syncs : (Live(s) /\ Scheduled(s)) => Reached(r, s)
RowsKept == RowsAlone => RowsAsDeployed /\ CreationsAsDeployed /\ DeploysReach

(***************************************************************************)
(* The steps, by the fields they change: t is the handler before and u the *)
(* handler after the step.                                                 *)
(***************************************************************************)

Others(r) == task' = [q \in Requests |-> IF q = r THEN task'[r] ELSE task[q]]
Still == UNCHANGED <<row, owner, job, workflow, sched, every, status, frequency, config, connected>>

Alike(t, u) == u.op = t.op /\ u.then = t.then /\ u.auto = t.auto
Same(t, u) == Alike(t, u) /\ u.conn = t.conn /\ u.conns = t.conns /\ u.todo = t.todo
PcOnly(t, u) == Same(t, u) /\ u.sync = t.sync /\ u.freq = t.freq /\ u.seen = t.seen

\* Where the loops go on.
Loops(t, u, pc) ==
    \/ u = Idle /\ t.todo = {} /\ t.then = "idle"
    \/ /\ Same(t, u) /\ u.freq = t.freq
       /\ t.todo = {} /\ t.then # "idle" /\ u.pc = t.then /\ u.sync = NoSync
    \/ /\ Alike(t, u) /\ u.conn = t.conn /\ u.conns = t.conns /\ u.freq = t.freq
       /\ u.pc = pc /\ u.sync \in t.todo /\ u.todo = t.todo \ {u.sync}
LoopsOver(t, u, pc) ==
    \/ u = Idle /\ t.conns = {}
    \/ \E c \in t.conns :
          /\ Alike(t, u) /\ u.todo = t.todo /\ u.freq = t.freq
          /\ u.pc = pc /\ u.sync = NoSync /\ u.conn = {c} /\ u.conns = t.conns \ {c}
GoesOn(t, u) ==
    \/ t.op = "unpause" /\ Same(t, u) /\ u.sync = t.sync /\ u.freq = t.freq
          /\ u.pc = "setStatus"
    \/ t.op # "unpause" /\ Loops(t, u, "compare")

LEMMA IdleIsTask == Idle \in Tasks
  BY DEF Idle, Tasks, Operations, Locations, NoSync, NoFrequency

LEMMA LoopOverSyncs ==
    ASSUME NEW t \in Tasks, NEW pc \in Locations, NEW u \in NextSync(t, pc)
    PROVE  u \in Tasks /\ Loops(t, u, pc)
<1>1. CASE t.todo # {}
  <2>1. PICK s \in t.todo : u = [t EXCEPT !.pc = pc, !.sync = s, !.todo = @ \ {s}]
    BY <1>1 DEF NextSync
  <2>2. s \in Syncs
    BY DEF Tasks
  <2> QED
    BY <2>1, <2>2 DEF Tasks, Loops, Alike
<1>2. CASE t.todo = {} /\ t.then = "idle"
  BY <1>2, IdleIsTask DEF NextSync, Loops
<1>3. CASE t.todo = {} /\ t.then # "idle"
  <2>1. u = [t EXCEPT !.pc = t.then, !.sync = NoSync]
    BY <1>3 DEF NextSync
  <2>2. t.then \in Locations
    BY DEF Tasks, Locations
  <2> QED
    BY <1>3, <2>1, <2>2 DEF Tasks, Loops, Same, Alike
<1> QED
  BY <1>1, <1>2, <1>3

LEMMA LoopOverConnections ==
    ASSUME NEW t \in Tasks, NEW pc \in Locations, NEW u \in NextConnection(t, pc)
    PROVE  u \in Tasks /\ LoopsOver(t, u, pc)
<1>1. CASE t.conns # {}
  <2>1. PICK c \in t.conns :
           u = [t EXCEPT !.pc = pc, !.sync = NoSync, !.conn = {c}, !.conns = @ \ {c}]
    BY <1>1 DEF NextConnection
  <2>2. c \in Connections
    BY DEF Tasks
  <2> QED
    BY <2>1, <2>2 DEF Tasks, LoopsOver, Alike
<1>2. CASE t.conns = {}
  BY <1>2, IdleIsTask DEF NextConnection, LoopsOver
<1> QED
  BY <1>1, <1>2

LEMMA LoopAfterUpdate ==
    ASSUME NEW t \in Tasks, NEW u \in Updated(t)
    PROVE  u \in Tasks /\ GoesOn(t, u)
<1>1. CASE t.op = "unpause"
  <2>1. u = [t EXCEPT !.pc = "setStatus", !.seen = "none"]
    BY <1>1 DEF Updated
  <2> QED
    BY <1>1, <2>1 DEF GoesOn, Same, Alike, Tasks, Locations
<1>2. CASE t.op # "unpause"
  <2> DEFINE v == [t EXCEPT !.seen = "none"]
  <2>1. v \in Tasks /\ u \in NextSync(v, "compare")
    BY <1>2 DEF Updated, Tasks
  <2>2. u \in Tasks /\ Loops(v, u, "compare")
    BY <2>1, LoopOverSyncs DEF Locations
  <2>3. Loops(t, u, "compare")
    BY <2>2 DEF Loops, Same, Alike, Tasks
  <2> QED
    BY <1>2, <2>2, <2>3 DEF GoesOn
<1> QED
  BY <1>1, <1>2

\* What the ways to go on do: to one location, to the end, and into the loops.
LEMMA BecomesOne ==
    ASSUME TypeOK, NEW r \in Requests, NEW u, task' = [task EXCEPT ![r] = u]
    PROVE  Others(r) /\ task'[r] = u
  BY DEF Others, TypeOK

LEMMA GoesTo ==
    ASSUME TypeOK, NEW r \in Requests, NEW from, NEW to \in Locations, Goto(r, from, to)
    PROVE  /\ Others(r) /\ task'[r] \in Tasks
           /\ task[r].pc = from /\ PcOnly(task[r], task'[r]) /\ task'[r].pc = to
<1> DEFINE u == [task[r] EXCEPT !.pc = to]
<1>1. task[r].pc = from /\ task' = [task EXCEPT ![r] = u] /\ task[r] \in Tasks
  BY DEF Goto, At, Become, TypeOK
<1>2. u \in Tasks /\ PcOnly(task[r], u) /\ u.pc = to
  BY <1>1 DEF Tasks, PcOnly, Same, Alike
<1> HIDE DEF u
<1> QED
  BY <1>1, <1>2, BecomesOne

LEMMA Ends ==
    ASSUME TypeOK, NEW r \in Requests, End(r)
    PROVE  Others(r) /\ task'[r] \in Tasks /\ task'[r] = Idle
  BY BecomesOne, IdleIsTask DEF End, Become

LEMMA GoesOnSyncs ==
    ASSUME TypeOK, NEW r \in Requests, NEW pc \in Locations, Become(r, NextSync(task[r], pc))
    PROVE  Others(r) /\ task'[r] \in Tasks /\ Loops(task[r], task'[r], pc)
<1>1. PICK u \in NextSync(task[r], pc) : task' = [task EXCEPT ![r] = u]
  BY DEF Become
<1>2. u \in Tasks /\ Loops(task[r], u, pc)
  BY LoopOverSyncs DEF TypeOK
<1> QED
  BY <1>1, <1>2, BecomesOne

LEMMA GoesOnConnections ==
    ASSUME TypeOK, NEW r \in Requests, NEW pc \in Locations,
           Become(r, NextConnection(task[r], pc))
    PROVE  Others(r) /\ task'[r] \in Tasks /\ LoopsOver(task[r], task'[r], pc)
<1>1. PICK u \in NextConnection(task[r], pc) : task' = [task EXCEPT ![r] = u]
  BY DEF Become
<1>2. u \in Tasks /\ LoopsOver(task[r], u, pc)
  BY LoopOverConnections DEF TypeOK
<1> QED
  BY <1>1, <1>2, BecomesOne

LEMMA GoesOnUpdated ==
    ASSUME TypeOK, NEW r \in Requests, Become(r, Updated(task[r]))
    PROVE  Others(r) /\ task'[r] \in Tasks /\ GoesOn(task[r], task'[r])
<1>1. PICK u \in Updated(task[r]) : task' = [task EXCEPT ![r] = u]
  BY DEF Become
<1>2. u \in Tasks /\ GoesOn(task[r], u)
  BY LoopAfterUpdate DEF TypeOK
<1> QED
  BY <1>1, <1>2, BecomesOne

LEMMA InitiateStep ==
    ASSUME TypeOK, HandlersFit, SyncsFit, RowsFit, NEW r \in Requests,
           NEW c \in Connections, NEW auto \in BOOLEAN, Initiate(r, c, auto)
    PROVE  /\ Others(r) /\ task'[r] \in Tasks /\ failed' \subseteq Operations \union {"run"}
           /\ task[r] = Idle
           /\ failed' = failed
           /\ Still
           /\ c \in connected /\ config # NoFrequency
           /\ task'[r].op = "create" /\ task'[r].pc = "createSync" /\ task'[r].sync = NoSync
           /\ task'[r].conn = {c} /\ task'[r].conns = {} /\ task'[r].todo = {}
                 /\ task'[r].then = "idle"
           /\ task'[r].freq = config
<1> DEFINE u == [Idle EXCEPT !.op = "create", !.pc = "createSync", !.conn = {c},
                         !.freq = config, !.auto = auto]
<1>1. task[r] = Idle /\ failed' = failed /\ Still /\ begun' = begun + 1
         /\ task' = [task EXCEPT ![r] = u]
  BY DEF Initiate, Begin, Become, Still, Deletion, syncVars, jobVars, temporalVars,
     scheduleVars, envVars
<1>2. u \in Tasks
  <2>1. config \in Frequencies \union {NoFrequency} /\ {c} \in SUBSET Connections
    BY DEF TypeOK
  <2> QED
    BY <2>1, IdleIsTask DEF Tasks, Operations, Locations, Idle
<1>3. Others(r) /\ task'[r] = u
  BY <1>1, BecomesOne
<1> QED
  BY <1>1, <1>2, <1>3 DEF Initiate, Begin, Idle, TypeOK

LEMMA DeleteConnectionStep ==
    ASSUME TypeOK, HandlersFit, SyncsFit, RowsFit, NEW r \in Requests,
           NEW c \in Connections, DeleteConnection(r, c)
    PROVE  /\ Others(r) /\ task'[r] \in Tasks /\ failed' \subseteq Operations \union {"run"}
           /\ task[r] = Idle
           /\ failed' = failed
           /\ Still
           /\ task'[r].op = "delete" /\ task'[r].then = "dropConnection"
                 /\ task'[r].freq = NoFrequency
           /\ task'[r].conn = {c} /\ task'[r].conns = {}
           /\ \/ SyncsOf({c}) = {} /\ task'[r].pc = "dropConnection"
                    /\ task'[r].sync = NoSync /\ task'[r].todo = {}
              \/ /\ task'[r].pc = "getSchedule" /\ task'[r].sync \in SyncsOf({c})
                 /\ task'[r].todo = SyncsOf({c}) \ {task'[r].sync}
           /\ c \in connected
<1> DEFINE t == [Idle EXCEPT !.op = "delete", !.conn = {c}, !.todo = SyncsOf({c}),
                         !.then = "dropConnection"]
<1>1. t \in Tasks
  <2>1. SyncsOf({c}) \in SUBSET Syncs /\ {c} \in SUBSET Connections
    BY DEF SyncsOf
  <2> QED
    BY <2>1, IdleIsTask DEF Tasks, Operations, Idle
<1>2. PICK u \in NextSync(t, "getSchedule") : task' = [task EXCEPT ![r] = u]
  BY DEF DeleteConnection, Begin, Become, Deletion
<1>3. task[r] = Idle /\ failed' = failed /\ Still
  BY DEF DeleteConnection, Begin, Still, syncVars, jobVars, temporalVars, scheduleVars, envVars
<1>4. u \in Tasks /\ Loops(t, u, "getSchedule")
  BY <1>1, <1>2, LoopOverSyncs DEF Locations
<1>5. Others(r) /\ task'[r] = u
  BY <1>2, BecomesOne
<1> HIDE DEF t
<1>6. /\ t.op = "delete" /\ t.then = "dropConnection" /\ t.freq = NoFrequency
            /\ t.todo = SyncsOf({c})
      /\ t.conn = {c} /\ t.conns = {}
  BY DEF t, Idle
<1> QED
  BY <1>3, <1>4, <1>5, <1>6 DEF DeleteConnection, Loops, Same, Alike, TypeOK

LEMMA DeleteFlowStep ==
    ASSUME TypeOK, HandlersFit, SyncsFit, RowsFit, NEW r \in Requests, DeleteFlow(r)
    PROVE  /\ Others(r) /\ task'[r] \in Tasks /\ failed' \subseteq Operations \union {"run"}
           /\ task[r] = Idle
           /\ failed' = failed
           /\ Still
           /\ task'[r].op = "delete" /\ task'[r].then = "dropConfig"
                 /\ task'[r].freq = NoFrequency
           /\ task'[r].conn = {} /\ task'[r].conns = {}
           /\ \/ SyncsOf(connected) = {} /\ task'[r].pc = "dropConfig"
                    /\ task'[r].sync = NoSync /\ task'[r].todo = {}
              \/ /\ task'[r].pc = "getSchedule" /\ task'[r].sync \in SyncsOf(connected)
                 /\ task'[r].todo = SyncsOf(connected) \ {task'[r].sync}
<1> DEFINE t == [Idle EXCEPT !.op = "delete", !.todo = SyncsOf(connected), !.then = "dropConfig"]
<1>1. t \in Tasks
  BY IdleIsTask DEF Tasks, TypeOK, Operations, Locations, Creating, Idle, SyncsOf
<1>2. PICK u \in NextSync(t, "getSchedule") : task' = [task EXCEPT ![r] = u]
  BY DEF DeleteFlow, Begin, Become, Deletion
<1>3. task[r] = Idle /\ failed' = failed /\ Still
  BY DEF DeleteFlow, Begin, Still, syncVars, jobVars, temporalVars, scheduleVars, envVars
<1>4. u \in Tasks /\ Loops(t, u, "getSchedule")
  BY <1>1, <1>2, LoopOverSyncs DEF Locations
<1>5. Others(r) /\ task'[r] = u
  BY <1>2, BecomesOne
<1> HIDE DEF t
<1>6. /\ t.op = "delete" /\ t.then = "dropConfig" /\ t.freq = NoFrequency
            /\ t.todo = SyncsOf(connected)
      /\ t.conn = {} /\ t.conns = {}
  BY DEF t, Idle
<1> QED
  BY <1>3, <1>4, <1>5, <1>6 DEF DeleteFlow, Loops, Same, Alike, TypeOK

LEMMA ReconcileDeletionStep ==
    ASSUME TypeOK, HandlersFit, SyncsFit, RowsFit, NEW r \in Requests, ReconcileDeletion(r)
    PROVE  /\ Others(r) /\ task'[r] \in Tasks /\ failed' \subseteq Operations \union {"run"}
           /\ task[r] = Idle
           /\ failed' = failed
           /\ Still
           /\ config # NoFrequency
           /\ task'[r].op = "delete" /\ task'[r].pc = "dropFlow" /\ task'[r].sync = NoSync
           /\ task'[r].conn = {} /\ task'[r].conns = connected /\ task'[r].todo = {}
                 /\ task'[r].then = "findSync"
<1> DEFINE u == [Idle EXCEPT !.op = "delete", !.pc = "dropFlow", !.conns = connected, !.then = "findSync"]
<1>1. task[r] = Idle /\ failed' = failed /\ Still /\ begun' = begun + 1
         /\ task' = [task EXCEPT ![r] = u]
  BY DEF ReconcileDeletion, Begin, Become, Still, Deletion, syncVars, jobVars, temporalVars,
     scheduleVars, envVars
<1>2. u \in Tasks
  BY IdleIsTask DEF Tasks, TypeOK, Operations, Locations, Creating, Idle
<1>3. Others(r) /\ task'[r] = u
  BY <1>1, BecomesOne
<1> QED
  BY <1>1, <1>2, <1>3 DEF ReconcileDeletion, Begin, Idle, TypeOK

LEMMA CommandStep ==
    ASSUME TypeOK, HandlersFit, SyncsFit, RowsFit, NEW r \in Requests,
           NEW command \in {"pause", "unpause"}, NEW syncs \in SUBSET SyncsOf(connected),
           Command(r, command, syncs)
    PROVE  /\ Others(r) /\ task'[r] \in Tasks /\ failed' \subseteq Operations \union {"run"}
           /\ task[r] = Idle
           /\ failed' = failed
           /\ Still
           /\ task'[r].op = command /\ task'[r].pc = "readSchedule" /\ task'[r].then = "idle"
           /\ task'[r].conn = {} /\ task'[r].conns = {}
           /\ task'[r].sync \in syncs /\ task'[r].todo = syncs \ {task'[r].sync}
<1> DEFINE t == [Idle EXCEPT !.op = command, !.todo = syncs]
<1>1. t \in Tasks
  BY IdleIsTask DEF Tasks, TypeOK, Operations, Locations, Creating, Idle, SyncsOf
<1>2. PICK u \in NextSync(t, "readSchedule") : task' = [task EXCEPT ![r] = u]
  BY DEF Command, Begin, Become, Deletion
<1>3. task[r] = Idle /\ failed' = failed /\ Still
  BY DEF Command, Begin, Still, syncVars, jobVars, temporalVars, scheduleVars, envVars
<1>4. u \in Tasks /\ Loops(t, u, "readSchedule")
  BY <1>1, <1>2, LoopOverSyncs DEF Locations
<1>5. Others(r) /\ task'[r] = u
  BY <1>2, BecomesOne
<1> HIDE DEF t
<1>6. /\ t.op = command /\ t.then = "idle" /\ t.freq = NoFrequency /\ t.todo = syncs
      /\ t.conn = {} /\ t.conns = {}
  BY DEF t, Idle
<1> QED
  BY <1>3, <1>4, <1>5, <1>6 DEF Command, Loops, Same, Alike, TypeOK

LEMMA CommandByIdStep ==
    ASSUME TypeOK, HandlersFit, SyncsFit, RowsFit, NEW r \in Requests,
           NEW command \in {"pause", "unpause"}, NEW s \in Syncs, CommandById(r, command, s)
    PROVE  /\ Others(r) /\ task'[r] \in Tasks /\ failed' \subseteq Operations \union {"run"}
           /\ task[r] = Idle
           /\ failed' = failed
           /\ Still
           /\ Scheduled(s)
           /\ task'[r].op = command /\ task'[r].pc = command /\ task'[r].sync = s
                 /\ task'[r].then = "idle"
           /\ task'[r].conn = {} /\ task'[r].conns = {} /\ task'[r].todo = {}
<1> DEFINE u == [Idle EXCEPT !.op = command, !.pc = command, !.sync = s]
<1>1. task[r] = Idle /\ failed' = failed /\ Still /\ begun' = begun + 1
         /\ task' = [task EXCEPT ![r] = u]
  BY DEF CommandById, Begin, Become, Still, Deletion, syncVars, jobVars, temporalVars,
     scheduleVars, envVars
<1>2. u \in Tasks
  BY IdleIsTask DEF Tasks, TypeOK, Operations, Locations, Creating, Idle
<1>3. Others(r) /\ task'[r] = u
  BY <1>1, BecomesOne
<1> QED
  BY <1>1, <1>2, <1>3 DEF CommandById, Begin, Idle, TypeOK

LEMMA DeployStep ==
    ASSUME TypeOK, HandlersFit, SyncsFit, RowsFit, NEW r \in Requests,
           NEW f \in Frequencies, Deploy(r, f)
    PROVE  /\ Others(r) /\ task'[r] \in Tasks /\ failed' \subseteq Operations \union {"run"}
           /\ task[r] = Idle
           /\ failed' = failed \/ failed' = failed \union {"deploy"}
           /\ Still
           /\ task'[r].op = "deploy" /\ task'[r].then = "writeConfig" /\ task'[r].freq = f
           /\ task'[r].conn = {} /\ task'[r].conns = {}
           /\ \/ /\ config = NoFrequency \/ SyncsOf(connected) = {} \/ "deploy" \in failed'
                 /\ task'[r].pc = "writeConfig" /\ task'[r].sync = NoSync
                 /\ task'[r].todo = {}
              \/ /\ config # NoFrequency
                 /\ task'[r].pc = "compare" /\ task'[r].sync \in SyncsOf(connected)
                 /\ task'[r].todo = SyncsOf(connected) \ {task'[r].sync}
<1> DEFINE t(found) == [Idle EXCEPT !.op = "deploy", !.freq = f, !.then = "writeConfig",
                         !.todo = IF found /\ config # NoFrequency
                                  THEN SyncsOf(connected) ELSE {}]
<1>1. \A found \in BOOLEAN : t(found) \in Tasks
  BY ZenonT(60), IdleIsTask DEF Tasks, TypeOK, Operations, Locations, Creating, Idle, SyncsOf
<1>2. PICK found \in BOOLEAN :
        /\ Begin(r, NextSync(t(found), "compare"))
        /\ failed' = IF found THEN failed ELSE failed \union {"deploy"}
        /\ UNCHANGED <<syncVars, jobVars, temporalVars, scheduleVars, envVars>>
  BY DEF Deploy
<1>3. PICK u \in NextSync(t(found), "compare") : task' = [task EXCEPT ![r] = u]
  BY <1>2 DEF Begin, Become
<1>4. task[r] = Idle /\ Still
  BY <1>2 DEF Begin, Still, syncVars, jobVars, temporalVars, scheduleVars, envVars
<1>5. u \in Tasks /\ Loops(t(found), u, "compare")
  BY <1>1, <1>3, LoopOverSyncs DEF Locations
<1>6. Others(r) /\ task'[r] = u
  BY <1>3, BecomesOne
<1> HIDE DEF t
<1>7. /\ t(found).op = "deploy" /\ t(found).then = "writeConfig" /\ t(found).freq = f
      /\ t(found).todo = IF found /\ config # NoFrequency THEN SyncsOf(connected) ELSE {}
      /\ t(found).conn = {} /\ t(found).conns = {}
  BY DEF t, Idle
<1> QED
  BY <1>2, <1>4, <1>5, <1>6, <1>7 DEF Loops, Same, Alike, TypeOK, Operations

LEMMA ListSchedulesStep ==
    ASSUME TypeOK, HandlersFit, SyncsFit, RowsFit, NEW r \in Requests, ListSchedules(r)
    PROVE  /\ Others(r) /\ task'[r] \in Tasks /\ failed' \subseteq Operations \union {"run"}
           /\ task[r] = Idle
           /\ failed' = failed
           /\ Still
           /\ \A s \in Syncs : ~ Exists(s)
           /\ task'[r].op = "list" /\ task'[r].pc = "markStopped" /\ task'[r].sync = NoSync
           /\ task'[r].conn = {} /\ task'[r].conns = {} /\ task'[r].todo = {}
                 /\ task'[r].then = "idle"
<1> DEFINE u == [Idle EXCEPT !.op = "list", !.pc = "markStopped"]
<1>1. task[r] = Idle /\ failed' = failed /\ Still /\ begun' = begun + 1
         /\ task' = [task EXCEPT ![r] = u]
  BY DEF ListSchedules, Begin, Become, Still, Deletion, syncVars, jobVars, temporalVars,
     scheduleVars, envVars
<1>2. u \in Tasks
  BY IdleIsTask DEF Tasks, TypeOK, Operations, Locations, Creating, Idle
<1>3. Others(r) /\ task'[r] = u
  BY <1>1, BecomesOne
<1> QED
  BY <1>1, <1>2, <1>3 DEF ListSchedules, Begin, Idle, TypeOK

LEMMA LookStep ==
    ASSUME TypeOK, HandlersFit, SyncsFit, RowsFit, NEW r \in Requests, Look(r)
    PROVE  /\ Others(r) /\ task'[r] \in Tasks /\ failed' \subseteq Operations \union {"run"}
           /\ task[r].pc = "look"
           /\ failed' = failed
           /\ Still
           /\ \/ SyncsOf(task[r].conn) # {} /\ LoopsOver(task[r], task'[r], "look")
              \/ PcOnly(task[r], task'[r]) /\ task'[r].pc = "createSync"
<1>1. task[r] \in Tasks /\ failed' = failed /\ Still /\ task[r].pc = "look"
  BY DEF Look, At, Still, TypeOK, syncVars, jobVars, temporalVars, scheduleVars, envVars
<1>2. CASE SyncsOf(task[r].conn) # {}
  <2>1. Become(r, NextConnection(task[r], "look"))
    BY <1>2 DEF Look
  <2> QED
    BY <1>1, <1>2, <2>1, GoesOnConnections DEF TypeOK, Locations
<1>3. CASE SyncsOf(task[r].conn) = {}
  <2>1. Goto(r, "look", "createSync")
    BY <1>3 DEF Look, Goto, Become
  <2> QED
    BY <1>1, <2>1, GoesTo DEF TypeOK, Locations
<1> QED
  BY <1>2, <1>3

LEMMA FindExistingStep ==
    ASSUME TypeOK, HandlersFit, SyncsFit, RowsFit, NEW r \in Requests, FindExisting(r)
    PROVE  /\ Others(r) /\ task'[r] \in Tasks /\ failed' \subseteq Operations \union {"run"}
           /\ task[r].pc = "createSync"
           /\ failed' = failed
           /\ Still
           /\ \/ task'[r] = Idle
              \/ /\ SyncsOf(task[r].conn) = {} /\ PcOnly(task[r], task'[r])
                 /\ task'[r].pc = "insertSync"
<1>1. task[r] \in Tasks /\ failed' = failed /\ Still /\ task[r].pc = "createSync"
  BY DEF FindExisting, At, Still, TypeOK, syncVars, jobVars, temporalVars, scheduleVars, envVars
<1>2. CASE SyncsOf(task[r].conn) # {}
  <2>1. task' = [task EXCEPT ![r] = Idle]
    BY <1>2 DEF FindExisting, Become
  <2> QED
    BY ZenonT(60), <1>1, <2>1, BecomesOne, IdleIsTask DEF TypeOK
<1>3. CASE SyncsOf(task[r].conn) = {}
  <2>1. Goto(r, "createSync", "insertSync")
    BY <1>3 DEF FindExisting, Goto, Become
  <2> QED
    BY <1>1, <1>3, <2>1, GoesTo DEF TypeOK, Locations
<1> QED
  BY <1>2, <1>3

LEMMA InsertSyncStep ==
    ASSUME TypeOK, HandlersFit, SyncsFit, RowsFit, NEW r \in Requests, NEW i \in Syncs,
           InsertSync(r, i)
    PROVE  /\ Others(r) /\ task'[r] \in Tasks /\ failed' \subseteq Operations \union {"run"}
           /\ task[r].pc = "insertSync"
           /\ failed' = failed
           /\ row[i] = "none"
           /\ row' = [s \in Syncs |-> IF s = i THEN "live" ELSE row[s]]
           /\ owner' = [s \in Syncs |-> IF s = i THEN task[r].conn ELSE owner[s]]
           /\ UNCHANGED <<job, workflow, sched, every, status, frequency, config, connected>>
           /\ Same(task[r], task'[r]) /\ task'[r].freq = task[r].freq
           /\ task'[r].pc = "insertJob" /\ task'[r].sync = i
<1> DEFINE u == [task[r] EXCEPT !.pc = "insertJob", !.sync = i]
<1>1. /\ task' = [task EXCEPT ![r] = u] /\ row' = [row EXCEPT ![i] = "live"]
      /\ owner' = [owner EXCEPT ![i] = task[r].conn]
      /\ task[r].pc = "insertSync" /\ row[i] = "none" /\ failed' = failed
      /\ UNCHANGED <<job, workflow, sched, every, status, frequency, config, connected>>
  BY DEF InsertSync, At, Become, syncVars, jobVars, temporalVars, scheduleVars, envVars
<1>2. u \in Tasks /\ task[r] \in Tasks
  <2>1. task[r] \in Tasks /\ i \in Syncs \union {NoSync} /\ "insertJob" \in Locations
    BY DEF TypeOK, Locations, Creating
  <2> QED
    BY <2>1 DEF Tasks
<1>3. Others(r) /\ task'[r] = u
  BY <1>1, BecomesOne
<1>4. Same(task[r], u) /\ u.freq = task[r].freq /\ u.pc = "insertJob" /\ u.sync = i
  BY <1>2 DEF Same, Alike, Tasks
<1>5. /\ row' = [s \in Syncs |-> IF s = i THEN "live" ELSE row[s]]
      /\ owner' = [s \in Syncs |-> IF s = i THEN task[r].conn ELSE owner[s]]
  BY <1>1 DEF TypeOK
<1> QED
  BY ZenonT(60), <1>1, <1>2, <1>3, <1>4, <1>5 DEF TypeOK

LEMMA InsertJobStep ==
    ASSUME TypeOK, HandlersFit, SyncsFit, RowsFit, NEW r \in Requests, InsertJob(r)
    PROVE  /\ Others(r) /\ task'[r] \in Tasks /\ failed' \subseteq Operations \union {"run"}
           /\ task[r].pc = "insertJob"
           /\ PcOnly(task[r], task'[r])
           /\ task'[r].pc = (IF task[r].auto THEN "startWorkflow" ELSE "createSchedule")
           /\ failed' = failed
           /\ job' = [s \in Syncs |->
                       IF s = task[r].sync THEN (IF task[r].auto THEN "RUNNING"
                          ELSE "PAUSED") ELSE job[s]]
           /\ UNCHANGED <<row, owner, workflow, sched, every, status, frequency, config, connected>>
<1> DEFINE to == IF task[r].auto THEN "startWorkflow" ELSE "createSchedule"
<1>0. to \in Locations /\ Goto(r, "insertJob", to)
  BY DEF InsertJob, Goto, Become, At, Locations, Creating
<1> HIDE DEF to
<1>1. /\ Others(r) /\ task'[r] \in Tasks /\ PcOnly(task[r], task'[r])
      /\ task[r].pc = "insertJob" /\ task'[r].pc = to
  BY <1>0, GoesTo
<1>2. /\ failed' = failed
      /\ job' = [s \in Syncs |->
                  IF s = task[r].sync THEN (IF task[r].auto THEN "RUNNING" ELSE "PAUSED")
                     ELSE job[s]]
      /\ UNCHANGED <<row, owner, workflow, sched, every, status, frequency, config, connected>>
      /\ failed' \subseteq Operations \union {"run"}
  BY ZenonT(60), <1>1 DEF InsertJob, TypeOK, Tasks, Still, Fails, syncVars, jobVars,
     temporalVars,
     scheduleVars, envVars
<1> QED
  BY <1>1, <1>2 DEF to

LEMMA InsertJobFailsStep ==
    ASSUME TypeOK, HandlersFit, SyncsFit, RowsFit, NEW r \in Requests, InsertJobFails(r)
    PROVE  /\ Others(r) /\ task'[r] \in Tasks /\ failed' \subseteq Operations \union {"run"}
           /\ task[r].pc = "insertJob"
           /\ PcOnly(task[r], task'[r])
           /\ task'[r].pc = "createSchedule"
           /\ ~ task[r].auto
           /\ failed' = failed \union {task[r].op}
           /\ Still
<1>1. /\ Others(r) /\ task'[r] \in Tasks /\ PcOnly(task[r], task'[r])
      /\ task[r].pc = "insertJob" /\ task'[r].pc = "createSchedule"
  BY GoesTo DEF InsertJobFails, Locations, Creating
<1>2. /\ ~ task[r].auto
      /\ failed' = failed \union {task[r].op}
      /\ Still
      /\ failed' \subseteq Operations \union {"run"}
  BY <1>1 DEF InsertJobFails, TypeOK, Tasks, Still, Fails, syncVars, jobVars, temporalVars,
     scheduleVars, envVars
<1> QED
  BY <1>1, <1>2

LEMMA StartWorkflowStep ==
    ASSUME TypeOK, HandlersFit, SyncsFit, RowsFit, NEW r \in Requests, StartWorkflow(r)
    PROVE  /\ Others(r) /\ task'[r] \in Tasks /\ failed' \subseteq Operations \union {"run"}
           /\ task[r].pc = "startWorkflow"
           /\ PcOnly(task[r], task'[r])
           /\ task'[r].pc = "createSchedule"
           /\ failed' = failed
           /\ workflow'[task[r].sync] /\ \A s \in Syncs : workflow[s] => workflow'[s]
           /\ UNCHANGED <<row, owner, job, sched, every, status, frequency, config, connected>>
<1>1. /\ Others(r) /\ task'[r] \in Tasks /\ PcOnly(task[r], task'[r])
      /\ task[r].pc = "startWorkflow" /\ task'[r].pc = "createSchedule"
  BY GoesTo DEF StartWorkflow, Locations, Creating
<1>2. task[r].sync \in Syncs /\ task[r] \in Tasks
  BY <1>1 DEF SyncsFit, SyncFits, Inserted, Creating, TypeOK
<1>3. workflow' = [workflow EXCEPT ![task[r].sync] = TRUE]
  BY DEF StartWorkflow
<1>4. workflow'[task[r].sync] /\ \A s \in Syncs : workflow[s] => workflow'[s]
  BY <1>2, <1>3 DEF TypeOK
<1>5. /\ failed' = failed /\ failed' \subseteq Operations \union {"run"}
      /\ UNCHANGED <<row, owner, job, sched, every, status, frequency, config, connected>>
  BY DEF StartWorkflow, TypeOK, syncVars, jobVars, temporalVars, scheduleVars, envVars
<1> QED
  BY <1>1, <1>4, <1>5

LEMMA CreateScheduleStep ==
    ASSUME TypeOK, HandlersFit, SyncsFit, RowsFit, NEW r \in Requests, CreateSchedule(r)
    PROVE  /\ Others(r) /\ task'[r] \in Tasks /\ failed' \subseteq Operations \union {"run"}
           /\ task[r].pc = "createSchedule"
           /\ PcOnly(task[r], task'[r])
           /\ task'[r].pc = (IF task[r].auto THEN "insertSchedule" ELSE "pauseSchedule")
           /\ failed' = failed
           /\ sched' = [s \in Syncs |-> IF s = task[r].sync THEN "running" ELSE sched[s]]
           /\ every' = [s \in Syncs |-> IF s = task[r].sync THEN task[r].freq ELSE every[s]]
           /\ UNCHANGED <<row, owner, job, workflow, status, frequency, config, connected>>
<1>1. /\ Others(r) /\ task'[r] \in Tasks /\ PcOnly(task[r], task'[r])
      /\ task[r].pc = "createSchedule"
            /\ task'[r].pc = (IF task[r].auto THEN "insertSchedule" ELSE "pauseSchedule")
  BY GoesTo DEF CreateSchedule, Locations, Creating
<1>2. /\ failed' = failed
      /\ sched' = [s \in Syncs |-> IF s = task[r].sync THEN "running" ELSE sched[s]]
      /\ every' = [s \in Syncs |-> IF s = task[r].sync THEN task[r].freq ELSE every[s]]
      /\ UNCHANGED <<row, owner, job, workflow, status, frequency, config, connected>>
      /\ failed' \subseteq Operations \union {"run"}
  BY ZenonT(60), <1>1 DEF CreateSchedule, TypeOK, Tasks, Still, Fails, syncVars, jobVars,
     temporalVars,
     scheduleVars, envVars
<1> QED
  BY <1>1, <1>2

LEMMA PauseScheduleStep ==
    ASSUME TypeOK, HandlersFit, SyncsFit, RowsFit, NEW r \in Requests, PauseSchedule(r)
    PROVE  /\ Others(r) /\ task'[r] \in Tasks /\ failed' \subseteq Operations \union {"run"}
           /\ task[r].pc = "pauseSchedule"
           /\ PcOnly(task[r], task'[r])
           /\ task'[r].pc = "insertSchedule"
           /\ failed' = failed
           /\ sched' = [s \in Syncs |-> IF s = task[r].sync THEN "paused" ELSE sched[s]]
           /\ UNCHANGED <<row, owner, job, workflow, every, status, frequency, config, connected>>
<1>1. /\ Others(r) /\ task'[r] \in Tasks /\ PcOnly(task[r], task'[r])
      /\ task[r].pc = "pauseSchedule" /\ task'[r].pc = "insertSchedule"
  BY GoesTo DEF PauseSchedule, Locations, Creating
<1>2. /\ failed' = failed
      /\ sched' = [s \in Syncs |-> IF s = task[r].sync THEN "paused" ELSE sched[s]]
      /\ UNCHANGED <<row, owner, job, workflow, every, status, frequency, config, connected>>
      /\ failed' \subseteq Operations \union {"run"}
  BY <1>1 DEF PauseSchedule, TypeOK, Tasks, Still, Fails, syncVars, jobVars, temporalVars,
     scheduleVars, envVars
<1> QED
  BY <1>1, <1>2

LEMMA InsertScheduleStep ==
    ASSUME TypeOK, HandlersFit, SyncsFit, RowsFit, NEW r \in Requests, InsertSchedule(r)
    PROVE  /\ Others(r) /\ task'[r] \in Tasks /\ failed' \subseteq Operations \union {"run"}
           /\ task[r].pc = "insertSchedule"
           /\ failed' = failed
           /\ status' = [s \in Syncs |->
                          IF s = task[r].sync THEN (IF task[r].auto THEN "RUNNING"
                             ELSE "PAUSED") ELSE status[s]]
           /\ frequency' = [s \in Syncs |->
                             IF s = task[r].sync THEN task[r].freq ELSE frequency[s]]
           /\ UNCHANGED <<row, owner, job, workflow, sched, every, config, connected>>
           /\ LoopsOver(task[r], task'[r], "look")
<1>1. /\ Others(r) /\ task'[r] \in Tasks
      /\ LoopsOver(task[r], task'[r], "look")
  BY GoesOnConnections DEF InsertSchedule, Locations
<1>2. /\ task[r].pc = "insertSchedule"
      /\ failed' = failed
      /\ status' = [s \in Syncs |->
                     IF s = task[r].sync THEN (IF task[r].auto THEN "RUNNING"
                        ELSE "PAUSED") ELSE status[s]]
      /\ frequency' = [s \in Syncs |-> IF s = task[r].sync THEN task[r].freq ELSE frequency[s]]
      /\ UNCHANGED <<row, owner, job, workflow, sched, every, config, connected>>
      /\ failed' \subseteq Operations \union {"run"}
  BY DEF InsertSchedule, At, TypeOK, Tasks, Still, Fails, syncVars, jobVars, temporalVars,
     scheduleVars, envVars
<1> QED
  BY <1>1, <1>2

LEMMA StartFailsStep ==
    ASSUME TypeOK, HandlersFit, SyncsFit, RowsFit, NEW r \in Requests, StartFails(r)
    PROVE  /\ Others(r) /\ task'[r] \in Tasks /\ failed' \subseteq Operations \union {"run"}
           /\ task[r].pc \in Creating
           /\ failed' = failed \union {task[r].op}
           /\ Still
           /\ LoopsOver(task[r], task'[r], "look")
<1>1. /\ Others(r) /\ task'[r] \in Tasks
      /\ LoopsOver(task[r], task'[r], "look")
  BY GoesOnConnections DEF StartFails, Locations
<1>2. /\ task[r].pc \in Creating
      /\ failed' = failed \union {task[r].op}
      /\ Still
      /\ failed' \subseteq Operations \union {"run"}
  BY DEF StartFails, At, TypeOK, Tasks, Still, Fails, syncVars, jobVars, temporalVars,
     scheduleVars, envVars
<1> QED
  BY <1>1, <1>2

LEMMA DropFlowStep ==
    ASSUME TypeOK, HandlersFit, SyncsFit, RowsFit, NEW r \in Requests, DropFlow(r)
    PROVE  /\ Others(r) /\ task'[r] \in Tasks /\ failed' \subseteq Operations \union {"run"}
           /\ task[r].pc = "dropFlow"
           /\ PcOnly(task[r], task'[r])
           /\ task'[r].pc = "findSync"
           /\ failed' = failed
           /\ config' = NoFrequency
           /\ UNCHANGED <<row, owner, job, workflow, sched, every, status, frequency, connected>>
<1>1. /\ Others(r) /\ task'[r] \in Tasks /\ PcOnly(task[r], task'[r])
      /\ task[r].pc = "dropFlow" /\ task'[r].pc = "findSync"
  BY GoesTo DEF DropFlow, Locations, Creating
<1>2. /\ failed' = failed
      /\ config' = NoFrequency
      /\ UNCHANGED <<row, owner, job, workflow, sched, every, status, frequency, connected>>
      /\ failed' \subseteq Operations \union {"run"}
  BY <1>1 DEF DropFlow, TypeOK, Tasks, Still, Fails, syncVars, jobVars, temporalVars,
     scheduleVars, envVars
<1> QED
  BY <1>1, <1>2

LEMMA FindSyncStep ==
    ASSUME TypeOK, HandlersFit, SyncsFit, RowsFit, NEW r \in Requests, FindSync(r)
    PROVE  /\ Others(r) /\ task'[r] \in Tasks /\ failed' \subseteq Operations \union {"run"}
           /\ task[r].pc = "findSync"
           /\ failed' = failed
           /\ Still
           /\ \/ task'[r] = Idle /\ task[r].conns = {}
              \/ \E c \in task[r].conns :
                    /\ Alike(task[r], task'[r]) /\ task'[r].todo = task[r].todo
                    /\ task'[r].conn = {c} /\ task'[r].conns = task[r].conns \ {c}
                    /\ \/ SyncsOf({c}) = {} /\ task'[r].pc = "findSync"
                             /\ task'[r].sync = NoSync
                       \/ task'[r].pc = "getSchedule" /\ task'[r].sync \in SyncsOf({c})
<1>1. task[r] \in Tasks /\ failed' = failed /\ Still /\ task[r].pc = "findSync"
  BY DEF FindSync, At, Still, TypeOK, syncVars, jobVars, temporalVars, scheduleVars, envVars
<1> DEFINE next == NextConnection(task[r], "findSync")
<1>2. PICK u : /\ task' = [task EXCEPT ![r] = u]
               /\ \E t \in next : \/ u = t /\ SyncsOf(t.conn) = {}
                                 \/ \E s \in SyncsOf(t.conn) : u = [t EXCEPT !.pc = "getSchedule", !.sync = s]
  <2>1. PICK u \in {t \in next : SyncsOf(t.conn) = {}}
                  \union UNION {{[t EXCEPT !.pc = "getSchedule", !.sync = s] : s \in SyncsOf(t.conn)}
                               : t \in next} : task' = [task EXCEPT ![r] = u]
    BY DEF FindSync, Become
  <2>2. CASE u \in {t \in next : SyncsOf(t.conn) = {}}
    BY <2>1, <2>2
  <2>3. CASE u \in UNION {{[t EXCEPT !.pc = "getSchedule", !.sync = s] : s \in SyncsOf(t.conn)}
                         : t \in next}
    <3>1. PICK t \in next : u \in {[t EXCEPT !.pc = "getSchedule", !.sync = s] : s \in SyncsOf(t.conn)}
      BY <2>3
    <3>2. PICK s \in SyncsOf(t.conn) : u = [t EXCEPT !.pc = "getSchedule", !.sync = s]
      BY <3>1
    <3> QED
      BY <2>1, <3>2
  <2> QED
    BY <2>1, <2>2, <2>3
<1> HIDE DEF next
<1>3. PICK t \in next : \/ u = t /\ SyncsOf(t.conn) = {}
                       \/ \E s \in SyncsOf(t.conn) : u = [t EXCEPT !.pc = "getSchedule", !.sync = s]
  BY <1>2
<1>4. t \in Tasks /\ LoopsOver(task[r], t, "findSync")
  BY <1>1, LoopOverConnections DEF Locations, next
<1>5. Others(r) /\ task'[r] = u
  BY <1>2, BecomesOne
<1>6. CASE t = Idle /\ task[r].conns = {}
  <2>1. SyncsOf(t.conn) \subseteq {s \in Syncs : Live(s) /\ owner[s] = {}}
    BY <1>6 DEF Idle, SyncsOf
  <2>2. SyncsOf(t.conn) = {}
    BY <2>1 DEF RowsFit, Inserted, Live, One
  <2> QED
    BY <1>1, <1>3, <1>4, <1>5, <1>6, <2>2 DEF TypeOK
<1>7. CASE ~ (t = Idle /\ task[r].conns = {})
  <2>1. PICK c \in task[r].conns :
           /\ Alike(task[r], t) /\ t.todo = task[r].todo
           /\ t.pc = "findSync" /\ t.sync = NoSync /\ t.conn = {c}
                 /\ t.conns = task[r].conns \ {c}
    BY <1>4, <1>7 DEF LoopsOver
  <2>2. ASSUME u = t, SyncsOf(t.conn) = {}
        PROVE  /\ task'[r] \in Tasks /\ Alike(task[r], task'[r]) /\ task'[r].todo = task[r].todo
               /\ task'[r].conn = {c} /\ task'[r].conns = task[r].conns \ {c}
               /\ SyncsOf({c}) = {} /\ task'[r].pc = "findSync" /\ task'[r].sync = NoSync
    BY <1>4, <1>5, <2>1, <2>2
  <2>3. ASSUME NEW s \in SyncsOf(t.conn), u = [t EXCEPT !.pc = "getSchedule", !.sync = s]
        PROVE  /\ task'[r] \in Tasks /\ Alike(task[r], task'[r]) /\ task'[r].todo = task[r].todo
               /\ task'[r].conn = {c} /\ task'[r].conns = task[r].conns \ {c}
               /\ task'[r].pc = "getSchedule" /\ task'[r].sync \in SyncsOf({c})
    <3>1. s \in Syncs /\ "getSchedule" \in Locations
      BY DEF SyncsOf, Locations
    <3>2. u \in Tasks
      BY <1>4, <2>3, <3>1 DEF Tasks
    <3>3. /\ u.op = t.op /\ u.then = t.then /\ u.auto = t.auto /\ u.todo = t.todo
          /\ u.conn = t.conn /\ u.conns = t.conns /\ u.pc = "getSchedule" /\ u.sync = s
      BY <1>4, <2>3 DEF Tasks
    <3>4. s \in SyncsOf({c})
      BY <2>1
    <3> QED
      BY <1>5, <2>1, <3>2, <3>3, <3>4 DEF Alike
  <2> QED
    <3>1. /\ Others(r) /\ task'[r] \in Tasks /\ failed' \subseteq Operations \union {"run"}
          /\ task[r].pc = "findSync" /\ failed' = failed /\ Still
      BY <1>1, <1>3, <1>5, <2>2, <2>3 DEF TypeOK
    <3>2. /\ Alike(task[r], task'[r]) /\ task'[r].todo = task[r].todo
          /\ task'[r].conn = {c} /\ task'[r].conns = task[r].conns \ {c}
          /\ \/ SyncsOf({c}) = {} /\ task'[r].pc = "findSync" /\ task'[r].sync = NoSync
             \/ task'[r].pc = "getSchedule" /\ task'[r].sync \in SyncsOf({c})
      BY <1>3, <2>2, <2>3
    <3> QED
      BY <3>1, <3>2
<1> QED
  BY <1>6, <1>7

LEMMA GetScheduleStep ==
    ASSUME TypeOK, HandlersFit, SyncsFit, RowsFit, NEW r \in Requests, GetSchedule(r)
    PROVE  /\ Others(r) /\ task'[r] \in Tasks /\ failed' \subseteq Operations \union {"run"}
           /\ task[r].pc = "getSchedule"
           /\ PcOnly(task[r], task'[r])
           /\ task'[r].pc = (IF Scheduled(task[r].sync) THEN "dropSchedule" ELSE "dropSync")
           /\ failed' = failed
           /\ Still
<1>1. /\ Others(r) /\ task'[r] \in Tasks /\ PcOnly(task[r], task'[r])
      /\ task[r].pc = "getSchedule"
            /\ task'[r].pc = (IF Scheduled(task[r].sync) THEN "dropSchedule" ELSE "dropSync")
  BY GoesTo DEF GetSchedule, Locations, Creating
<1>2. /\ failed' = failed
      /\ Still
      /\ failed' \subseteq Operations \union {"run"}
  BY <1>1 DEF GetSchedule, TypeOK, Tasks, Still, Fails, syncVars, jobVars, temporalVars,
     scheduleVars, envVars
<1> QED
  BY <1>1, <1>2

LEMMA DropScheduleStep ==
    ASSUME TypeOK, HandlersFit, SyncsFit, RowsFit, NEW r \in Requests, DropSchedule(r)
    PROVE  /\ Others(r) /\ task'[r] \in Tasks /\ failed' \subseteq Operations \union {"run"}
           /\ task[r].pc = "dropSchedule"
           /\ PcOnly(task[r], task'[r])
           /\ task'[r].pc = "dropSync"
           /\ failed' = failed
           /\ sched' = [s \in Syncs |-> IF s = task[r].sync THEN "none" ELSE sched[s]]
           /\ UNCHANGED <<row, owner, job, workflow, every, status, frequency, config, connected>>
<1>1. /\ Others(r) /\ task'[r] \in Tasks /\ PcOnly(task[r], task'[r])
      /\ task[r].pc = "dropSchedule" /\ task'[r].pc = "dropSync"
  BY GoesTo DEF DropSchedule, Locations, Creating
<1>2. /\ failed' = failed
      /\ sched' = [s \in Syncs |-> IF s = task[r].sync THEN "none" ELSE sched[s]]
      /\ UNCHANGED <<row, owner, job, workflow, every, status, frequency, config, connected>>
      /\ failed' \subseteq Operations \union {"run"}
  BY <1>1 DEF DropSchedule, TypeOK, Tasks, Still, Fails, syncVars, jobVars, temporalVars,
     scheduleVars, envVars
<1> QED
  BY <1>1, <1>2

LEMMA DropSyncStep ==
    ASSUME TypeOK, HandlersFit, SyncsFit, RowsFit, NEW r \in Requests, DropSync(r)
    PROVE  /\ Others(r) /\ task'[r] \in Tasks /\ failed' \subseteq Operations \union {"run"}
           /\ task[r].pc = "dropSync"
           /\ PcOnly(task[r], task'[r])
           /\ task'[r].pc = "dropJobs"
           /\ failed' = failed
           /\ row' = [s \in Syncs |-> IF s = task[r].sync THEN "deleted" ELSE row[s]]
           /\ UNCHANGED <<owner, job, workflow, sched, every, status, frequency, config, connected>>
<1>1. /\ Others(r) /\ task'[r] \in Tasks /\ PcOnly(task[r], task'[r])
      /\ task[r].pc = "dropSync" /\ task'[r].pc = "dropJobs"
  BY GoesTo DEF DropSync, Locations, Creating
<1>2. /\ failed' = failed
      /\ row' = [s \in Syncs |-> IF s = task[r].sync THEN "deleted" ELSE row[s]]
      /\ UNCHANGED <<owner, job, workflow, sched, every, status, frequency, config, connected>>
      /\ failed' \subseteq Operations \union {"run"}
  BY <1>1 DEF DropSync, TypeOK, Tasks, Still, Fails, syncVars, jobVars, temporalVars,
     scheduleVars, envVars
<1> QED
  BY <1>1, <1>2

LEMMA DropJobsStep ==
    ASSUME TypeOK, HandlersFit, SyncsFit, RowsFit, NEW r \in Requests, DropJobs(r)
    PROVE  /\ Others(r) /\ task'[r] \in Tasks /\ failed' \subseteq Operations \union {"run"}
           /\ task[r].pc = "dropJobs"
           /\ PcOnly(task[r], task'[r])
           /\ task'[r].pc = "dropScheduleRow"
           /\ failed' = failed
           /\ job' = [s \in Syncs |->
                       IF s = task[r].sync THEN (IF job[task[r].sync] = "none" THEN "none"
                          ELSE "deleted") ELSE job[s]]
           /\ UNCHANGED <<row, owner, workflow, sched, every, status, frequency, config, connected>>
<1>1. /\ Others(r) /\ task'[r] \in Tasks /\ PcOnly(task[r], task'[r])
      /\ task[r].pc = "dropJobs" /\ task'[r].pc = "dropScheduleRow"
  BY GoesTo DEF DropJobs, Locations, Creating
<1>2. /\ failed' = failed
      /\ job' = [s \in Syncs |->
                  IF s = task[r].sync THEN (IF job[task[r].sync] = "none" THEN "none"
                     ELSE "deleted") ELSE job[s]]
      /\ UNCHANGED <<row, owner, workflow, sched, every, status, frequency, config, connected>>
      /\ failed' \subseteq Operations \union {"run"}
  BY <1>1 DEF DropJobs, TypeOK, Tasks, Still, Fails, syncVars, jobVars, temporalVars,
     scheduleVars, envVars
<1> QED
  BY <1>1, <1>2

LEMMA DropScheduleRowStep ==
    ASSUME TypeOK, HandlersFit, SyncsFit, RowsFit, NEW r \in Requests, DropScheduleRow(r)
    PROVE  /\ Others(r) /\ task'[r] \in Tasks /\ failed' \subseteq Operations \union {"run"}
           /\ task[r].pc = "dropScheduleRow"
           /\ failed' = failed
           /\ status' = [s \in Syncs |->
                          IF s = task[r].sync THEN (IF status[task[r].sync] = "none"
                             THEN "none" ELSE "deleted") ELSE status[s]]
           /\ UNCHANGED <<row, owner, job, workflow, sched, every, frequency, config, connected>>
           /\ Loops(task[r], task'[r], "getSchedule")
<1>1. /\ Others(r) /\ task'[r] \in Tasks
      /\ Loops(task[r], task'[r], "getSchedule")
  BY GoesOnSyncs DEF DropScheduleRow, Locations
<1>2. /\ task[r].pc = "dropScheduleRow"
      /\ failed' = failed
      /\ status' = [s \in Syncs |->
                     IF s = task[r].sync THEN (IF status[task[r].sync] = "none"
                        THEN "none" ELSE "deleted") ELSE status[s]]
      /\ UNCHANGED <<row, owner, job, workflow, sched, every, frequency, config, connected>>
      /\ failed' \subseteq Operations \union {"run"}
  BY DEF DropScheduleRow, At, TypeOK, Tasks, Still, Fails, syncVars, jobVars, temporalVars,
     scheduleVars, envVars
<1> QED
  BY <1>1, <1>2

LEMMA DropConnectionStep ==
    ASSUME TypeOK, HandlersFit, SyncsFit, RowsFit, NEW r \in Requests, DropConnection(r)
    PROVE  /\ Others(r) /\ task'[r] \in Tasks /\ failed' \subseteq Operations \union {"run"}
           /\ task[r].pc = "dropConnection"
           /\ failed' = failed
           /\ task'[r] = Idle
           /\ connected' = connected \ task[r].conn
           /\ UNCHANGED <<row, owner, job, workflow, sched, every, status, frequency, config>>
<1>1. /\ Others(r) /\ task'[r] \in Tasks
      /\ task'[r] = Idle
  BY Ends DEF DropConnection
<1>2. /\ task[r].pc = "dropConnection"
      /\ failed' = failed
      /\ connected' = connected \ task[r].conn
      /\ UNCHANGED <<row, owner, job, workflow, sched, every, status, frequency, config>>
      /\ failed' \subseteq Operations \union {"run"}
  BY DEF DropConnection, At, TypeOK, Tasks, Still, Fails, syncVars, jobVars, temporalVars,
     scheduleVars, envVars
<1> QED
  BY <1>1, <1>2

LEMMA DropConfigStep ==
    ASSUME TypeOK, HandlersFit, SyncsFit, RowsFit, NEW r \in Requests, DropConfig(r)
    PROVE  /\ Others(r) /\ task'[r] \in Tasks /\ failed' \subseteq Operations \union {"run"}
           /\ task[r].pc = "dropConfig"
           /\ failed' = failed
           /\ task'[r] = Idle
           /\ config' = NoFrequency
           /\ UNCHANGED <<row, owner, job, workflow, sched, every, status, frequency, connected>>
<1>1. /\ Others(r) /\ task'[r] \in Tasks
      /\ task'[r] = Idle
  BY Ends DEF DropConfig
<1>2. /\ task[r].pc = "dropConfig"
      /\ failed' = failed
      /\ config' = NoFrequency
      /\ UNCHANGED <<row, owner, job, workflow, sched, every, status, frequency, connected>>
      /\ failed' \subseteq Operations \union {"run"}
  BY DEF DropConfig, At, TypeOK, Tasks, Still, Fails, syncVars, jobVars, temporalVars,
     scheduleVars, envVars
<1> QED
  BY <1>1, <1>2

LEMMA ReadScheduleStep ==
    ASSUME TypeOK, HandlersFit, SyncsFit, RowsFit, NEW r \in Requests, ReadSchedule(r)
    PROVE  /\ Others(r) /\ task'[r] \in Tasks /\ failed' \subseteq Operations \union {"run"}
           /\ task[r].pc = "readSchedule"
           /\ failed' = failed
           /\ Still
           /\ \/ /\ Scheduled(task[r].sync) /\ PcOnly(task[r], task'[r])
                 /\ task'[r].pc = task[r].op
              \/ Loops(task[r], task'[r], "readSchedule")
<1>1. task[r] \in Tasks /\ failed' = failed /\ Still /\ task[r].pc = "readSchedule"
  BY DEF ReadSchedule, At, Still, TypeOK, syncVars, jobVars, temporalVars, scheduleVars, envVars
<1>2. CASE Scheduled(task[r].sync)
  <2>1. Goto(r, "readSchedule", task[r].op)
    BY <1>2 DEF ReadSchedule, Goto, Become
  <2>2. task[r].op \in Locations
    BY <1>1 DEF HandlersFit, OpFits, Locations
  <2> QED
    BY <1>1, <1>2, <2>1, <2>2, GoesTo DEF TypeOK
<1>3. CASE ~ Scheduled(task[r].sync)
  <2>1. Become(r, NextSync(task[r], "readSchedule"))
    BY <1>3 DEF ReadSchedule
  <2> QED
    BY <1>1, <2>1, GoesOnSyncs DEF TypeOK, Locations
<1> QED
  BY <1>2, <1>3

LEMMA PauseStep ==
    ASSUME TypeOK, HandlersFit, SyncsFit, RowsFit, NEW r \in Requests, Pause(r)
    PROVE  /\ Others(r) /\ task'[r] \in Tasks /\ failed' \subseteq Operations \union {"run"}
           /\ task[r].pc = "pause"
           /\ PcOnly(task[r], task'[r])
           /\ task'[r].pc = "setStatus"
           /\ failed' = failed
           /\ sched' = [s \in Syncs |->
                         IF s = task[r].sync THEN (IF Exists(task[r].sync) THEN "paused"
                            ELSE sched[task[r].sync]) ELSE sched[s]]
           /\ UNCHANGED <<row, owner, job, workflow, every, status, frequency, config, connected>>
<1>1. /\ Others(r) /\ task'[r] \in Tasks /\ PcOnly(task[r], task'[r])
      /\ task[r].pc = "pause" /\ task'[r].pc = "setStatus"
  BY GoesTo DEF Pause, Locations, Creating
<1>2. /\ failed' = failed
      /\ sched' = [s \in Syncs |->
                    IF s = task[r].sync THEN (IF Exists(task[r].sync) THEN "paused"
                       ELSE sched[task[r].sync]) ELSE sched[s]]
      /\ UNCHANGED <<row, owner, job, workflow, every, status, frequency, config, connected>>
      /\ failed' \subseteq Operations \union {"run"}
  BY <1>1 DEF Pause, TypeOK, Tasks, Still, Fails, syncVars, jobVars, temporalVars,
     scheduleVars, envVars
<1> QED
  BY <1>1, <1>2

LEMMA UnpauseStep ==
    ASSUME TypeOK, HandlersFit, SyncsFit, RowsFit, NEW r \in Requests, Unpause(r)
    PROVE  /\ Others(r) /\ task'[r] \in Tasks /\ failed' \subseteq Operations \union {"run"}
           /\ task[r].pc = "unpause"
           /\ PcOnly(task[r], task'[r])
           /\ task'[r].pc = (IF Exists(task[r].sync) THEN "trigger" ELSE "setStatus")
           /\ failed' = failed
           /\ sched' = [s \in Syncs |->
                         IF s = task[r].sync THEN (IF Exists(task[r].sync) THEN "running"
                            ELSE sched[task[r].sync]) ELSE sched[s]]
           /\ UNCHANGED <<row, owner, job, workflow, every, status, frequency, config, connected>>
<1>1. /\ Others(r) /\ task'[r] \in Tasks /\ PcOnly(task[r], task'[r])
      /\ task[r].pc = "unpause"
            /\ task'[r].pc = (IF Exists(task[r].sync) THEN "trigger" ELSE "setStatus")
  BY GoesTo DEF Unpause, Locations, Creating
<1>2. /\ failed' = failed
      /\ sched' = [s \in Syncs |->
                    IF s = task[r].sync THEN (IF Exists(task[r].sync) THEN "running"
                       ELSE sched[task[r].sync]) ELSE sched[s]]
      /\ UNCHANGED <<row, owner, job, workflow, every, status, frequency, config, connected>>
      /\ failed' \subseteq Operations \union {"run"}
  BY <1>1 DEF Unpause, TypeOK, Tasks, Still, Fails, syncVars, jobVars, temporalVars,
     scheduleVars, envVars
<1> QED
  BY <1>1, <1>2

LEMMA TriggerAndReadFrequencyStep ==
    ASSUME TypeOK, HandlersFit, SyncsFit, RowsFit, NEW r \in Requests,
           TriggerAndReadFrequency(r)
    PROVE  /\ Others(r) /\ task'[r] \in Tasks /\ failed' \subseteq Operations \union {"run"}
           /\ task[r].pc = "trigger"
           /\ failed' = failed
           /\ Still
           /\ Same(task[r], task'[r]) /\ task'[r].sync = task[r].sync
           /\ \/ task'[r].pc = "describe" /\ task'[r].freq = frequency[task[r].sync]
              \/ task'[r].pc = "setStatus"
<1>1. task[r] \in Tasks /\ failed' = failed /\ Still /\ task[r].pc = "trigger"
  BY DEF TriggerAndReadFrequency, At, Still, TypeOK, syncVars, jobVars, temporalVars,
     scheduleVars, envVars
<1>2. CASE Exists(task[r].sync) /\ Scheduled(task[r].sync)
  <2> DEFINE u == [task[r] EXCEPT !.pc = "describe", !.freq = frequency[task[r].sync]]
  <2>1. task' = [task EXCEPT ![r] = u]
    BY <1>2 DEF TriggerAndReadFrequency, Become
  <2>2. task[r].sync \in Syncs
    BY <1>1 DEF SyncsFit, SyncFits, Commanding, Inserted
  <2>3. u \in Tasks
    BY <1>1, <2>2 DEF Tasks, Locations, TypeOK
  <2>4. Others(r) /\ task'[r] = u
    BY <2>1, BecomesOne
  <2>5. Same(task[r], u) /\ u.sync = task[r].sync /\ u.pc = "describe"
           /\ u.freq = frequency[task[r].sync]
    BY <1>1 DEF Same, Alike, Tasks
  <2> QED
    BY <1>1, <2>3, <2>4, <2>5 DEF TypeOK
<1>3. CASE ~ (Exists(task[r].sync) /\ Scheduled(task[r].sync))
  <2> DEFINE u == [task[r] EXCEPT !.pc = "setStatus"]
  <2>1. task' = [task EXCEPT ![r] = u]
    BY <1>3 DEF TriggerAndReadFrequency, Become
  <2>2. u \in Tasks
    BY <1>1 DEF Tasks, Locations
  <2>3. Others(r) /\ task'[r] = u
    BY <2>1, BecomesOne
  <2>4. Same(task[r], u) /\ u.sync = task[r].sync /\ u.pc = "setStatus"
    BY <1>1 DEF Same, Alike, Tasks
  <2> QED
    BY <1>1, <2>2, <2>3, <2>4 DEF TypeOK
<1> QED
  BY <1>2, <1>3

LEMMA SetStatusStep ==
    ASSUME TypeOK, HandlersFit, SyncsFit, RowsFit, NEW r \in Requests, SetStatus(r)
    PROVE  /\ Others(r) /\ task'[r] \in Tasks /\ failed' \subseteq Operations \union {"run"}
           /\ task[r].pc = "setStatus"
           /\ failed' = failed
           /\ status' = [s \in Syncs |->
                          IF s = task[r].sync THEN (IF ~ Scheduled(task[r].sync)
                             THEN status[task[r].sync]
                      ELSE IF task[r].op = "pause" THEN "PAUSED" ELSE "RUNNING") ELSE status[s]]
           /\ UNCHANGED <<row, owner, job, workflow, sched, every, frequency, config, connected>>
           /\ Loops(task[r], task'[r], "readSchedule")
<1>1. /\ Others(r) /\ task'[r] \in Tasks
      /\ Loops(task[r], task'[r], "readSchedule")
  BY GoesOnSyncs DEF SetStatus, Locations
<1>2. /\ task[r].pc = "setStatus"
      /\ failed' = failed
      /\ status' = [s \in Syncs |->
                     IF s = task[r].sync THEN (IF ~ Scheduled(task[r].sync)
                        THEN status[task[r].sync]
                 ELSE IF task[r].op = "pause" THEN "PAUSED" ELSE "RUNNING") ELSE status[s]]
      /\ UNCHANGED <<row, owner, job, workflow, sched, every, frequency, config, connected>>
      /\ failed' \subseteq Operations \union {"run"}
  BY DEF SetStatus, At, TypeOK, Tasks, Still, Fails, syncVars, jobVars, temporalVars,
     scheduleVars, envVars
<1> QED
  BY <1>1, <1>2

LEMMA DescribeStep ==
    ASSUME TypeOK, HandlersFit, SyncsFit, RowsFit, NEW r \in Requests, Describe(r)
    PROVE  /\ Others(r) /\ task'[r] \in Tasks /\ failed' \subseteq Operations \union {"run"}
           /\ task[r].pc = "describe"
           /\ failed' = failed
           /\ Still
           /\ \/ /\ Exists(task[r].sync) /\ Same(task[r], task'[r])
                       /\ task'[r].sync = task[r].sync
                 /\ task'[r].freq = task[r].freq
                 /\ task'[r].pc = "update" /\ task'[r].seen = sched[task[r].sync]
              \/ ~ Exists(task[r].sync) /\ GoesOn(task[r], task'[r])
<1>1. task[r] \in Tasks /\ failed' = failed /\ Still /\ task[r].pc = "describe"
  BY DEF Describe, At, Still, TypeOK, syncVars, jobVars, temporalVars, scheduleVars, envVars
<1>2. CASE Exists(task[r].sync)
  <2> DEFINE u == [task[r] EXCEPT !.pc = "update", !.seen = sched[task[r].sync]]
  <2>1. task' = [task EXCEPT ![r] = u]
    BY <1>2 DEF Describe, Become
  <2>2. task[r].sync \in Syncs
    BY <1>1 DEF SyncsFit, SyncFits, Commanding, Inserted
  <2>3. u \in Tasks
    BY <1>1, <2>2 DEF Tasks, Locations, TypeOK
  <2>4. Others(r) /\ task'[r] = u
    BY <2>1, BecomesOne
  <2>5. /\ Same(task[r], u) /\ u.sync = task[r].sync /\ u.freq = task[r].freq /\ u.pc = "update"
        /\ u.seen = sched[task[r].sync]
    BY <1>1 DEF Same, Alike, Tasks
  <2> QED
    BY <1>1, <1>2, <2>3, <2>4, <2>5 DEF TypeOK
<1>3. CASE ~ Exists(task[r].sync)
  <2>1. PICK u \in Updated(task[r]) : task' = [task EXCEPT ![r] = u]
    BY <1>3 DEF Describe, Become
  <2>2. u \in Tasks /\ GoesOn(task[r], u)
    BY <1>1, <2>1, LoopAfterUpdate
  <2>3. Others(r) /\ task'[r] = u
    BY <2>1, BecomesOne
  <2> QED
    BY <1>1, <1>3, <2>2, <2>3 DEF TypeOK
<1> QED
  BY <1>2, <1>3

LEMMA UpdateScheduleStep ==
    ASSUME TypeOK, HandlersFit, SyncsFit, RowsFit, NEW r \in Requests, UpdateSchedule(r)
    PROVE  /\ Others(r) /\ task'[r] \in Tasks /\ failed' \subseteq Operations \union {"run"}
           /\ task[r].pc = "update"
           /\ failed' = failed
           /\ sched' = [s \in Syncs |->
                         IF s = task[r].sync THEN (IF Exists(task[r].sync)
                            THEN task[r].seen ELSE sched[task[r].sync]) ELSE sched[s]]
           /\ every' = [s \in Syncs |->
                         IF s = task[r].sync THEN (IF Exists(task[r].sync)
                            THEN task[r].freq ELSE every[task[r].sync]) ELSE every[s]]
           /\ UNCHANGED <<row, owner, job, workflow, status, frequency, config, connected>>
           /\ GoesOn(task[r], task'[r])
<1>1. /\ Others(r) /\ task'[r] \in Tasks
      /\ GoesOn(task[r], task'[r])
  BY GoesOnUpdated DEF UpdateSchedule
<1>2. /\ task[r].pc = "update"
      /\ failed' = failed
      /\ sched' = [s \in Syncs |->
                    IF s = task[r].sync THEN (IF Exists(task[r].sync) THEN task[r].seen
                       ELSE sched[task[r].sync]) ELSE sched[s]]
      /\ every' = [s \in Syncs |->
                    IF s = task[r].sync THEN (IF Exists(task[r].sync) THEN task[r].freq
                       ELSE every[task[r].sync]) ELSE every[s]]
      /\ UNCHANGED <<row, owner, job, workflow, status, frequency, config, connected>>
      /\ failed' \subseteq Operations \union {"run"}
  BY DEF UpdateSchedule, At, TypeOK, Tasks, Still, Fails, syncVars, jobVars, temporalVars,
     scheduleVars, envVars
<1> QED
  BY <1>1, <1>2

LEMMA CompareStep ==
    ASSUME TypeOK, HandlersFit, SyncsFit, RowsFit, NEW r \in Requests, Compare(r)
    PROVE  /\ Others(r) /\ task'[r] \in Tasks /\ failed' \subseteq Operations \union {"run"}
           /\ task[r].pc = "compare"
           /\ failed' = failed
           /\ Still
           /\ \/ /\ Scheduled(task[r].sync) /\ PcOnly(task[r], task'[r])
                 /\ task'[r].pc = "writeFrequency"
              \/ /\ ~ Scheduled(task[r].sync) \/ frequency[task[r].sync] = task[r].freq
                 /\ Loops(task[r], task'[r], "compare")
<1>1. task[r] \in Tasks /\ failed' = failed /\ Still /\ task[r].pc = "compare"
  BY DEF Compare, At, Still, TypeOK, syncVars, jobVars, temporalVars, scheduleVars, envVars
<1>2. CASE Scheduled(task[r].sync) /\ frequency[task[r].sync] # task[r].freq
  <2>1. Goto(r, "compare", "writeFrequency")
    BY <1>2 DEF Compare, Goto, Become
  <2> QED
    BY <1>1, <1>2, <2>1, GoesTo DEF TypeOK, Locations
<1>3. CASE ~ (Scheduled(task[r].sync) /\ frequency[task[r].sync] # task[r].freq)
  <2>1. Become(r, NextSync(task[r], "compare"))
    BY <1>3 DEF Compare
  <2> QED
    BY <1>1, <1>3, <2>1, GoesOnSyncs DEF TypeOK, Locations
<1> QED
  BY <1>2, <1>3

LEMMA WriteFrequencyStep ==
    ASSUME TypeOK, HandlersFit, SyncsFit, RowsFit, NEW r \in Requests, WriteFrequency(r)
    PROVE  /\ Others(r) /\ task'[r] \in Tasks /\ failed' \subseteq Operations \union {"run"}
           /\ task[r].pc = "writeFrequency"
           /\ PcOnly(task[r], task'[r])
           /\ task'[r].pc = "describe"
           /\ failed' = failed
           /\ frequency' = [s \in Syncs |->
                             IF s = task[r].sync THEN (IF Scheduled(task[r].sync)
                                THEN task[r].freq ELSE frequency[task[r].sync])
                                   ELSE frequency[s]]
           /\ UNCHANGED <<row, owner, job, workflow, sched, every, status, config, connected>>
<1>1. /\ Others(r) /\ task'[r] \in Tasks /\ PcOnly(task[r], task'[r])
      /\ task[r].pc = "writeFrequency" /\ task'[r].pc = "describe"
  BY GoesTo DEF WriteFrequency, Locations, Creating
<1>2. /\ failed' = failed
      /\ frequency' = [s \in Syncs |->
                        IF s = task[r].sync THEN (IF Scheduled(task[r].sync)
                           THEN task[r].freq ELSE frequency[task[r].sync]) ELSE frequency[s]]
      /\ UNCHANGED <<row, owner, job, workflow, sched, every, status, config, connected>>
      /\ failed' \subseteq Operations \union {"run"}
  BY <1>1 DEF WriteFrequency, TypeOK, Tasks, Still, Fails, syncVars, jobVars, temporalVars,
     scheduleVars, envVars
<1> QED
  BY <1>1, <1>2

LEMMA WriteConfigStep ==
    ASSUME TypeOK, HandlersFit, SyncsFit, RowsFit, NEW r \in Requests, WriteConfig(r)
    PROVE  /\ Others(r) /\ task'[r] \in Tasks /\ failed' \subseteq Operations \union {"run"}
           /\ task[r].pc = "writeConfig"
           /\ PcOnly(task[r], task'[r])
           /\ task'[r].pc = "reconcile"
           /\ failed' = failed
           /\ config' = task[r].freq
           /\ UNCHANGED <<row, owner, job, workflow, sched, every, status, frequency, connected>>
<1>1. /\ Others(r) /\ task'[r] \in Tasks /\ PcOnly(task[r], task'[r])
      /\ task[r].pc = "writeConfig" /\ task'[r].pc = "reconcile"
  BY GoesTo DEF WriteConfig, Locations, Creating
<1>2. /\ failed' = failed
      /\ config' = task[r].freq
      /\ UNCHANGED <<row, owner, job, workflow, sched, every, status, frequency, connected>>
      /\ failed' \subseteq Operations \union {"run"}
  BY <1>1 DEF WriteConfig, TypeOK, Tasks, Still, Fails, syncVars, jobVars, temporalVars,
     scheduleVars, envVars
<1> QED
  BY <1>1, <1>2

LEMMA ReconcileStep ==
    ASSUME TypeOK, HandlersFit, SyncsFit, RowsFit, NEW r \in Requests,
           NEW preBuilt \in BOOLEAN, NEW auto \in BOOLEAN, Reconcile(r, preBuilt, auto)
    PROVE  /\ Others(r) /\ task'[r] \in Tasks /\ failed' \subseteq Operations \union {"run"}
           /\ task[r].pc = "reconcile"
           /\ failed' = failed
           /\ Still
           /\ \/ task'[r] = Idle
              \/ \E c \in connected :
                    /\ task'[r].op = "create" /\ task'[r].pc = "look" /\ task'[r].sync = NoSync
                    /\ task'[r].conn = {c} /\ task'[r].conns = connected \ {c}
                          /\ task'[r].todo = {}
                    /\ task'[r].then = "idle" /\ task'[r].freq = task[r].freq
<1>1. task[r] \in Tasks /\ failed' = failed /\ Still /\ task[r].pc = "reconcile"
  BY DEF Reconcile, At, Still, TypeOK, syncVars, jobVars, temporalVars, scheduleVars, envVars
<1> DEFINE t == [Idle EXCEPT !.op = "create", !.conns = connected, !.freq = task[r].freq, !.auto = auto]
<1>2. t \in Tasks
  BY <1>1, IdleIsTask DEF Tasks, TypeOK, Operations, Idle
<1>3. PICK u \in NextConnection(t, "look") \union {Idle} : task' = [task EXCEPT ![r] = u]
  BY DEF Reconcile, Become
<1>4. Others(r) /\ task'[r] = u
  BY <1>3, BecomesOne
<1>5. u = Idle \/ (u \in Tasks /\ LoopsOver(t, u, "look"))
  BY <1>2, <1>3, LoopOverConnections DEF Locations
<1>6. /\ t.op = "create" /\ t.conns = connected /\ t.freq = task[r].freq /\ t.todo = {}
      /\ t.then = "idle"
  BY DEF Idle
<1> HIDE DEF t
<1> QED
  BY <1>1, <1>4, <1>5, <1>6, IdleIsTask DEF LoopsOver, Alike, TypeOK

LEMMA MarkAllAsStoppedStep ==
    ASSUME TypeOK, HandlersFit, SyncsFit, RowsFit, NEW r \in Requests, MarkAllAsStopped(r)
    PROVE  /\ Others(r) /\ task'[r] \in Tasks /\ failed' \subseteq Operations \union {"run"}
           /\ task[r].pc = "markStopped"
           /\ failed' = failed
           /\ task'[r] = Idle
           /\ status' = [s \in Syncs |-> IF Scheduled(s) THEN "STOPPED" ELSE status[s]]
           /\ UNCHANGED <<row, owner, job, workflow, sched, every, frequency, config, connected>>
<1>1. /\ Others(r) /\ task'[r] \in Tasks
      /\ task'[r] = Idle
  BY Ends DEF MarkAllAsStopped
<1>2. /\ task[r].pc = "markStopped"
      /\ failed' = failed
      /\ status' = [s \in Syncs |-> IF Scheduled(s) THEN "STOPPED" ELSE status[s]]
      /\ UNCHANGED <<row, owner, job, workflow, sched, every, frequency, config, connected>>
      /\ failed' \subseteq Operations \union {"run"}
  BY DEF MarkAllAsStopped, At, TypeOK, Tasks, Still, Fails, syncVars, jobVars, temporalVars,
     scheduleVars, envVars
<1> QED
  BY <1>1, <1>2

LEMMA CallFailsStep ==
    ASSUME TypeOK, HandlersFit, SyncsFit, RowsFit, NEW r \in Requests, CallFails(r)
    PROVE  /\ Others(r) /\ task'[r] \in Tasks /\ failed' \subseteq Operations \union {"run"}
           /\ failed' = failed \union {task[r].op}
           /\ Still
           /\ \/ /\ task[r].pc = "dropSchedule" /\ PcOnly(task[r], task'[r])
                       /\ task'[r].pc = "dropSync"
              \/ /\ task[r].pc \in {"pause", "unpause", "trigger"}
                 /\ PcOnly(task[r], task'[r]) /\ task'[r].pc = "setStatus"
              \/ task[r].pc \in {"describe", "update"} /\ GoesOn(task[r], task'[r])
              \/ task[r].pc = "setStatus" /\ Loops(task[r], task'[r], "readSchedule")
<1>1. /\ task[r] \in Tasks /\ Still /\ failed' = failed \union {task[r].op}
      /\ \E u \in Swallowed(task[r]) : task' = [task EXCEPT ![r] = u]
  BY DEF CallFails, Become, Fails, Still, TypeOK, syncVars, jobVars, temporalVars,
     scheduleVars, envVars
<1>2. PICK u \in Swallowed(task[r]) : task' = [task EXCEPT ![r] = u]
  BY <1>1
<1>3. Others(r) /\ task'[r] = u
  BY <1>2, BecomesOne
<1>4. failed' \subseteq Operations \union {"run"}
  BY <1>1 DEF Tasks, TypeOK
<1>5. CASE task[r].pc = "dropSchedule"
  <2>1. u = [task[r] EXCEPT !.pc = "dropSync"]
    BY <1>5 DEF Swallowed
  <2> QED
    BY <1>1, <1>3, <1>4, <1>5, <2>1 DEF PcOnly, Same, Alike, Tasks, Locations
<1>6. CASE task[r].pc \in {"pause", "unpause", "trigger"}
  <2>1. u = [task[r] EXCEPT !.pc = "setStatus"]
    BY <1>6 DEF Swallowed
  <2> QED
    BY <1>1, <1>3, <1>4, <1>6, <2>1 DEF PcOnly, Same, Alike, Tasks, Locations
<1>7. CASE task[r].pc \in {"describe", "update"}
  <2>1. u \in Updated(task[r])
    BY <1>7 DEF Swallowed
  <2> QED
    BY <1>1, <1>3, <1>4, <1>7, <2>1, LoopAfterUpdate
<1>8. CASE task[r].pc = "setStatus"
  <2>1. u \in NextSync(task[r], "readSchedule")
    BY <1>8 DEF Swallowed
  <2>2. u \in Tasks /\ Loops(task[r], u, "readSchedule")
    BY <1>1, <2>1, LoopOverSyncs DEF Locations
  <2> QED
    BY <1>1, <1>3, <1>4, <1>8, <2>2
<1>9. CASE task[r].pc \notin {"dropSchedule", "pause", "unpause", "trigger", "describe", "update", "setStatus"}
  BY <1>9 DEF Swallowed
<1> QED
  BY <1>5, <1>6, <1>7, <1>8, <1>9

LEMMA CutShortStep ==
    ASSUME TypeOK, HandlersFit, SyncsFit, RowsFit, NEW r \in Requests, CutShort(r)
    PROVE  /\ Others(r) /\ task'[r] \in Tasks /\ failed' \subseteq Operations \union {"run"}
           /\ task[r] # Idle
           /\ task'[r] = Idle
           /\ failed' = failed \union {task[r].op}
           /\ Still
<1>1. /\ Others(r) /\ task'[r] \in Tasks
      /\ task'[r] = Idle
  BY Ends DEF CutShort
<1>2. /\ task[r] # Idle
      /\ failed' = failed \union {task[r].op}
      /\ Still
      /\ failed' \subseteq Operations \union {"run"}
  BY DEF CutShort, At, TypeOK, Tasks, Still, Fails, syncVars, jobVars, temporalVars,
     scheduleVars, envVars
<1> QED
  BY <1>1, <1>2

(***************************************************************************)
(* The steps, one by one.                                                  *)
(***************************************************************************)

Arrivals(r) ==
    \/ \E c \in Connections, auto \in BOOLEAN : Initiate(r, c, auto)
    \/ \E c \in Connections : DeleteConnection(r, c)
    \/ DeleteFlow(r) \/ ReconcileDeletion(r)
    \/ \E command \in {"pause", "unpause"}, syncs \in SUBSET SyncsOf(connected) : Command(r, command, syncs)
    \/ \E command \in {"pause", "unpause"}, s \in Syncs : CommandById(r, command, s)
    \/ \E f \in Frequencies : Deploy(r, f)
    \/ ListSchedules(r)

Acts(r) ==
    \/ Arrivals(r)
    \/ Look(r) \/ FindExisting(r)
    \/ \E i \in Syncs : InsertSync(r, i)
    \/ InsertJob(r) \/ InsertJobFails(r) \/ StartWorkflow(r) \/ CreateSchedule(r)
    \/ PauseSchedule(r) \/ InsertSchedule(r) \/ StartFails(r) \/ DropFlow(r) \/ FindSync(r)
    \/ GetSchedule(r) \/ DropSchedule(r) \/ DropSync(r) \/ DropJobs(r) \/ DropScheduleRow(r)
    \/ DropConnection(r) \/ DropConfig(r) \/ ReadSchedule(r) \/ Pause(r) \/ Unpause(r)
    \/ TriggerAndReadFrequency(r) \/ SetStatus(r) \/ Describe(r) \/ UpdateSchedule(r)
    \/ Compare(r) \/ WriteFrequency(r) \/ WriteConfig(r)
    \/ \E preBuilt \in BOOLEAN, auto \in BOOLEAN : Reconcile(r, preBuilt, auto)
    \/ MarkAllAsStopped(r) \/ CallFails(r) \/ CutShort(r)

LEMMA Cases ==
    Next => \/ \E r \in Requests : Acts(r)
            \/ \E s \in Syncs, outcome \in {"SUCCESS", "STOPPED"} : JobEnds(s, outcome)
<1>1. ASSUME NEW r \in Requests, Arrives(r) PROVE Arrivals(r)
  <2>1. ASSUME NEW syncs \in {SyncsOf(connected)} \union {{s} : s \in SyncsOf(connected)}
        PROVE  syncs \in SUBSET SyncsOf(connected)
    BY <2>1
  <2> QED
    BY <1>1, <2>1 DEF Arrives, Arrivals, PauseSyncs, StartSyncs
<1>2. ASSUME NEW r \in Requests, Step(r) \/ Failure(r) PROVE Acts(r)
  BY <1>2 DEF Step, Failure, Acts
<1> QED
  BY <1>1, <1>2 DEF Next, Acts

LEMMA NextTypes ==
    ASSUME TypeOK, HandlersFit, SyncsFit, RowsFit, Next \/ UNCHANGED vars
    PROVE  TypeOK'
<1> USE DEF TypeOK
<1>0. overlaps' \subseteq Harmful
  BY DEF Next, Clashes, vars
<1>1. ASSUME NEW r \in Requests, NEW c \in Connections, NEW auto \in BOOLEAN,
             Initiate(r, c, auto)
      PROVE TypeOK'
  <2>1. begun' \in Nat
    BY <1>1 DEF Initiate, Begin
  <2> QED
    BY <1>0, <1>1, <2>1, InitiateStep DEF Others, Still
<1>2. ASSUME NEW r \in Requests, NEW c \in Connections, DeleteConnection(r, c) PROVE TypeOK'
  <2>1. begun' \in Nat
    BY <1>2 DEF DeleteConnection, Begin
  <2>2. Others(r) /\ task'[r] \in Tasks /\ Still /\ failed' = failed
    BY <1>2, DeleteConnectionStep
  <2> QED
    BY <1>0, <2>1, <2>2 DEF Others, Still
<1>3. ASSUME NEW r \in Requests, DeleteFlow(r) PROVE TypeOK'
  <2>1. begun' \in Nat
    BY <1>3 DEF DeleteFlow, Begin
  <2> QED
    BY <1>0, <1>3, <2>1, DeleteFlowStep DEF Others, Still
<1>4. ASSUME NEW r \in Requests, ReconcileDeletion(r) PROVE TypeOK'
  <2>1. begun' \in Nat
    BY <1>4 DEF ReconcileDeletion, Begin
  <2> QED
    BY <1>0, <1>4, <2>1, ReconcileDeletionStep DEF Others, Still
<1>5. ASSUME NEW r \in Requests, NEW command \in {"pause", "unpause"},
             NEW syncs \in SUBSET SyncsOf(connected), Command(r, command, syncs)
      PROVE TypeOK'
  <2>1. begun' \in Nat
    BY <1>5 DEF Command, Begin
  <2> QED
    BY <1>0, <1>5, <2>1, CommandStep DEF Others, Still
<1>6. ASSUME NEW r \in Requests, NEW command \in {"pause", "unpause"}, NEW s \in Syncs,
             CommandById(r, command, s)
      PROVE TypeOK'
  <2>1. begun' \in Nat
    BY <1>6 DEF CommandById, Begin
  <2> QED
    BY <1>0, <1>6, <2>1, CommandByIdStep DEF Others, Still
<1>7. ASSUME NEW r \in Requests, NEW f \in Frequencies, Deploy(r, f) PROVE TypeOK'
  <2>1. begun' \in Nat
    BY <1>7 DEF Deploy, Begin
  <2> QED
    BY <1>0, <1>7, <2>1, DeployStep DEF Others, Still
<1>8. ASSUME NEW r \in Requests, ListSchedules(r) PROVE TypeOK'
  <2>1. begun' \in Nat
    BY <1>8 DEF ListSchedules, Begin
  <2> QED
    BY <1>0, <1>8, <2>1, ListSchedulesStep DEF Others, Still
<1>9. ASSUME NEW r \in Requests, Look(r) PROVE TypeOK'
  <2>1. begun' \in Nat
    BY <1>9 DEF Look, Begin
  <2> QED
    BY <1>0, <1>9, <2>1, LookStep DEF Others, Still
<1>10. ASSUME NEW r \in Requests, FindExisting(r) PROVE TypeOK'
  <2>1. begun' \in Nat
    BY <1>10 DEF FindExisting, Begin
  <2> QED
    BY <1>0, <1>10, <2>1, FindExistingStep DEF Others, Still
<1>11. ASSUME NEW r \in Requests, NEW i \in Syncs, InsertSync(r, i) PROVE TypeOK'
  <2>1. begun' \in Nat
    BY <1>11 DEF InsertSync, Begin
  <2>2. /\ task[r].freq \in Frequencies \union {NoFrequency}
              /\ task[r].conn \subseteq Connections
        /\ task[r].seen \in {"none", "running", "paused"}
    BY DEF Tasks
  <2> QED
    BY <1>0, <1>11, <2>1, <2>2, InsertSyncStep DEF Others, Still
<1>12. ASSUME NEW r \in Requests, InsertJob(r) PROVE TypeOK'
  <2>1. begun' \in Nat
    BY <1>12 DEF InsertJob, Begin
  <2> QED
    BY <1>0, <1>12, <2>1, InsertJobStep DEF Others, Still
<1>13. ASSUME NEW r \in Requests, InsertJobFails(r) PROVE TypeOK'
  <2>1. begun' \in Nat
    BY <1>13 DEF InsertJobFails, Begin
  <2> QED
    BY <1>0, <1>13, <2>1, InsertJobFailsStep DEF Others, Still
<1>14. ASSUME NEW r \in Requests, StartWorkflow(r) PROVE TypeOK'
  <2>1. begun' \in Nat
    BY <1>14 DEF StartWorkflow, Begin
  <2>2. workflow' \in [Syncs -> BOOLEAN]
    <3>1. workflow' = [workflow EXCEPT ![task[r].sync] = TRUE]
      BY <1>14 DEF StartWorkflow
    <3> QED
      BY <3>1
  <2>3. /\ Others(r) /\ task'[r] \in Tasks /\ failed' = failed
        /\ UNCHANGED <<row, owner, job, sched, every, status, frequency, config, connected>>
    BY <1>14, StartWorkflowStep
  <2> QED
    BY <1>0, <2>1, <2>2, <2>3 DEF Others
<1>15. ASSUME NEW r \in Requests, CreateSchedule(r) PROVE TypeOK'
  <2>1. begun' \in Nat
    BY <1>15 DEF CreateSchedule, Begin
  <2>2. /\ task[r].freq \in Frequencies \union {NoFrequency}
              /\ task[r].conn \subseteq Connections
        /\ task[r].seen \in {"none", "running", "paused"}
    BY DEF Tasks
  <2> QED
    BY <1>0, <1>15, <2>1, <2>2, CreateScheduleStep DEF Others, Still
<1>16. ASSUME NEW r \in Requests, PauseSchedule(r) PROVE TypeOK'
  <2>1. begun' \in Nat
    BY <1>16 DEF PauseSchedule, Begin
  <2> QED
    BY <1>0, <1>16, <2>1, PauseScheduleStep DEF Others, Still
<1>17. ASSUME NEW r \in Requests, InsertSchedule(r) PROVE TypeOK'
  <2>1. begun' \in Nat
    BY <1>17 DEF InsertSchedule, Begin
  <2>2. /\ task[r].freq \in Frequencies \union {NoFrequency}
              /\ task[r].conn \subseteq Connections
        /\ task[r].seen \in {"none", "running", "paused"}
    BY DEF Tasks
  <2> QED
    BY <1>0, <1>17, <2>1, <2>2, InsertScheduleStep DEF Others, Still
<1>18. ASSUME NEW r \in Requests, StartFails(r) PROVE TypeOK'
  <2>1. begun' \in Nat
    BY <1>18 DEF StartFails, Begin
  <2> QED
    BY <1>0, <1>18, <2>1, StartFailsStep DEF Others, Still
<1>19. ASSUME NEW r \in Requests, DropFlow(r) PROVE TypeOK'
  <2>1. begun' \in Nat
    BY <1>19 DEF DropFlow, Begin
  <2> QED
    BY <1>0, <1>19, <2>1, DropFlowStep DEF Others, Still
<1>20. ASSUME NEW r \in Requests, FindSync(r) PROVE TypeOK'
  <2>1. begun' \in Nat
    BY <1>20 DEF FindSync, Begin
  <2> QED
    BY <1>0, <1>20, <2>1, FindSyncStep DEF Others, Still
<1>21. ASSUME NEW r \in Requests, GetSchedule(r) PROVE TypeOK'
  <2>1. begun' \in Nat
    BY <1>21 DEF GetSchedule, Begin
  <2> QED
    BY <1>0, <1>21, <2>1, GetScheduleStep DEF Others, Still
<1>22. ASSUME NEW r \in Requests, DropSchedule(r) PROVE TypeOK'
  <2>1. begun' \in Nat
    BY <1>22 DEF DropSchedule, Begin
  <2> QED
    BY <1>0, <1>22, <2>1, DropScheduleStep DEF Others, Still
<1>23. ASSUME NEW r \in Requests, DropSync(r) PROVE TypeOK'
  <2>1. begun' \in Nat
    BY <1>23 DEF DropSync, Begin
  <2> QED
    BY <1>0, <1>23, <2>1, DropSyncStep DEF Others, Still
<1>24. ASSUME NEW r \in Requests, DropJobs(r) PROVE TypeOK'
  <2>1. begun' \in Nat
    BY <1>24 DEF DropJobs, Begin
  <2> QED
    BY <1>0, <1>24, <2>1, DropJobsStep DEF Others, Still
<1>25. ASSUME NEW r \in Requests, DropScheduleRow(r) PROVE TypeOK'
  <2>1. begun' \in Nat
    BY <1>25 DEF DropScheduleRow, Begin
  <2> QED
    BY <1>0, <1>25, <2>1, DropScheduleRowStep DEF Others, Still
<1>26. ASSUME NEW r \in Requests, DropConnection(r) PROVE TypeOK'
  <2>1. begun' \in Nat
    BY <1>26 DEF DropConnection, Begin
  <2> QED
    BY <1>0, <1>26, <2>1, DropConnectionStep DEF Others, Still
<1>27. ASSUME NEW r \in Requests, DropConfig(r) PROVE TypeOK'
  <2>1. begun' \in Nat
    BY <1>27 DEF DropConfig, Begin
  <2> QED
    BY <1>0, <1>27, <2>1, DropConfigStep DEF Others, Still
<1>28. ASSUME NEW r \in Requests, ReadSchedule(r) PROVE TypeOK'
  <2>1. begun' \in Nat
    BY <1>28 DEF ReadSchedule, Begin
  <2> QED
    BY <1>0, <1>28, <2>1, ReadScheduleStep DEF Others, Still
<1>29. ASSUME NEW r \in Requests, Pause(r) PROVE TypeOK'
  <2>1. begun' \in Nat
    BY <1>29 DEF Pause, Begin
  <2> QED
    BY <1>0, <1>29, <2>1, PauseStep DEF Others, Still
<1>30. ASSUME NEW r \in Requests, Unpause(r) PROVE TypeOK'
  <2>1. begun' \in Nat
    BY <1>30 DEF Unpause, Begin
  <2> QED
    BY <1>0, <1>30, <2>1, UnpauseStep DEF Others, Still
<1>31. ASSUME NEW r \in Requests, TriggerAndReadFrequency(r) PROVE TypeOK'
  <2>1. begun' \in Nat
    BY <1>31 DEF TriggerAndReadFrequency, Begin
  <2> QED
    BY <1>0, <1>31, <2>1, TriggerAndReadFrequencyStep DEF Others, Still
<1>32. ASSUME NEW r \in Requests, SetStatus(r) PROVE TypeOK'
  <2>1. begun' \in Nat
    BY <1>32 DEF SetStatus, Begin
  <2> QED
    BY <1>0, <1>32, <2>1, SetStatusStep DEF Others, Still
<1>33. ASSUME NEW r \in Requests, Describe(r) PROVE TypeOK'
  <2>1. begun' \in Nat
    BY <1>33 DEF Describe, Begin
  <2> QED
    BY <1>0, <1>33, <2>1, DescribeStep DEF Others, Still
<1>34. ASSUME NEW r \in Requests, UpdateSchedule(r) PROVE TypeOK'
  <2>1. begun' \in Nat
    BY <1>34 DEF UpdateSchedule, Begin
  <2>2. /\ task[r].freq \in Frequencies \union {NoFrequency}
              /\ task[r].conn \subseteq Connections
        /\ task[r].seen \in {"none", "running", "paused"}
    BY DEF Tasks
  <2> QED
    BY <1>0, <1>34, <2>1, <2>2, UpdateScheduleStep DEF Others, Still
<1>35. ASSUME NEW r \in Requests, Compare(r) PROVE TypeOK'
  <2>1. begun' \in Nat
    BY <1>35 DEF Compare, Begin
  <2> QED
    BY <1>0, <1>35, <2>1, CompareStep DEF Others, Still
<1>36. ASSUME NEW r \in Requests, WriteFrequency(r) PROVE TypeOK'
  <2>1. begun' \in Nat
    BY <1>36 DEF WriteFrequency, Begin
  <2>2. /\ task[r].freq \in Frequencies \union {NoFrequency}
              /\ task[r].conn \subseteq Connections
        /\ task[r].seen \in {"none", "running", "paused"}
    BY DEF Tasks
  <2> QED
    BY <1>0, <1>36, <2>1, <2>2, WriteFrequencyStep DEF Others, Still
<1>37. ASSUME NEW r \in Requests, WriteConfig(r) PROVE TypeOK'
  <2>1. begun' \in Nat
    BY <1>37 DEF WriteConfig, Begin
  <2>2. /\ task[r].freq \in Frequencies \union {NoFrequency}
              /\ task[r].conn \subseteq Connections
        /\ task[r].seen \in {"none", "running", "paused"}
    BY DEF Tasks
  <2> QED
    BY <1>0, <1>37, <2>1, <2>2, WriteConfigStep DEF Others, Still
<1>38. ASSUME NEW r \in Requests, NEW preBuilt \in BOOLEAN, NEW auto \in BOOLEAN,
              Reconcile(r, preBuilt, auto)
      PROVE TypeOK'
  <2>1. begun' \in Nat
    BY <1>38 DEF Reconcile, Begin
  <2> QED
    BY <1>0, <1>38, <2>1, ReconcileStep DEF Others, Still
<1>39. ASSUME NEW r \in Requests, MarkAllAsStopped(r) PROVE TypeOK'
  <2>1. begun' \in Nat
    BY <1>39 DEF MarkAllAsStopped, Begin
  <2> QED
    BY <1>0, <1>39, <2>1, MarkAllAsStoppedStep DEF Others, Still
<1>40. ASSUME NEW r \in Requests, CallFails(r) PROVE TypeOK'
  <2>1. begun' \in Nat
    BY <1>40 DEF CallFails, Begin
  <2> QED
    BY <1>0, <1>40, <2>1, CallFailsStep DEF Others, Still
<1>41. ASSUME NEW r \in Requests, CutShort(r) PROVE TypeOK'
  <2>1. begun' \in Nat
    BY <1>41 DEF CutShort, Begin
  <2> QED
    BY <1>0, <1>41, <2>1, CutShortStep DEF Others, Still
<1>42. ASSUME NEW s \in Syncs, NEW outcome \in {"SUCCESS", "STOPPED"}, JobEnds(s, outcome)
      PROVE TypeOK'
  <2>1. failed' \subseteq Operations \union {"run"}
    BY <1>42 DEF JobEnds
  <2> QED
    BY <1>0, <1>42, <2>1 DEF JobEnds, syncVars, jobVars, temporalVars, scheduleVars, envVars
<1>43. CASE UNCHANGED vars
  BY <1>43 DEF vars, syncVars, jobVars, temporalVars, scheduleVars, envVars
<1> QED
  BY <1>1, <1>2, <1>3, <1>4, <1>5, <1>6, <1>7, <1>8, <1>9, <1>10, <1>11, <1>12, <1>13, <1>14,
     <1>15, <1>16, <1>17, <1>18, <1>19, <1>20, <1>21, <1>22, <1>23, <1>24, <1>25, <1>26, <1>27,
     <1>28, <1>29, <1>30, <1>31, <1>32, <1>33, <1>34, <1>35, <1>36, <1>37, <1>38, <1>39, <1>40,
     <1>41, <1>42, <1>43, Cases DEF Acts, Arrivals

LEMMA IdleFits == OpFits(Idle) /\ LoopFits(Idle)
  BY DEF OpFits, LoopFits, Idle, CreateLocations, DeleteLocations, Dropping, Creating

LEMMA NextHandlersFit ==
    ASSUME TypeOK, HandlersFit, SyncsFit, RowsFit, Next \/ UNCHANGED vars
    PROVE  HandlersFit'
<1> USE DEF HandlersFit
<1>1. ASSUME NEW r \in Requests, NEW c \in Connections, NEW auto \in BOOLEAN,
             Initiate(r, c, auto)
      PROVE HandlersFit'
  <2>1. One(task'[r].conn) /\ task'[r].freq \in Frequencies
    BY <1>1, InitiateStep DEF One, TypeOK
  <2>2. OpFits(task'[r]) /\ LoopFits(task'[r])
    BY <1>1, <2>1, InitiateStep DEF OpFits, LoopFits, CreateLocations, DeleteLocations,
       Dropping, Creating
  <2> QED
    BY <1>1, <2>2, InitiateStep DEF Others
<1>2. ASSUME NEW r \in Requests, NEW c \in Connections, DeleteConnection(r, c)
      PROVE  HandlersFit'
  <2>1. One(task'[r].conn) /\ Others(r)
    BY <1>2, DeleteConnectionStep DEF One
  <2>2. OpFits(task'[r]) /\ LoopFits(task'[r])
    BY <1>2, <2>1, DeleteConnectionStep DEF OpFits, LoopFits, CreateLocations, DeleteLocations,
       Dropping, Creating
  <2> QED
    BY <2>1, <2>2 DEF Others
<1>3. ASSUME NEW r \in Requests, DeleteFlow(r) PROVE HandlersFit'
  <2>1. OpFits(task'[r]) /\ LoopFits(task'[r])
    BY <1>3, DeleteFlowStep, IdleFits DEF PcOnly, Same, Alike, OpFits, LoopFits, CreateLocations,
       DeleteLocations, Dropping, Creating
  <2> QED
    BY <1>3, <2>1, DeleteFlowStep DEF Others
<1>4. ASSUME NEW r \in Requests, ReconcileDeletion(r) PROVE HandlersFit'
  <2>1. OpFits(task'[r]) /\ LoopFits(task'[r])
    BY <1>4, ReconcileDeletionStep, IdleFits DEF PcOnly, Same, Alike, OpFits, LoopFits,
       CreateLocations, DeleteLocations, Dropping, Creating
  <2> QED
    BY <1>4, <2>1, ReconcileDeletionStep DEF Others
<1>5. ASSUME NEW r \in Requests, NEW command \in {"pause", "unpause"},
             NEW syncs \in SUBSET SyncsOf(connected), Command(r, command, syncs)
      PROVE HandlersFit'
  <2>1. OpFits(task'[r]) /\ LoopFits(task'[r])
    BY <1>5, CommandStep, IdleFits DEF PcOnly, Same, Alike, OpFits, LoopFits, CreateLocations,
       DeleteLocations, Dropping, Creating
  <2> QED
    BY <1>5, <2>1, CommandStep DEF Others
<1>6. ASSUME NEW r \in Requests, NEW command \in {"pause", "unpause"}, NEW s \in Syncs,
             CommandById(r, command, s)
      PROVE HandlersFit'
  <2>1. OpFits(task'[r]) /\ LoopFits(task'[r])
    BY <1>6, CommandByIdStep, IdleFits DEF PcOnly, Same, Alike, OpFits, LoopFits,
       CreateLocations, DeleteLocations, Dropping, Creating
  <2> QED
    BY <1>6, <2>1, CommandByIdStep DEF Others
<1>7. ASSUME NEW r \in Requests, NEW f \in Frequencies, Deploy(r, f) PROVE HandlersFit'
  <2>1. OpFits(task'[r]) /\ LoopFits(task'[r])
    BY <1>7, DeployStep, IdleFits DEF PcOnly, Same, Alike, OpFits, LoopFits, CreateLocations,
       DeleteLocations, Dropping, Creating
  <2> QED
    BY <1>7, <2>1, DeployStep DEF Others
<1>8. ASSUME NEW r \in Requests, ListSchedules(r) PROVE HandlersFit'
  <2>1. OpFits(task'[r]) /\ LoopFits(task'[r])
    BY <1>8, ListSchedulesStep, IdleFits DEF PcOnly, Same, Alike, OpFits, LoopFits,
       CreateLocations, DeleteLocations, Dropping, Creating
  <2> QED
    BY <1>8, <2>1, ListSchedulesStep DEF Others
<1>9. ASSUME NEW r \in Requests, Look(r) PROVE HandlersFit'
  <2>1. ASSUME LoopsOver(task[r], task'[r], "look")
        PROVE  task'[r] = Idle \/ (One(task'[r].conn) /\ Alike(task[r], task'[r])
                                  /\ task'[r].freq = task[r].freq /\ task'[r].pc = "look")
    BY <2>1 DEF LoopsOver, One, TypeOK, Tasks
  <2>2. OpFits(task'[r]) /\ LoopFits(task'[r])
    BY <1>9, <2>1, LookStep, IdleFits DEF PcOnly, Same, Alike, OpFits, LoopFits, CreateLocations,
       DeleteLocations, Dropping, Creating
  <2> QED
    BY <1>9, <2>2, LookStep DEF Others
<1>10. ASSUME NEW r \in Requests, FindExisting(r) PROVE HandlersFit'
  <2>1. OpFits(task'[r]) /\ LoopFits(task'[r])
    BY <1>10, FindExistingStep, IdleFits DEF PcOnly, Same, Alike, OpFits, LoopFits,
       CreateLocations, DeleteLocations, Dropping, Creating
  <2> QED
    BY <1>10, <2>1, FindExistingStep DEF Others
<1>11. ASSUME NEW r \in Requests, NEW i \in Syncs, InsertSync(r, i) PROVE HandlersFit'
  <2>1. OpFits(task'[r]) /\ LoopFits(task'[r])
    BY <1>11, InsertSyncStep, IdleFits DEF PcOnly, Same, Alike, OpFits, LoopFits,
       CreateLocations, DeleteLocations, Dropping, Creating
  <2> QED
    BY <1>11, <2>1, InsertSyncStep DEF Others
<1>12. ASSUME NEW r \in Requests, InsertJob(r) PROVE HandlersFit'
  <2>1. OpFits(task'[r]) /\ LoopFits(task'[r])
    BY <1>12, InsertJobStep, IdleFits DEF PcOnly, Same, Alike, OpFits, LoopFits, CreateLocations,
       DeleteLocations, Dropping, Creating
  <2> QED
    BY <1>12, <2>1, InsertJobStep DEF Others
<1>13. ASSUME NEW r \in Requests, InsertJobFails(r) PROVE HandlersFit'
  <2>1. OpFits(task'[r]) /\ LoopFits(task'[r])
    BY <1>13, InsertJobFailsStep, IdleFits DEF PcOnly, Same, Alike, OpFits, LoopFits,
       CreateLocations, DeleteLocations, Dropping, Creating
  <2> QED
    BY <1>13, <2>1, InsertJobFailsStep DEF Others
<1>14. ASSUME NEW r \in Requests, StartWorkflow(r) PROVE HandlersFit'
  <2>1. OpFits(task'[r]) /\ LoopFits(task'[r])
    BY <1>14, StartWorkflowStep, IdleFits DEF PcOnly, Same, Alike, OpFits, LoopFits,
       CreateLocations, DeleteLocations, Dropping, Creating
  <2> QED
    BY <1>14, <2>1, StartWorkflowStep DEF Others
<1>15. ASSUME NEW r \in Requests, CreateSchedule(r) PROVE HandlersFit'
  <2>1. OpFits(task'[r]) /\ LoopFits(task'[r])
    BY <1>15, CreateScheduleStep, IdleFits DEF PcOnly, Same, Alike, OpFits, LoopFits,
       CreateLocations, DeleteLocations, Dropping, Creating
  <2> QED
    BY <1>15, <2>1, CreateScheduleStep DEF Others
<1>16. ASSUME NEW r \in Requests, PauseSchedule(r) PROVE HandlersFit'
  <2>1. OpFits(task'[r]) /\ LoopFits(task'[r])
    BY <1>16, PauseScheduleStep, IdleFits DEF PcOnly, Same, Alike, OpFits, LoopFits,
       CreateLocations, DeleteLocations, Dropping, Creating
  <2> QED
    BY <1>16, <2>1, PauseScheduleStep DEF Others
<1>17. ASSUME NEW r \in Requests, InsertSchedule(r) PROVE HandlersFit'
  <2>1. task'[r] = Idle \/ (One(task'[r].conn) /\ Alike(task[r], task'[r])
                               /\ task'[r].freq = task[r].freq /\ task'[r].pc = "look")
    BY <1>17, InsertScheduleStep DEF LoopsOver, One, TypeOK, Tasks
  <2>2. OpFits(task'[r]) /\ LoopFits(task'[r])
    BY <1>17, <2>1, InsertScheduleStep, IdleFits DEF PcOnly, Same, Alike, OpFits, LoopFits,
       CreateLocations, DeleteLocations, Dropping, Creating
  <2> QED
    BY <1>17, <2>2, InsertScheduleStep DEF Others
<1>18. ASSUME NEW r \in Requests, StartFails(r) PROVE HandlersFit'
  <2>1. task'[r] = Idle \/ (One(task'[r].conn) /\ Alike(task[r], task'[r])
                               /\ task'[r].freq = task[r].freq /\ task'[r].pc = "look")
    BY <1>18, StartFailsStep DEF LoopsOver, One, TypeOK, Tasks
  <2>2. OpFits(task'[r]) /\ LoopFits(task'[r])
    BY <1>18, <2>1, StartFailsStep, IdleFits DEF PcOnly, Same, Alike, OpFits, LoopFits,
       CreateLocations, DeleteLocations, Dropping, Creating
  <2> QED
    BY <1>18, <2>2, StartFailsStep DEF Others
<1>19. ASSUME NEW r \in Requests, DropFlow(r) PROVE HandlersFit'
  <2>1. OpFits(task'[r]) /\ LoopFits(task'[r])
    BY <1>19, DropFlowStep, IdleFits DEF PcOnly, Same, Alike, OpFits, LoopFits, CreateLocations,
       DeleteLocations, Dropping, Creating
  <2> QED
    BY <1>19, <2>1, DropFlowStep DEF Others
<1>20. ASSUME NEW r \in Requests, FindSync(r) PROVE HandlersFit'
  <2>1. task'[r] = Idle \/ (One(task'[r].conn) /\ Alike(task[r], task'[r])
                               /\ task'[r].todo = task[r].todo
                                     /\ task'[r].pc \in {"findSync", "getSchedule"})
    BY ZenonT(60), <1>20, FindSyncStep DEF One, TypeOK, Tasks
  <2>2. Others(r) /\ task[r].pc = "findSync"
    BY <1>20, FindSyncStep
  <2>3. OpFits(task'[r]) /\ LoopFits(task'[r])
    BY <2>1, <2>2, IdleFits DEF Alike, OpFits, LoopFits, CreateLocations, DeleteLocations,
       Dropping, Creating
  <2> QED
    BY <2>2, <2>3 DEF Others
<1>21. ASSUME NEW r \in Requests, GetSchedule(r) PROVE HandlersFit'
  <2>1. OpFits(task'[r]) /\ LoopFits(task'[r])
    BY <1>21, GetScheduleStep, IdleFits DEF PcOnly, Same, Alike, OpFits, LoopFits,
       CreateLocations, DeleteLocations, Dropping, Creating
  <2> QED
    BY <1>21, <2>1, GetScheduleStep DEF Others
<1>22. ASSUME NEW r \in Requests, DropSchedule(r) PROVE HandlersFit'
  <2>1. OpFits(task'[r]) /\ LoopFits(task'[r])
    BY <1>22, DropScheduleStep, IdleFits DEF PcOnly, Same, Alike, OpFits, LoopFits,
       CreateLocations, DeleteLocations, Dropping, Creating
  <2> QED
    BY <1>22, <2>1, DropScheduleStep DEF Others
<1>23. ASSUME NEW r \in Requests, DropSync(r) PROVE HandlersFit'
  <2>1. OpFits(task'[r]) /\ LoopFits(task'[r])
    BY <1>23, DropSyncStep, IdleFits DEF PcOnly, Same, Alike, OpFits, LoopFits, CreateLocations,
       DeleteLocations, Dropping, Creating
  <2> QED
    BY <1>23, <2>1, DropSyncStep DEF Others
<1>24. ASSUME NEW r \in Requests, DropJobs(r) PROVE HandlersFit'
  <2>1. OpFits(task'[r]) /\ LoopFits(task'[r])
    BY <1>24, DropJobsStep, IdleFits DEF PcOnly, Same, Alike, OpFits, LoopFits, CreateLocations,
       DeleteLocations, Dropping, Creating
  <2> QED
    BY <1>24, <2>1, DropJobsStep DEF Others
<1>25. ASSUME NEW r \in Requests, DropScheduleRow(r) PROVE HandlersFit'
  <2>1. OpFits(task'[r]) /\ LoopFits(task'[r])
    BY <1>25, DropScheduleRowStep, IdleFits DEF Loops, PcOnly, Same, Alike, OpFits, LoopFits,
       CreateLocations, DeleteLocations, Dropping, Creating
  <2> QED
    BY <1>25, <2>1, DropScheduleRowStep DEF Others
<1>26. ASSUME NEW r \in Requests, DropConnection(r) PROVE HandlersFit'
  <2>1. OpFits(task'[r]) /\ LoopFits(task'[r])
    BY <1>26, DropConnectionStep, IdleFits DEF PcOnly, Same, Alike, OpFits, LoopFits,
       CreateLocations, DeleteLocations, Dropping, Creating
  <2> QED
    BY <1>26, <2>1, DropConnectionStep DEF Others
<1>27. ASSUME NEW r \in Requests, DropConfig(r) PROVE HandlersFit'
  <2>1. OpFits(task'[r]) /\ LoopFits(task'[r])
    BY <1>27, DropConfigStep, IdleFits DEF PcOnly, Same, Alike, OpFits, LoopFits,
       CreateLocations, DeleteLocations, Dropping, Creating
  <2> QED
    BY <1>27, <2>1, DropConfigStep DEF Others
<1>28. ASSUME NEW r \in Requests, ReadSchedule(r) PROVE HandlersFit'
  <2>1. OpFits(task'[r]) /\ LoopFits(task'[r])
    BY <1>28, ReadScheduleStep, IdleFits DEF Loops, PcOnly, Same, Alike, OpFits, LoopFits,
       CreateLocations, DeleteLocations, Dropping, Creating
  <2> QED
    BY <1>28, <2>1, ReadScheduleStep DEF Others
<1>29. ASSUME NEW r \in Requests, Pause(r) PROVE HandlersFit'
  <2>1. OpFits(task'[r]) /\ LoopFits(task'[r])
    BY <1>29, PauseStep, IdleFits DEF PcOnly, Same, Alike, OpFits, LoopFits, CreateLocations,
       DeleteLocations, Dropping, Creating
  <2> QED
    BY <1>29, <2>1, PauseStep DEF Others
<1>30. ASSUME NEW r \in Requests, Unpause(r) PROVE HandlersFit'
  <2>1. OpFits(task'[r]) /\ LoopFits(task'[r])
    BY <1>30, UnpauseStep, IdleFits DEF PcOnly, Same, Alike, OpFits, LoopFits, CreateLocations,
       DeleteLocations, Dropping, Creating
  <2> QED
    BY <1>30, <2>1, UnpauseStep DEF Others
<1>31. ASSUME NEW r \in Requests, TriggerAndReadFrequency(r) PROVE HandlersFit'
  <2>1. OpFits(task'[r]) /\ LoopFits(task'[r])
    BY <1>31, TriggerAndReadFrequencyStep, IdleFits DEF PcOnly, Same, Alike, OpFits, LoopFits,
       CreateLocations, DeleteLocations, Dropping, Creating
  <2> QED
    BY <1>31, <2>1, TriggerAndReadFrequencyStep DEF Others
<1>32. ASSUME NEW r \in Requests, SetStatus(r) PROVE HandlersFit'
  <2>1. OpFits(task'[r]) /\ LoopFits(task'[r])
    BY <1>32, SetStatusStep, IdleFits DEF Loops, PcOnly, Same, Alike, OpFits, LoopFits,
       CreateLocations, DeleteLocations, Dropping, Creating
  <2> QED
    BY <1>32, <2>1, SetStatusStep DEF Others
<1>33. ASSUME NEW r \in Requests, Describe(r) PROVE HandlersFit'
  <2>1. task[r].pc = "describe" /\ (Exists(task[r].sync)
           => sched[task[r].sync] \in {"running", "paused"})
    BY <1>33, DescribeStep DEF SyncsFit, SyncFits, Commanding, Inserted, Exists, TypeOK
  <2>2. OpFits(task'[r]) /\ LoopFits(task'[r])
    BY <1>33, <2>1, DescribeStep, IdleFits DEF GoesOn, Loops, Same, Alike, OpFits, LoopFits,
       CreateLocations, DeleteLocations, Dropping, Creating
  <2> QED
    BY <1>33, <2>2, DescribeStep DEF Others
<1>34. ASSUME NEW r \in Requests, UpdateSchedule(r) PROVE HandlersFit'
  <2>1. OpFits(task'[r]) /\ LoopFits(task'[r])
    BY <1>34, UpdateScheduleStep, IdleFits DEF GoesOn, Loops, PcOnly, Same, Alike, OpFits,
       LoopFits, CreateLocations, DeleteLocations, Dropping, Creating
  <2> QED
    BY <1>34, <2>1, UpdateScheduleStep DEF Others
<1>35. ASSUME NEW r \in Requests, Compare(r) PROVE HandlersFit'
  <2>1. OpFits(task'[r]) /\ LoopFits(task'[r])
    BY <1>35, CompareStep, IdleFits DEF Loops, PcOnly, Same, Alike, OpFits, LoopFits,
       CreateLocations, DeleteLocations, Dropping, Creating
  <2> QED
    BY <1>35, <2>1, CompareStep DEF Others
<1>36. ASSUME NEW r \in Requests, WriteFrequency(r) PROVE HandlersFit'
  <2>1. OpFits(task'[r]) /\ LoopFits(task'[r])
    BY <1>36, WriteFrequencyStep, IdleFits DEF PcOnly, Same, Alike, OpFits, LoopFits,
       CreateLocations, DeleteLocations, Dropping, Creating
  <2> QED
    BY <1>36, <2>1, WriteFrequencyStep DEF Others
<1>37. ASSUME NEW r \in Requests, WriteConfig(r) PROVE HandlersFit'
  <2>1. OpFits(task'[r]) /\ LoopFits(task'[r])
    BY <1>37, WriteConfigStep, IdleFits DEF PcOnly, Same, Alike, OpFits, LoopFits,
       CreateLocations, DeleteLocations, Dropping, Creating
  <2> QED
    BY <1>37, <2>1, WriteConfigStep DEF Others
<1>38. ASSUME NEW r \in Requests, NEW preBuilt \in BOOLEAN, NEW auto \in BOOLEAN,
              Reconcile(r, preBuilt, auto)
      PROVE HandlersFit'
  <2>1. task'[r] = Idle \/ (One(task'[r].conn) /\ task'[r].op = "create" /\ task'[r].pc = "look"
                               /\ task'[r].then = "idle" /\ task'[r].freq = task[r].freq)
    BY <1>38, ReconcileStep DEF One, TypeOK
  <2>2. Others(r) /\ task[r].pc = "reconcile"
    BY <1>38, ReconcileStep
  <2>3. OpFits(task'[r]) /\ LoopFits(task'[r])
    BY <2>1, <2>2, IdleFits DEF OpFits, LoopFits, CreateLocations, DeleteLocations, Dropping,
       Creating
  <2> QED
    BY <2>2, <2>3 DEF Others
<1>39. ASSUME NEW r \in Requests, MarkAllAsStopped(r) PROVE HandlersFit'
  <2>1. OpFits(task'[r]) /\ LoopFits(task'[r])
    BY <1>39, MarkAllAsStoppedStep, IdleFits DEF PcOnly, Same, Alike, OpFits, LoopFits,
       CreateLocations, DeleteLocations, Dropping, Creating
  <2> QED
    BY <1>39, <2>1, MarkAllAsStoppedStep DEF Others
<1>40. ASSUME NEW r \in Requests, CallFails(r) PROVE HandlersFit'
  <2>1. OpFits(task'[r]) /\ LoopFits(task'[r])
    BY <1>40, CallFailsStep, IdleFits DEF GoesOn, Loops, PcOnly, Same, Alike, OpFits, LoopFits,
       CreateLocations, DeleteLocations, Dropping, Creating
  <2> QED
    BY <1>40, <2>1, CallFailsStep DEF Others
<1>41. ASSUME NEW r \in Requests, CutShort(r) PROVE HandlersFit'
  <2>1. OpFits(task'[r]) /\ LoopFits(task'[r])
    BY <1>41, CutShortStep, IdleFits DEF PcOnly, Same, Alike, OpFits, LoopFits, CreateLocations,
       DeleteLocations, Dropping, Creating
  <2> QED
    BY <1>41, <2>1, CutShortStep DEF Others
<1>42. ASSUME NEW s \in Syncs, NEW outcome \in {"SUCCESS", "STOPPED"}, JobEnds(s, outcome)
      PROVE HandlersFit'
  BY <1>42 DEF JobEnds
<1>43. CASE UNCHANGED vars
  BY <1>43 DEF vars
<1> QED
  BY <1>1, <1>2, <1>3, <1>4, <1>5, <1>6, <1>7, <1>8, <1>9, <1>10, <1>11, <1>12, <1>13, <1>14,
     <1>15, <1>16, <1>17, <1>18, <1>19, <1>20, <1>21, <1>22, <1>23, <1>24, <1>25, <1>26, <1>27,
     <1>28, <1>29, <1>30, <1>31, <1>32, <1>33, <1>34, <1>35, <1>36, <1>37, <1>38, <1>39, <1>40,
     <1>41, <1>42, <1>43, Cases DEF Acts, Arrivals

LEMMA LoopGoes ==
    ASSUME NEW t \in Tasks, NEW u, NEW pc, Loops(t, u, pc)
    PROVE  /\ u.todo \subseteq t.todo /\ u.op \in {t.op, "idle"}
           /\ \/ u.pc \in {"idle", "dropConnection", "dropConfig", "findSync", "writeConfig"}
              \/ u.pc = pc /\ u.sync \in t.todo
  BY DEF Loops, Same, Alike, Idle, Tasks

LEMMA UpdateGoes ==
    ASSUME NEW t \in Tasks, NEW u, GoesOn(t, u)
    PROVE  /\ u.todo \subseteq t.todo /\ u.op \in {t.op, "idle"}
           /\ \/ u.pc \in {"idle", "dropConnection", "dropConfig", "findSync", "writeConfig"}
              \/ u.pc = "setStatus" /\ u.sync = t.sync
              \/ u.pc = "compare" /\ u.sync \in t.todo
<1>1. CASE t.op = "unpause"
  BY <1>1 DEF GoesOn, Same, Alike
<1>2. CASE t.op # "unpause"
  BY <1>2, LoopGoes DEF GoesOn
<1> QED
  BY <1>1, <1>2

LEMMA NextSyncsFit ==
    ASSUME TypeOK, HandlersFit, SyncsFit, RowsFit, Next \/ UNCHANGED vars
    PROVE  SyncsFit'
<1> USE DEF Commanding, SyncsFit, Inserted
<1>1. ASSUME NEW r \in Requests, NEW c \in Connections, NEW auto \in BOOLEAN,
             Initiate(r, c, auto)
      PROVE SyncsFit'
  BY <1>1, InitiateStep DEF Others, Still, PcOnly, Same, Alike, SyncFits, SyncsOf, Live,
     Scheduled, Creating, Dropping
<1>2. ASSUME NEW r \in Requests, NEW c \in Connections, DeleteConnection(r, c) PROVE SyncsFit'
  BY <1>2, DeleteConnectionStep DEF Others, Still, PcOnly, Same, Alike, SyncFits, SyncsOf, Live,
     Scheduled, Creating, Dropping
<1>3. ASSUME NEW r \in Requests, DeleteFlow(r) PROVE SyncsFit'
  BY <1>3, DeleteFlowStep DEF Others, Still, PcOnly, Same, Alike, SyncFits, SyncsOf, Live,
     Scheduled, Creating, Dropping
<1>4. ASSUME NEW r \in Requests, ReconcileDeletion(r) PROVE SyncsFit'
  BY <1>4, ReconcileDeletionStep DEF Others, Still, PcOnly, Same, Alike, SyncFits, SyncsOf, Live,
     Scheduled, Creating, Dropping
<1>5. ASSUME NEW r \in Requests, NEW command \in {"pause", "unpause"},
             NEW syncs \in SUBSET SyncsOf(connected), Command(r, command, syncs)
      PROVE SyncsFit'
  BY <1>5, CommandStep DEF Others, Still, PcOnly, Same, Alike, SyncFits, SyncsOf, Live,
     Scheduled, Creating, Dropping
<1>6. ASSUME NEW r \in Requests, NEW command \in {"pause", "unpause"}, NEW s \in Syncs,
             CommandById(r, command, s)
      PROVE SyncsFit'
  <2>1. /\ row' = row /\ status' = status /\ task'[r].todo = {} /\ task'[r].sync \in Inserted
        /\ status[task'[r].sync] # "none" /\ task'[r].pc \in {"pause", "unpause"}
    BY <1>6, CommandByIdStep DEF Still, Scheduled, RowsFit
  <2>2. SyncFits(task[r])'
    BY <1>6, CommandByIdStep, <2>1 DEF SyncFits, Creating, Dropping
  <2>3. ASSUME NEW q \in Requests \ {r} PROVE SyncFits(task[q])'
    BY <1>6, CommandByIdStep, <2>1 DEF SyncFits, Creating, Dropping, Others
  <2> QED
    BY <2>2, <2>3
<1>7. ASSUME NEW r \in Requests, NEW f \in Frequencies, Deploy(r, f) PROVE SyncsFit'
  <2>1. /\ row' = row /\ status' = status /\ SyncsOf(connected) \subseteq Inserted
        /\ task'[r].todo \subseteq SyncsOf(connected)
        /\ task'[r].pc = "writeConfig" \/ (task'[r].pc = "compare"
              /\ task'[r].sync \in SyncsOf(connected))
    <3>1. row' = row /\ status' = status /\ SyncsOf(connected) \subseteq Inserted
      BY <1>7, DeployStep DEF Still, SyncsOf, Live
    <3>2. CASE config = NoFrequency
      BY <1>7, DeployStep, <3>1, <3>2
    <3>3. CASE config # NoFrequency
      BY <1>7, DeployStep, <3>1, <3>3
    <3> QED
      BY <3>2, <3>3
  <2>2. SyncFits(task[r])'
    BY <1>7, DeployStep, <2>1 DEF SyncFits, Creating, Dropping
  <2>3. ASSUME NEW q \in Requests \ {r} PROVE SyncFits(task[q])'
    BY <1>7, DeployStep, <2>1 DEF SyncFits, Creating, Dropping, Others
  <2> QED
    BY <2>2, <2>3
<1>8. ASSUME NEW r \in Requests, ListSchedules(r) PROVE SyncsFit'
  BY <1>8, ListSchedulesStep DEF Others, Still, PcOnly, Same, Alike, SyncFits, SyncsOf, Live,
     Scheduled, Creating, Dropping
<1>9. ASSUME NEW r \in Requests, Look(r) PROVE SyncsFit'
  BY <1>9, LookStep DEF LoopsOver, Idle, Others, Still, PcOnly, Same, Alike, SyncFits, Creating,
     Dropping
<1>10. ASSUME NEW r \in Requests, FindExisting(r) PROVE SyncsFit'
  BY <1>10, FindExistingStep DEF Idle, Others, Still, PcOnly, Same, Alike, SyncFits, Creating,
     Dropping
<1>11. ASSUME NEW r \in Requests, NEW i \in Syncs, InsertSync(r, i) PROVE SyncsFit'
  <2>1. Inserted' = Inserted \union {i}
    BY <1>11, InsertSyncStep
  <2>2. SyncFits(task[r])'
    BY <1>11, InsertSyncStep, <2>1 DEF SyncFits, Creating, Dropping, RowsFit, Same
  <2>3. ASSUME NEW q \in Requests \ {r} PROVE SyncFits(task[q])'
    BY <1>11, InsertSyncStep, <2>1 DEF SyncFits, Creating, Dropping, Others
  <2> QED
    BY <2>2, <2>3
<1>12. ASSUME NEW r \in Requests, InsertJob(r) PROVE SyncsFit'
  BY <1>12, InsertJobStep DEF Others, Still, PcOnly, Same, Alike, SyncFits, Creating, Dropping
<1>13. ASSUME NEW r \in Requests, InsertJobFails(r) PROVE SyncsFit'
  BY <1>13, InsertJobFailsStep DEF Others, Still, PcOnly, Same, Alike, SyncFits, Creating,
     Dropping
<1>14. ASSUME NEW r \in Requests, StartWorkflow(r) PROVE SyncsFit'
  BY <1>14, StartWorkflowStep DEF Others, Still, PcOnly, Same, Alike, SyncFits, Creating, Dropping
<1>15. ASSUME NEW r \in Requests, CreateSchedule(r) PROVE SyncsFit'
  BY <1>15, CreateScheduleStep DEF Others, Still, PcOnly, Same, Alike, SyncFits, Creating,
     Dropping
<1>16. ASSUME NEW r \in Requests, PauseSchedule(r) PROVE SyncsFit'
  BY <1>16, PauseScheduleStep DEF Others, Still, PcOnly, Same, Alike, SyncFits, Creating, Dropping
<1>17. ASSUME NEW r \in Requests, InsertSchedule(r) PROVE SyncsFit'
  BY <1>17, InsertScheduleStep DEF LoopsOver, Idle, Others, Still, PcOnly, Same, Alike, RowsFit,
     SyncFits, Creating, Dropping
<1>18. ASSUME NEW r \in Requests, StartFails(r) PROVE SyncsFit'
  BY <1>18, StartFailsStep DEF LoopsOver, Idle, Others, Still, PcOnly, Same, Alike, SyncFits,
     Creating, Dropping
<1>19. ASSUME NEW r \in Requests, DropFlow(r) PROVE SyncsFit'
  BY <1>19, DropFlowStep DEF Others, Still, PcOnly, Same, Alike, SyncFits, Creating, Dropping
<1>20. ASSUME NEW r \in Requests, FindSync(r) PROVE SyncsFit'
  BY <1>20, FindSyncStep DEF Idle, Others, Still, PcOnly, Same, Alike, SyncFits, SyncsOf, Live,
     Scheduled, Creating, Dropping
<1>21. ASSUME NEW r \in Requests, GetSchedule(r) PROVE SyncsFit'
  BY <1>21, GetScheduleStep DEF Others, Still, PcOnly, Same, Alike, SyncFits, SyncsOf, Live,
     Scheduled, Creating, Dropping
<1>22. ASSUME NEW r \in Requests, DropSchedule(r) PROVE SyncsFit'
  BY <1>22, DropScheduleStep DEF Others, Still, PcOnly, Same, Alike, SyncFits, Creating, Dropping
<1>23. ASSUME NEW r \in Requests, DropSync(r) PROVE SyncsFit'
  BY <1>23, DropSyncStep DEF Others, Still, PcOnly, Same, Alike, SyncFits, Creating, Dropping
<1>24. ASSUME NEW r \in Requests, DropJobs(r) PROVE SyncsFit'
  BY <1>24, DropJobsStep DEF Others, Still, PcOnly, Same, Alike, SyncFits, Creating, Dropping
<1>25. ASSUME NEW r \in Requests, DropScheduleRow(r) PROVE SyncsFit'
  <2>1. /\ row' = row /\ task'[r].todo \subseteq task[r].todo
        /\ \/ task'[r].pc \in {"idle", "dropConnection", "dropConfig", "findSync", "writeConfig"}
           \/ task'[r].pc = "getSchedule" /\ task'[r].sync \in task[r].todo
    BY <1>25, DropScheduleRowStep, LoopGoes DEF TypeOK
  <2>2. SyncFits(task[r])'
    BY <1>25, DropScheduleRowStep, <2>1 DEF SyncFits, Creating, Dropping
  <2>3. ASSUME NEW q \in Requests \ {r} PROVE SyncFits(task[q])'
    BY <1>25, DropScheduleRowStep, <2>1 DEF SyncFits, Creating, Dropping, Others
  <2> QED
    BY <2>2, <2>3
<1>26. ASSUME NEW r \in Requests, DropConnection(r) PROVE SyncsFit'
  BY <1>26, DropConnectionStep DEF Idle, Others, Still, PcOnly, Same, Alike, SyncFits, Creating,
     Dropping
<1>27. ASSUME NEW r \in Requests, DropConfig(r) PROVE SyncsFit'
  BY <1>27, DropConfigStep DEF Idle, Others, Still, PcOnly, Same, Alike, SyncFits, Creating,
     Dropping
<1>28. ASSUME NEW r \in Requests, ReadSchedule(r) PROVE SyncsFit'
  <2>1. /\ row' = row /\ status' = status
        /\ \/ /\ Scheduled(task[r].sync) /\ task'[r].pc \in {"pause", "unpause"}
              /\ task'[r].sync = task[r].sync /\ task'[r].todo = task[r].todo
           \/ /\ task'[r].todo \subseteq task[r].todo
              /\ \/ task'[r].pc \in {"idle", "dropConnection", "dropConfig", "findSync", "writeConfig"}
                 \/ task'[r].pc = "readSchedule" /\ task'[r].sync \in task[r].todo
    BY <1>28, ReadScheduleStep, LoopGoes DEF TypeOK, PcOnly, Same, Still, HandlersFit, OpFits
  <2>2. SyncFits(task[r])'
    BY <1>28, ReadScheduleStep, <2>1 DEF SyncFits, Creating, Dropping, Scheduled
  <2>3. ASSUME NEW q \in Requests \ {r} PROVE SyncFits(task[q])'
    BY <1>28, ReadScheduleStep, <2>1 DEF SyncFits, Creating, Dropping, Others
  <2> QED
    BY <2>2, <2>3
<1>29. ASSUME NEW r \in Requests, Pause(r) PROVE SyncsFit'
  BY <1>29, PauseStep DEF Others, Still, PcOnly, Same, Alike, SyncFits, Creating, Dropping
<1>30. ASSUME NEW r \in Requests, Unpause(r) PROVE SyncsFit'
  BY <1>30, UnpauseStep DEF Others, Still, PcOnly, Same, Alike, SyncFits, Creating, Dropping
<1>31. ASSUME NEW r \in Requests, TriggerAndReadFrequency(r) PROVE SyncsFit'
  BY <1>31, TriggerAndReadFrequencyStep DEF Others, Still, PcOnly, Same, Alike, SyncFits,
     Creating, Dropping
<1>32. ASSUME NEW r \in Requests, SetStatus(r) PROVE SyncsFit'
  <2>1. /\ row' = row /\ task'[r].todo \subseteq task[r].todo
        /\ \/ task'[r].pc \in {"idle", "dropConnection", "dropConfig", "findSync", "writeConfig"}
           \/ task'[r].pc = "readSchedule" /\ task'[r].sync \in task[r].todo
    BY <1>32, SetStatusStep, LoopGoes DEF TypeOK
  <2>2. SyncFits(task[r])'
    BY <1>32, SetStatusStep, <2>1 DEF SyncFits, Creating, Dropping, Scheduled
  <2>3. ASSUME NEW q \in Requests \ {r} PROVE SyncFits(task[q])'
    BY <1>32, SetStatusStep, <2>1 DEF SyncFits, Creating, Dropping, Others, Scheduled
  <2> QED
    BY <2>2, <2>3
<1>33. ASSUME NEW r \in Requests, Describe(r) PROVE SyncsFit'
  <2>1. /\ row' = row /\ status' = status
        /\ \/ /\ task'[r].pc = "update"
              /\ task'[r].sync = task[r].sync /\ task'[r].todo = task[r].todo
           \/ /\ task'[r].todo \subseteq task[r].todo
              /\ \/ task'[r].pc \in {"idle", "dropConnection", "dropConfig", "findSync", "writeConfig"}
                 \/ task'[r].pc = "compare" /\ task'[r].sync \in task[r].todo
                 \/ task'[r].pc = "setStatus" /\ task'[r].sync = task[r].sync
    BY <1>33, DescribeStep, UpdateGoes DEF TypeOK, Same, Still
  <2>2. SyncFits(task[r])'
    BY <1>33, DescribeStep, <2>1 DEF SyncFits, Creating, Dropping
  <2>3. ASSUME NEW q \in Requests \ {r} PROVE SyncFits(task[q])'
    BY <1>33, DescribeStep, <2>1 DEF SyncFits, Creating, Dropping, Others
  <2> QED
    BY <2>2, <2>3
<1>34. ASSUME NEW r \in Requests, UpdateSchedule(r) PROVE SyncsFit'
  <2>1. /\ row' = row /\ status' = status /\ task'[r].todo \subseteq task[r].todo
        /\ \/ task'[r].pc \in {"idle", "dropConnection", "dropConfig", "findSync", "writeConfig"}
           \/ task'[r].pc = "compare" /\ task'[r].sync \in task[r].todo
           \/ task'[r].pc = "setStatus" /\ task'[r].sync = task[r].sync
    BY <1>34, UpdateScheduleStep, UpdateGoes DEF TypeOK
  <2>2. SyncFits(task[r])'
    BY <1>34, UpdateScheduleStep, <2>1 DEF SyncFits, Creating, Dropping
  <2>3. ASSUME NEW q \in Requests \ {r} PROVE SyncFits(task[q])'
    BY <1>34, UpdateScheduleStep, <2>1 DEF SyncFits, Creating, Dropping, Others
  <2> QED
    BY <2>2, <2>3
<1>35. ASSUME NEW r \in Requests, Compare(r) PROVE SyncsFit'
  <2>1. /\ row' = row /\ status' = status
        /\ \/ /\ Scheduled(task[r].sync) /\ task'[r].pc = "writeFrequency"
              /\ task'[r].sync = task[r].sync /\ task'[r].todo = task[r].todo
           \/ /\ task'[r].todo \subseteq task[r].todo
              /\ \/ task'[r].pc \in {"idle", "dropConnection", "dropConfig", "findSync", "writeConfig"}
                 \/ task'[r].pc = "compare" /\ task'[r].sync \in task[r].todo
    BY <1>35, CompareStep, LoopGoes DEF TypeOK, PcOnly, Same, Still
  <2>2. SyncFits(task[r])'
    BY <1>35, CompareStep, <2>1 DEF SyncFits, Creating, Dropping, Scheduled
  <2>3. ASSUME NEW q \in Requests \ {r} PROVE SyncFits(task[q])'
    BY <1>35, CompareStep, <2>1 DEF SyncFits, Creating, Dropping, Others
  <2> QED
    BY <2>2, <2>3
<1>36. ASSUME NEW r \in Requests, WriteFrequency(r) PROVE SyncsFit'
  BY <1>36, WriteFrequencyStep DEF Others, Still, PcOnly, Same, Alike, SyncFits, Creating,
     Dropping
<1>37. ASSUME NEW r \in Requests, WriteConfig(r) PROVE SyncsFit'
  BY <1>37, WriteConfigStep DEF Others, Still, PcOnly, Same, Alike, SyncFits, Creating, Dropping
<1>38. ASSUME NEW r \in Requests, NEW preBuilt \in BOOLEAN, NEW auto \in BOOLEAN,
              Reconcile(r, preBuilt, auto)
      PROVE SyncsFit'
  BY <1>38, ReconcileStep DEF Idle, Others, Still, PcOnly, Same, Alike, SyncFits, SyncsOf, Live,
     Scheduled, Creating, Dropping
<1>39. ASSUME NEW r \in Requests, MarkAllAsStopped(r) PROVE SyncsFit'
  BY <1>39, MarkAllAsStoppedStep DEF Idle, Others, Still, PcOnly, Same, Alike, SyncFits, SyncsOf,
     Live, Scheduled, Creating, Dropping
<1>40. ASSUME NEW r \in Requests, CallFails(r) PROVE SyncsFit'
  <2>1. /\ row' = row /\ status' = status
        /\ \/ /\ task[r].pc = "dropSchedule" /\ task'[r].pc = "dropSync"
              /\ task'[r].sync = task[r].sync /\ task'[r].todo = task[r].todo
           \/ /\ task[r].pc \in Commanding /\ task'[r].pc = "setStatus"
              /\ task'[r].sync = task[r].sync /\ task'[r].todo \subseteq task[r].todo
           \/ /\ task'[r].todo \subseteq task[r].todo
              /\ \/ task'[r].pc \in {"idle", "dropConnection", "dropConfig", "findSync", "writeConfig"}
                 \/ task'[r].pc \in {"compare", "readSchedule"}
                       /\ task'[r].sync \in task[r].todo
    <3>1. row' = row /\ status' = status /\ task[r] \in Tasks
      BY <1>40, CallFailsStep DEF Still, TypeOK
    <3>2. CASE GoesOn(task[r], task'[r]) /\ task[r].pc \in {"describe", "update"}
      BY <3>1, <3>2, UpdateGoes
    <3>3. CASE Loops(task[r], task'[r], "readSchedule")
      BY <3>1, <3>3, LoopGoes
    <3> QED
      BY <1>40, CallFailsStep, <3>1, <3>2, <3>3 DEF PcOnly, Same
  <2>2. SyncFits(task[r])'
    BY <1>40, CallFailsStep, <2>1 DEF SyncFits, Creating, Dropping
  <2>3. ASSUME NEW q \in Requests \ {r} PROVE SyncFits(task[q])'
    BY <1>40, CallFailsStep, <2>1 DEF SyncFits, Creating, Dropping, Others
  <2> QED
    BY <2>2, <2>3
<1>41. ASSUME NEW r \in Requests, CutShort(r) PROVE SyncsFit'
  BY <1>41, CutShortStep DEF Idle, Others, Still, PcOnly, Same, Alike, SyncFits, Creating,
     Dropping
<1>42. ASSUME NEW s \in Syncs, NEW outcome \in {"SUCCESS", "STOPPED"}, JobEnds(s, outcome)
      PROVE SyncsFit'
  BY <1>42 DEF JobEnds, syncVars, jobVars, temporalVars, scheduleVars, envVars, SyncFits,
     Creating, Dropping
<1>43. CASE UNCHANGED vars
  BY <1>43 DEF vars, syncVars, jobVars, temporalVars, scheduleVars, envVars, SyncFits, Creating,
     Dropping
<1> QED
  BY <1>1, <1>2, <1>3, <1>4, <1>5, <1>6, <1>7, <1>8, <1>9, <1>10, <1>11, <1>12, <1>13, <1>14,
     <1>15, <1>16, <1>17, <1>18, <1>19, <1>20, <1>21, <1>22, <1>23, <1>24, <1>25, <1>26, <1>27,
     <1>28, <1>29, <1>30, <1>31, <1>32, <1>33, <1>34, <1>35, <1>36, <1>37, <1>38, <1>39, <1>40,
     <1>41, <1>42, <1>43, Cases DEF Acts, Arrivals

LEMMA NextRowsFit ==
    ASSUME TypeOK, HandlersFit, SyncsFit, RowsFit, TypeOK', HandlersFit', Next \/ UNCHANGED vars
    PROVE  RowsFit'
<1>1. ASSUME NEW r \in Requests, NEW c \in Connections, NEW auto \in BOOLEAN,
             Initiate(r, c, auto)
      PROVE RowsFit'
  BY <1>1, InitiateStep DEF Others, Still, PcOnly, Same, Alike, RowsFit, Inserted, Creating
<1>2. ASSUME NEW r \in Requests, NEW c \in Connections, DeleteConnection(r, c) PROVE RowsFit'
  <2>1. /\ Others(r) /\ Still /\ task'[r].pc \in {"dropConnection", "getSchedule"}
    BY <1>2, DeleteConnectionStep
  <2> QED
    BY <2>1 DEF RowsFit, Inserted, Creating, Still, Others
<1>3. ASSUME NEW r \in Requests, DeleteFlow(r) PROVE RowsFit'
  BY <1>3, DeleteFlowStep DEF Others, Still, PcOnly, Same, Alike, RowsFit, Inserted, Creating
<1>4. ASSUME NEW r \in Requests, ReconcileDeletion(r) PROVE RowsFit'
  BY <1>4, ReconcileDeletionStep DEF Others, Still, PcOnly, Same, Alike, RowsFit, Inserted,
     Creating
<1>5. ASSUME NEW r \in Requests, NEW command \in {"pause", "unpause"},
             NEW syncs \in SUBSET SyncsOf(connected), Command(r, command, syncs)
      PROVE RowsFit'
  BY <1>5, CommandStep DEF Others, Still, PcOnly, Same, Alike, RowsFit, Inserted, Creating
<1>6. ASSUME NEW r \in Requests, NEW command \in {"pause", "unpause"}, NEW s \in Syncs,
             CommandById(r, command, s)
      PROVE RowsFit'
  BY <1>6, CommandByIdStep DEF Others, Still, PcOnly, Same, Alike, RowsFit, Inserted, Creating
<1>7. ASSUME NEW r \in Requests, NEW f \in Frequencies, Deploy(r, f) PROVE RowsFit'
  BY <1>7, DeployStep DEF Others, Still, PcOnly, Same, Alike, RowsFit, Inserted, Creating
<1>8. ASSUME NEW r \in Requests, ListSchedules(r) PROVE RowsFit'
  BY <1>8, ListSchedulesStep DEF Others, Still, PcOnly, Same, Alike, RowsFit, Inserted, Creating
<1>9. ASSUME NEW r \in Requests, Look(r) PROVE RowsFit'
  BY <1>9, LookStep DEF LoopsOver, Idle, Others, Still, PcOnly, Same, Alike, RowsFit, Inserted,
     Creating
<1>10. ASSUME NEW r \in Requests, FindExisting(r) PROVE RowsFit'
  BY <1>10, FindExistingStep DEF Idle, Others, Still, PcOnly, Same, Alike, RowsFit, Inserted,
     Creating
<1>11. ASSUME NEW r \in Requests, NEW i \in Syncs, InsertSync(r, i) PROVE RowsFit'
  <2>1. Inserted' = Inserted \union {i} /\ i \notin Inserted
    BY <1>11, InsertSyncStep DEF Inserted
  <2>2. One(task[r].conn)
    BY <1>11, InsertSyncStep DEF HandlersFit, OpFits, LoopFits, CreateLocations
  <2>3. \A s \in Inserted' : One(owner'[s])
    BY <1>11, InsertSyncStep, <2>1, <2>2 DEF RowsFit, Inserted
  <2>4. ASSUME NEW q \in Requests \ {r}, task'[q].pc \in Creating
        PROVE  task'[q].sync = task[q].sync /\ task[q].pc \in Creating /\ task'[q].sync # i
    BY <1>11, InsertSyncStep, <2>1, <2>4 DEF SyncsFit, SyncFits, Others
  <2> QED
    BY <1>11, InsertSyncStep, <2>3, <2>4 DEF RowsFit
<1>12. ASSUME NEW r \in Requests, InsertJob(r) PROVE RowsFit'
  BY <1>12, InsertJobStep DEF Others, Still, PcOnly, Same, Alike, RowsFit, Inserted, Creating
<1>13. ASSUME NEW r \in Requests, InsertJobFails(r) PROVE RowsFit'
  BY <1>13, InsertJobFailsStep DEF Others, Still, PcOnly, Same, Alike, RowsFit, Inserted,
     Creating
<1>14. ASSUME NEW r \in Requests, StartWorkflow(r) PROVE RowsFit'
  BY <1>14, StartWorkflowStep DEF Others, Still, PcOnly, Same, Alike, RowsFit, Inserted,
     Creating
<1>15. ASSUME NEW r \in Requests, CreateSchedule(r) PROVE RowsFit'
  <2>1. \A q \in Requests : task'[q].pc \in Creating
           => task[q].pc \in Creating /\ task'[q].sync = task[q].sync
    BY <1>15, CreateScheduleStep DEF HandlersFit, OpFits, CreateLocations, Creating, Others,
       PcOnly, Alike
  <2>2. task[r].sync \in Inserted
    BY <1>15, CreateScheduleStep DEF SyncsFit, SyncFits, Creating, Dropping, Commanding
  <2> QED
    BY <1>15, <2>1, <2>2, CreateScheduleStep DEF RowsFit, Inserted, Still, Scheduled, Live
<1>16. ASSUME NEW r \in Requests, PauseSchedule(r) PROVE RowsFit'
  <2>1. \A q \in Requests : task'[q].pc \in Creating
           => task[q].pc \in Creating /\ task'[q].sync = task[q].sync
    BY <1>16, PauseScheduleStep DEF HandlersFit, OpFits, CreateLocations, Creating, Others,
       PcOnly, Alike
  <2>2. task[r].sync \in Inserted
    BY <1>16, PauseScheduleStep DEF SyncsFit, SyncFits, Creating, Dropping, Commanding
  <2> QED
    BY <1>16, <2>1, <2>2, PauseScheduleStep DEF RowsFit, Inserted, Still, Scheduled, Live
<1>17. ASSUME NEW r \in Requests, InsertSchedule(r) PROVE RowsFit'
  <2>1. \A q \in Requests : task'[q].pc \in Creating
           => task[q].pc \in Creating /\ task'[q].sync = task[q].sync
    <3>1. Others(r) /\ task'[r].pc \notin Creating
      BY <1>17, InsertScheduleStep DEF Creating, Idle, LoopsOver
    <3> QED
      BY <3>1 DEF Others
  <2>2. task[r].sync \in Inserted
    BY <1>17, InsertScheduleStep DEF SyncsFit, SyncFits, Creating, Dropping, Commanding
  <2> QED
    BY <1>17, <2>1, <2>2, InsertScheduleStep DEF RowsFit, Inserted, Still, Scheduled, Live
<1>18. ASSUME NEW r \in Requests, StartFails(r) PROVE RowsFit'
  BY <1>18, StartFailsStep DEF LoopsOver, Idle, Others, Still, PcOnly, Same, Alike, RowsFit,
     Inserted, Creating
<1>19. ASSUME NEW r \in Requests, DropFlow(r) PROVE RowsFit'
  BY <1>19, DropFlowStep DEF Others, Still, PcOnly, Same, Alike, RowsFit, Inserted, Creating
<1>20. ASSUME NEW r \in Requests, FindSync(r) PROVE RowsFit'
  <2>1. \A q \in Requests : task'[q].pc \in Creating
           => task[q].pc \in Creating /\ task'[q].sync = task[q].sync
    <3>1. Others(r) /\ task'[r].pc \notin Creating
      <4>1. Others(r)
        BY <1>20, FindSyncStep
      <4>2. task'[r].pc \in {"idle", "findSync", "getSchedule"}
        <5>1. task'[r] = Idle \/ task'[r].pc \in {"findSync", "getSchedule"}
          BY <1>20, FindSyncStep
        <5> QED
          BY <5>1 DEF Idle
      <4> QED
        BY <4>1, <4>2 DEF Creating
    <3> QED
      BY <3>1 DEF Others
  <2> QED
    BY <1>20, <2>1, FindSyncStep DEF RowsFit, Inserted, Still, Scheduled
<1>21. ASSUME NEW r \in Requests, GetSchedule(r) PROVE RowsFit'
  BY <1>21, GetScheduleStep DEF Others, Still, PcOnly, Same, Alike, RowsFit, Inserted, Creating
<1>22. ASSUME NEW r \in Requests, DropSchedule(r) PROVE RowsFit'
  BY <1>22, DropScheduleStep DEF Others, Still, PcOnly, Same, Alike, RowsFit, Inserted, Creating
<1>23. ASSUME NEW r \in Requests, DropSync(r) PROVE RowsFit'
  <2>1. \A q \in Requests : task'[q].pc \in Creating
           => task[q].pc \in Creating /\ task'[q].sync = task[q].sync
    BY <1>23, DropSyncStep DEF HandlersFit, OpFits, CreateLocations, Creating, Others, PcOnly,
       Alike
  <2>2. task[r].sync \in Inserted
    BY <1>23, DropSyncStep DEF SyncsFit, SyncFits, Creating, Dropping, Commanding
  <2> QED
    BY <1>23, <2>1, <2>2, DropSyncStep DEF RowsFit, Inserted, Still, Scheduled, Live
<1>24. ASSUME NEW r \in Requests, DropJobs(r) PROVE RowsFit'
  BY <1>24, DropJobsStep DEF Others, Still, PcOnly, Same, Alike, RowsFit, Inserted, Creating
<1>25. ASSUME NEW r \in Requests, DropScheduleRow(r) PROVE RowsFit'
  <2>1. \A q \in Requests : task'[q].pc \in Creating
           => task[q].pc \in Creating /\ task'[q].sync = task[q].sync
    BY <1>25, DropScheduleRowStep, LoopGoes DEF HandlersFit, OpFits, CreateLocations, Creating,
       Others, PcOnly, Alike, TypeOK
  <2>2. task[r].sync \in Inserted
    BY <1>25, DropScheduleRowStep DEF SyncsFit, SyncFits, Creating, Dropping, Commanding
  <2>3. row[task[r].sync] = "deleted"
    BY <1>25, DropScheduleRowStep DEF SyncsFit, SyncFits
  <2> QED
    BY <1>25, <2>1, <2>2, <2>3, DropScheduleRowStep DEF RowsFit, Inserted, Still, Scheduled,
       Live
<1>26. ASSUME NEW r \in Requests, DropConnection(r) PROVE RowsFit'
  BY <1>26, DropConnectionStep DEF Idle, Others, Still, PcOnly, Same, Alike, RowsFit, Inserted,
     Creating
<1>27. ASSUME NEW r \in Requests, DropConfig(r) PROVE RowsFit'
  BY <1>27, DropConfigStep DEF Idle, Others, Still, PcOnly, Same, Alike, RowsFit, Inserted,
     Creating
<1>28. ASSUME NEW r \in Requests, ReadSchedule(r) PROVE RowsFit'
  <2>1. \A q \in Requests : task'[q].pc \in Creating
           => task[q].pc \in Creating /\ task'[q].sync = task[q].sync
    BY <1>28, ReadScheduleStep, LoopGoes DEF HandlersFit, OpFits, CreateLocations, Creating,
       Others, PcOnly, Alike, TypeOK
  <2>2. task[r].sync \in Inserted
    BY <1>28, ReadScheduleStep DEF SyncsFit, SyncFits, Creating, Dropping, Commanding
  <2> QED
    BY <1>28, <2>1, <2>2, ReadScheduleStep DEF RowsFit, Inserted, Still, Scheduled, Live
<1>29. ASSUME NEW r \in Requests, Pause(r) PROVE RowsFit'
  <2>1. \A q \in Requests : task'[q].pc \in Creating
           => task[q].pc \in Creating /\ task'[q].sync = task[q].sync
    BY <1>29, PauseStep DEF HandlersFit, OpFits, CreateLocations, Creating, Others, PcOnly,
       Alike
  <2>2. task[r].sync \in Inserted
    BY <1>29, PauseStep DEF SyncsFit, SyncFits, Creating, Dropping, Commanding
  <2> QED
    BY <1>29, <2>1, <2>2, PauseStep DEF RowsFit, Inserted, Still, Scheduled, Live
<1>30. ASSUME NEW r \in Requests, Unpause(r) PROVE RowsFit'
  <2>1. \A q \in Requests : task'[q].pc \in Creating
           => task[q].pc \in Creating /\ task'[q].sync = task[q].sync
    BY <1>30, UnpauseStep DEF HandlersFit, OpFits, CreateLocations, Creating, Others, PcOnly,
       Alike
  <2>2. task[r].sync \in Inserted
    BY <1>30, UnpauseStep DEF SyncsFit, SyncFits, Creating, Dropping, Commanding
  <2> QED
    BY <1>30, <2>1, <2>2, UnpauseStep DEF RowsFit, Inserted, Still, Scheduled, Live
<1>31. ASSUME NEW r \in Requests, TriggerAndReadFrequency(r) PROVE RowsFit'
  BY <1>31, TriggerAndReadFrequencyStep DEF Others, Still, PcOnly, Same, Alike, RowsFit,
     Inserted, Creating
<1>32. ASSUME NEW r \in Requests, SetStatus(r) PROVE RowsFit'
  <2>1. \A q \in Requests : task'[q].pc \in Creating
           => task[q].pc \in Creating /\ task'[q].sync = task[q].sync
    BY <1>32, SetStatusStep, LoopGoes DEF HandlersFit, OpFits, CreateLocations, Creating,
       Others, PcOnly, Alike, TypeOK
  <2>2. task[r].sync \in Inserted
    BY <1>32, SetStatusStep DEF SyncsFit, SyncFits, Creating, Dropping, Commanding
  <2> QED
    BY <1>32, <2>1, <2>2, SetStatusStep DEF RowsFit, Inserted, Still, Scheduled, Live
<1>33. ASSUME NEW r \in Requests, Describe(r) PROVE RowsFit'
  <2>1. \A q \in Requests : task'[q].pc \in Creating
           => task[q].pc \in Creating /\ task'[q].sync = task[q].sync
    BY <1>33, DescribeStep, UpdateGoes, LoopGoes DEF HandlersFit, OpFits, CreateLocations,
       Creating, Others, PcOnly, Alike, TypeOK
  <2>2. task[r].sync \in Inserted
    BY <1>33, DescribeStep DEF SyncsFit, SyncFits, Creating, Dropping, Commanding
  <2> QED
    BY <1>33, <2>1, <2>2, DescribeStep DEF RowsFit, Inserted, Still, Scheduled, Live
<1>34. ASSUME NEW r \in Requests, UpdateSchedule(r) PROVE RowsFit'
  <2>1. \A q \in Requests : task'[q].pc \in Creating
           => task[q].pc \in Creating /\ task'[q].sync = task[q].sync
    BY <1>34, UpdateScheduleStep, UpdateGoes, LoopGoes DEF HandlersFit, OpFits,
       CreateLocations, Creating, Others, PcOnly, Alike, TypeOK
  <2>2. task[r].sync \in Inserted
    BY <1>34, UpdateScheduleStep DEF SyncsFit, SyncFits, Creating, Dropping, Commanding
  <2> QED
    BY <1>34, <2>1, <2>2, UpdateScheduleStep DEF RowsFit, Inserted, Still, Scheduled, Live
<1>35. ASSUME NEW r \in Requests, Compare(r) PROVE RowsFit'
  <2>1. \A q \in Requests : task'[q].pc \in Creating
           => task[q].pc \in Creating /\ task'[q].sync = task[q].sync
    BY <1>35, CompareStep, LoopGoes DEF HandlersFit, OpFits, CreateLocations, Creating, Others,
       PcOnly, Alike, TypeOK
  <2>2. task[r].sync \in Inserted
    BY <1>35, CompareStep DEF SyncsFit, SyncFits, Creating, Dropping, Commanding
  <2> QED
    BY <1>35, <2>1, <2>2, CompareStep DEF RowsFit, Inserted, Still, Scheduled, Live
<1>36. ASSUME NEW r \in Requests, WriteFrequency(r) PROVE RowsFit'
  BY <1>36, WriteFrequencyStep DEF Others, Still, PcOnly, Same, Alike, RowsFit, Inserted,
     Creating
<1>37. ASSUME NEW r \in Requests, WriteConfig(r) PROVE RowsFit'
  BY <1>37, WriteConfigStep DEF Others, Still, PcOnly, Same, Alike, RowsFit, Inserted, Creating
<1>38. ASSUME NEW r \in Requests, NEW preBuilt \in BOOLEAN, NEW auto \in BOOLEAN,
              Reconcile(r, preBuilt, auto)
      PROVE RowsFit'
  BY <1>38, ReconcileStep DEF Idle, Others, Still, PcOnly, Same, Alike, RowsFit, Inserted,
     Creating
<1>39. ASSUME NEW r \in Requests, MarkAllAsStopped(r) PROVE RowsFit'
  <2>1. \A q \in Requests : task'[q].pc \in Creating
           => task[q].pc \in Creating /\ task'[q].sync = task[q].sync
    <3>1. Others(r) /\ task'[r].pc \notin Creating
      BY <1>39, MarkAllAsStoppedStep DEF Creating, Idle
    <3> QED
      BY <3>1 DEF Others
  <2> QED
    BY <1>39, <2>1, MarkAllAsStoppedStep DEF RowsFit, Inserted, Still, Scheduled
<1>40. ASSUME NEW r \in Requests, CallFails(r) PROVE RowsFit'
  <2>1. \A q \in Requests : task'[q].pc \in Creating
           => task[q].pc \in Creating /\ task'[q].sync = task[q].sync
    BY SMTT(30), <1>40, CallFailsStep, UpdateGoes, LoopGoes DEF Creating, Others, PcOnly, TypeOK
  <2> QED
    BY <1>40, <2>1, CallFailsStep DEF RowsFit, Inserted, Still
<1>41. ASSUME NEW r \in Requests, CutShort(r) PROVE RowsFit'
  BY <1>41, CutShortStep DEF Idle, Others, Still, PcOnly, Same, Alike, RowsFit, Inserted,
     Creating
<1>42. ASSUME NEW s \in Syncs, NEW outcome \in {"SUCCESS", "STOPPED"}, JobEnds(s, outcome)
      PROVE RowsFit'
  BY <1>42 DEF JobEnds, syncVars, jobVars, temporalVars, scheduleVars, envVars, RowsFit,
     Inserted, Creating
<1>43. CASE UNCHANGED vars
  BY <1>43 DEF vars, syncVars, jobVars, temporalVars, scheduleVars, envVars, RowsFit, Inserted,
     Creating
<1> QED
  BY <1>1, <1>2, <1>3, <1>4, <1>5, <1>6, <1>7, <1>8, <1>9, <1>10, <1>11, <1>12, <1>13, <1>14,
     <1>15, <1>16, <1>17, <1>18, <1>19, <1>20, <1>21, <1>22, <1>23, <1>24, <1>25, <1>26, <1>27,
     <1>28, <1>29, <1>30, <1>31, <1>32, <1>33, <1>34, <1>35, <1>36, <1>37, <1>38, <1>39, <1>40,
     <1>41, <1>42, <1>43, Cases DEF Acts, Arrivals

\* After a step the pairs of requests under way that harm each other are in overlaps.
LEMMA Clash ==
    ASSUME Next, NEW q \in Requests, NEW r \in Requests, q # r,
           {task'[q].op, task'[r].op} \in Harmful
    PROVE  {task'[q].op, task'[r].op} \in overlaps'
  BY DEF Next, Clashes

LEMMA NextMeetingsKnown ==
    ASSUME MeetingsKnown, Next \/ UNCHANGED vars
    PROVE  MeetingsKnown'
<1>1. CASE UNCHANGED vars
  BY <1>1 DEF vars, MeetingsKnown
<1>2. CASE Next
  BY <1>2, Clash DEF MeetingsKnown
<1> QED
  BY <1>1, <1>2

LEMMA InitCore == Init => CoreInv
<1> SUFFICES ASSUME Init PROVE CoreInv
  OBVIOUS
<1>1. TypeOK
  <2>1. task \in [Requests -> Tasks]
    BY IdleIsTask DEF Init
  <2> QED
    BY <2>1 DEF Init, TypeOK
<1>2. HandlersFit
  BY IdleFits DEF Init, HandlersFit
<1>3. SyncsFit
  BY DEF Init, SyncsFit, SyncFits, Idle, Creating, Dropping, Commanding
<1>4. RowsFit
  BY DEF Init, RowsFit, Inserted, Idle, Creating
<1>5. MeetingsKnown
  BY DEF Init, MeetingsKnown, Idle, Harmful
<1> QED
  BY <1>1, <1>2, <1>3, <1>4, <1>5 DEF CoreInv

LEMMA NextCore == CoreInv /\ [Next]_vars => CoreInv'
<1> SUFFICES ASSUME CoreInv, [Next]_vars PROVE CoreInv'
  OBVIOUS
<1>1. TypeOK' /\ HandlersFit' /\ SyncsFit'
  BY NextTypes, NextHandlersFit, NextSyncsFit DEF CoreInv
<1> QED
  BY <1>1, NextRowsFit, NextMeetingsKnown DEF CoreInv

\* Every variable of the syncs of a flow, and every local of a request, keeps its type
\* through all the handlers.
THEOREM TypeCorrect == Spec => []TypeOK
<1>1. CoreInv => TypeOK
  BY DEF CoreInv
<1> QED
  BY InitCore, NextCore, <1>1, PTL DEF Spec

\* A request that arrives has done nothing yet.
LEMMA Arrive ==
    ASSUME TypeOK, HandlersFit, SyncsFit, RowsFit, NEW r \in Requests, Arrivals(r)
    PROVE  /\ Others(r) /\ Still /\ failed \subseteq failed'
           /\ task[r] = Idle /\ task[r].pc = "idle" /\ task[r].op = "idle"
                 /\ task[r].sync = NoSync
           /\ task'[r].pc \in {"createSync", "getSchedule", "dropConnection", "dropConfig", "dropFlow",
                             "readSchedule", "pause", "unpause", "compare", "writeConfig",
                             "markStopped"}
           /\ task'[r].pc = "markStopped" => \A s \in Syncs : ~ Exists(s)
<1>1. Idle.pc = "idle" /\ Idle.op = "idle" /\ Idle.sync = NoSync
  BY DEF Idle
<1> DEFINE Fresh == /\ Others(r) /\ Still /\ failed \subseteq failed' /\ task[r] = Idle
                    /\ task'[r].pc \in {"createSync", "getSchedule", "dropConnection",
                                      "dropConfig", "dropFlow", "readSchedule", "pause",
                                      "unpause", "compare", "writeConfig", "markStopped"}
                    /\ task'[r].pc = "markStopped" => \A s \in Syncs : ~ Exists(s)
<1>2. ASSUME NEW c \in Connections, NEW auto \in BOOLEAN, Initiate(r, c, auto) PROVE Fresh
  BY <1>2, InitiateStep
<1>3. ASSUME NEW c \in Connections, DeleteConnection(r, c) PROVE Fresh
  BY <1>3, DeleteConnectionStep
<1>4. ASSUME DeleteFlow(r) PROVE Fresh
  BY <1>4, DeleteFlowStep
<1>5. ASSUME ReconcileDeletion(r) PROVE Fresh
  BY <1>5, ReconcileDeletionStep
<1>6. ASSUME NEW command \in {"pause", "unpause"}, NEW syncs \in SUBSET SyncsOf(connected),
             Command(r, command, syncs)
      PROVE  Fresh
  BY <1>6, CommandStep
<1>7. ASSUME NEW command \in {"pause", "unpause"}, NEW s \in Syncs,
             CommandById(r, command, s)
      PROVE  Fresh
  BY <1>7, CommandByIdStep
<1>8. ASSUME NEW f \in Frequencies, Deploy(r, f) PROVE Fresh
  BY <1>8, DeployStep
<1>9. ASSUME ListSchedules(r) PROVE Fresh
  BY <1>9, ListSchedulesStep
<1> QED
  BY <1>1, <1>2, <1>3, <1>4, <1>5, <1>6, <1>7, <1>8, <1>9 DEF Arrivals

(***************************************************************************)
(* What a creation leaves: one sync per connection, and all its parts.     *)
(***************************************************************************)

LEMMA NextNoneFound ==
    ASSUME TypeOK, HandlersFit, SyncsFit, RowsFit, MeetingsKnown, NoneFound,
           Next \/ UNCHANGED vars
    PROVE  NoneFound'
<1> USE DEF Others, At, Still, SyncsOf, Live, NoneFound, Alike, Same, PcOnly
<1>0. {"create"} \notin overlaps' => {"create"} \notin overlaps
  BY DEF Next, vars
<1>1. ASSUME NEW r \in Requests, Arrivals(r) PROVE NoneFound'
  BY <1>0, <1>1, Arrive
<1>2. ASSUME NEW r \in Requests, Look(r) PROVE NoneFound'
  BY <1>0, <1>2, LookStep DEF LoopsOver, Idle
<1>3. ASSUME NEW r \in Requests, FindExisting(r) PROVE NoneFound'
  BY <1>0, <1>3, FindExistingStep DEF Idle
<1>4. ASSUME NEW r \in Requests, NEW i \in Syncs, InsertSync(r, i) PROVE NoneFound'
  <2> SUFFICES ASSUME {"create"} \notin overlaps' PROVE NoneFound'
    OBVIOUS
  <2>1. /\ \A s \in Syncs : Live(s) => owner[s] # task[r].conn
        /\ \A s1, s2 \in Syncs : Live(s1) /\ Live(s2) /\ owner[s1] = owner[s2] => s1 = s2
    BY <1>0, <1>4, InsertSyncStep
  <2>2. \A s1, s2 \in Syncs : Live(s1)' /\ Live(s2)' /\ owner'[s1] = owner'[s2] => s1 = s2
    BY <1>4, InsertSyncStep, <2>1
  <2>3. ASSUME NEW q \in Requests PROVE task'[q].pc # "insertSync"
    <3>1. task[r].op = "create" /\ task[r].pc = "insertSync" /\ task'[r].pc = "insertJob"
      BY <1>4, InsertSyncStep DEF HandlersFit, OpFits, CreateLocations
    <3>2. task[q].pc = "insertSync" => task[q].op = "create"
      BY DEF HandlersFit, OpFits, CreateLocations
    <3>3. q # r => ~ (task[q].op = "create" /\ task[r].op = "create")
      BY <1>0 DEF MeetingsKnown, Harmful
    <3> QED
      BY <1>4, InsertSyncStep, <3>1, <3>2, <3>3
  <2> QED
    BY <2>2, <2>3
<1>5. ASSUME NEW r \in Requests, InsertJob(r) PROVE NoneFound'
  BY <1>0, <1>5, InsertJobStep
<1>6. ASSUME NEW r \in Requests, InsertJobFails(r) PROVE NoneFound'
  BY <1>0, <1>6, InsertJobFailsStep
<1>7. ASSUME NEW r \in Requests, StartWorkflow(r) PROVE NoneFound'
  BY <1>0, <1>7, StartWorkflowStep
<1>8. ASSUME NEW r \in Requests, CreateSchedule(r) PROVE NoneFound'
  BY <1>0, <1>8, CreateScheduleStep
<1>9. ASSUME NEW r \in Requests, PauseSchedule(r) PROVE NoneFound'
  BY <1>0, <1>9, PauseScheduleStep
<1>10. ASSUME NEW r \in Requests, InsertSchedule(r) PROVE NoneFound'
  BY <1>0, <1>10, InsertScheduleStep DEF LoopsOver, Idle
<1>11. ASSUME NEW r \in Requests, StartFails(r) PROVE NoneFound'
  BY <1>0, <1>11, StartFailsStep DEF LoopsOver, Idle
<1>12. ASSUME NEW r \in Requests, DropFlow(r) PROVE NoneFound'
  BY <1>0, <1>12, DropFlowStep
<1>13. ASSUME NEW r \in Requests, FindSync(r) PROVE NoneFound'
  BY <1>0, <1>13, FindSyncStep DEF Idle
<1>14. ASSUME NEW r \in Requests, GetSchedule(r) PROVE NoneFound'
  BY <1>0, <1>14, GetScheduleStep
<1>15. ASSUME NEW r \in Requests, DropSchedule(r) PROVE NoneFound'
  BY <1>0, <1>15, DropScheduleStep
<1>16. ASSUME NEW r \in Requests, DropSync(r) PROVE NoneFound'
  BY <1>0, <1>16, DropSyncStep
<1>17. ASSUME NEW r \in Requests, DropJobs(r) PROVE NoneFound'
  BY <1>0, <1>17, DropJobsStep
<1>18. ASSUME NEW r \in Requests, DropScheduleRow(r) PROVE NoneFound'
  BY <1>0, <1>18, DropScheduleRowStep, LoopGoes DEF TypeOK
<1>19. ASSUME NEW r \in Requests, DropConnection(r) PROVE NoneFound'
  BY <1>0, <1>19, DropConnectionStep DEF Idle
<1>20. ASSUME NEW r \in Requests, DropConfig(r) PROVE NoneFound'
  BY <1>0, <1>20, DropConfigStep DEF Idle
<1>21. ASSUME NEW r \in Requests, ReadSchedule(r) PROVE NoneFound'
  BY SMTT(60), <1>0, <1>21, ReadScheduleStep, LoopGoes DEF TypeOK, HandlersFit, OpFits
<1>22. ASSUME NEW r \in Requests, Pause(r) PROVE NoneFound'
  BY <1>0, <1>22, PauseStep
<1>23. ASSUME NEW r \in Requests, Unpause(r) PROVE NoneFound'
  BY <1>0, <1>23, UnpauseStep
<1>24. ASSUME NEW r \in Requests, TriggerAndReadFrequency(r) PROVE NoneFound'
  BY <1>0, <1>24, TriggerAndReadFrequencyStep
<1>25. ASSUME NEW r \in Requests, SetStatus(r) PROVE NoneFound'
  BY <1>0, <1>25, SetStatusStep, LoopGoes DEF TypeOK
<1>26. ASSUME NEW r \in Requests, Describe(r) PROVE NoneFound'
  BY <1>0, <1>26, DescribeStep, UpdateGoes DEF TypeOK
<1>27. ASSUME NEW r \in Requests, UpdateSchedule(r) PROVE NoneFound'
  BY <1>0, <1>27, UpdateScheduleStep, UpdateGoes DEF TypeOK
<1>28. ASSUME NEW r \in Requests, Compare(r) PROVE NoneFound'
  BY <1>0, <1>28, CompareStep, LoopGoes DEF TypeOK
<1>29. ASSUME NEW r \in Requests, WriteFrequency(r) PROVE NoneFound'
  BY <1>0, <1>29, WriteFrequencyStep
<1>30. ASSUME NEW r \in Requests, WriteConfig(r) PROVE NoneFound'
  BY <1>0, <1>30, WriteConfigStep
<1>31. ASSUME NEW r \in Requests, NEW preBuilt \in BOOLEAN, NEW auto \in BOOLEAN,
              Reconcile(r, preBuilt, auto)
      PROVE NoneFound'
  BY <1>0, <1>31, ReconcileStep DEF Idle
<1>32. ASSUME NEW r \in Requests, MarkAllAsStopped(r) PROVE NoneFound'
  BY <1>0, <1>32, MarkAllAsStoppedStep DEF Idle
<1>33. ASSUME NEW r \in Requests, CallFails(r) PROVE NoneFound'
  BY <1>0, <1>33, CallFailsStep, LoopGoes, UpdateGoes DEF TypeOK
<1>34. ASSUME NEW r \in Requests, CutShort(r) PROVE NoneFound'
  BY <1>0, <1>34, CutShortStep DEF Idle
<1>35. ASSUME NEW s \in Syncs, NEW outcome \in {"SUCCESS", "STOPPED"}, JobEnds(s, outcome)
      PROVE NoneFound'
  BY <1>0, <1>35 DEF JobEnds, syncVars, jobVars, temporalVars, scheduleVars, envVars
<1>36. CASE UNCHANGED vars
  BY <1>0, <1>36 DEF vars, syncVars, jobVars, temporalVars, scheduleVars, envVars
<1> QED
  BY <1>1, <1>2, <1>3, <1>4, <1>5, <1>6, <1>7, <1>8, <1>9, <1>10, <1>11, <1>12, <1>13, <1>14,
     <1>15, <1>16, <1>17, <1>18, <1>19, <1>20, <1>21, <1>22, <1>23, <1>24, <1>25, <1>26, <1>27,
     <1>28, <1>29, <1>30, <1>31, <1>32, <1>33, <1>34, <1>35, <1>36, Cases DEF Acts

LEMMA NextPartsAreMade ==
    ASSUME TypeOK, HandlersFit, SyncsFit, RowsFit, MeetingsKnown, PartsAreMade,
           Next \/ UNCHANGED vars
    PROVE  PartsAreMade'
<1> USE DEF Others, JobDone, Still, Exists, Creating, Live, PartsAreMade, On, Scheduled, Alike,
        Same, PcOnly
<1>1. ASSUME NEW r \in Requests, Arrivals(r) PROVE PartsAreMade'
  BY <1>1, Arrive
<1>2. ASSUME NEW r \in Requests, Look(r) PROVE PartsAreMade'
  BY <1>2, LookStep DEF LoopsOver, Idle
<1>3. ASSUME NEW r \in Requests, FindExisting(r) PROVE PartsAreMade'
  BY <1>3, FindExistingStep DEF Idle
<1>4. ASSUME NEW r \in Requests, NEW i \in Syncs, InsertSync(r, i) PROVE PartsAreMade'
  BY <1>4, InsertSyncStep
<1>5. ASSUME NEW r \in Requests, InsertJob(r) PROVE PartsAreMade'
  BY <1>5, InsertJobStep
<1>6. ASSUME NEW r \in Requests, InsertJobFails(r) PROVE PartsAreMade'
  BY <1>6, InsertJobFailsStep DEF HandlersFit, OpFits, CreateLocations, DeleteLocations, Dropping
<1>7. ASSUME NEW r \in Requests, StartWorkflow(r) PROVE PartsAreMade'
  BY <1>7, StartWorkflowStep
<1>8. ASSUME NEW r \in Requests, CreateSchedule(r) PROVE PartsAreMade'
  BY <1>8, CreateScheduleStep
<1>9. ASSUME NEW r \in Requests, PauseSchedule(r) PROVE PartsAreMade'
  BY <1>9, PauseScheduleStep
<1>10. ASSUME NEW r \in Requests, InsertSchedule(r) PROVE PartsAreMade'
  BY <1>10, InsertScheduleStep DEF LoopsOver, Idle
<1>11. ASSUME NEW r \in Requests, StartFails(r) PROVE PartsAreMade'
  <2>1. task[r].op \in {"create", "delete"} => failed' \intersect {"create", "delete"} # {}
    BY <1>11, StartFailsStep
  <2>2. task[r].op \notin {"create", "delete"}
           => task[r].pc \notin CreateLocations \union DeleteLocations
    BY DEF HandlersFit, OpFits
  <2>3. Others(r) /\ Still /\ failed \subseteq failed'
    BY <1>11, StartFailsStep
  <2> QED
    BY <2>1, <2>2, <2>3 DEF CreateLocations, DeleteLocations, Dropping
<1>12. ASSUME NEW r \in Requests, DropFlow(r) PROVE PartsAreMade'
  BY <1>12, DropFlowStep
<1>13. ASSUME NEW r \in Requests, FindSync(r) PROVE PartsAreMade'
  BY <1>13, FindSyncStep DEF Idle
<1>14. ASSUME NEW r \in Requests, GetSchedule(r) PROVE PartsAreMade'
  BY <1>14, GetScheduleStep
<1>15. ASSUME NEW r \in Requests, DropSchedule(r) PROVE PartsAreMade'
  BY <1>15, DropScheduleStep DEF HandlersFit, OpFits, CreateLocations, DeleteLocations, Dropping
<1>16. ASSUME NEW r \in Requests, DropSync(r) PROVE PartsAreMade'
  BY <1>16, DropSyncStep
<1>17. ASSUME NEW r \in Requests, DropJobs(r) PROVE PartsAreMade'
  BY <1>17, DropJobsStep DEF SyncsFit, SyncFits
<1>18. ASSUME NEW r \in Requests, DropScheduleRow(r) PROVE PartsAreMade'
  BY <1>18, DropScheduleRowStep, LoopGoes DEF SyncsFit, SyncFits, TypeOK
<1>19. ASSUME NEW r \in Requests, DropConnection(r) PROVE PartsAreMade'
  BY <1>19, DropConnectionStep DEF Idle
<1>20. ASSUME NEW r \in Requests, DropConfig(r) PROVE PartsAreMade'
  BY <1>20, DropConfigStep DEF Idle
<1>21. ASSUME NEW r \in Requests, ReadSchedule(r) PROVE PartsAreMade'
  BY <1>21, ReadScheduleStep, LoopGoes DEF TypeOK
<1>22. ASSUME NEW r \in Requests, Pause(r) PROVE PartsAreMade'
  BY <1>22, PauseStep
<1>23. ASSUME NEW r \in Requests, Unpause(r) PROVE PartsAreMade'
  BY <1>23, UnpauseStep
<1>24. ASSUME NEW r \in Requests, TriggerAndReadFrequency(r) PROVE PartsAreMade'
  BY <1>24, TriggerAndReadFrequencyStep
<1>25. ASSUME NEW r \in Requests, SetStatus(r) PROVE PartsAreMade'
  BY <1>25, SetStatusStep, LoopGoes DEF TypeOK
<1>26. ASSUME NEW r \in Requests, Describe(r) PROVE PartsAreMade'
  BY <1>26, DescribeStep, UpdateGoes DEF TypeOK
<1>27. ASSUME NEW r \in Requests, UpdateSchedule(r) PROVE PartsAreMade'
  BY SMTT(60), <1>27, UpdateScheduleStep, UpdateGoes DEF HandlersFit, LoopFits, TypeOK
<1>28. ASSUME NEW r \in Requests, Compare(r) PROVE PartsAreMade'
  BY <1>28, CompareStep, LoopGoes DEF TypeOK
<1>29. ASSUME NEW r \in Requests, WriteFrequency(r) PROVE PartsAreMade'
  BY <1>29, WriteFrequencyStep
<1>30. ASSUME NEW r \in Requests, WriteConfig(r) PROVE PartsAreMade'
  BY <1>30, WriteConfigStep
<1>31. ASSUME NEW r \in Requests, NEW preBuilt \in BOOLEAN, NEW auto \in BOOLEAN,
              Reconcile(r, preBuilt, auto)
      PROVE PartsAreMade'
  BY <1>31, ReconcileStep DEF Idle
<1>32. ASSUME NEW r \in Requests, MarkAllAsStopped(r) PROVE PartsAreMade'
  BY <1>32, MarkAllAsStoppedStep DEF Idle
<1>33. ASSUME NEW r \in Requests, CallFails(r) PROVE PartsAreMade'
  BY <1>33, CallFailsStep, LoopGoes, UpdateGoes DEF HandlersFit, OpFits, CreateLocations,
     DeleteLocations, Dropping, TypeOK
<1>34. ASSUME NEW r \in Requests, CutShort(r) PROVE PartsAreMade'
  <2>1. task[r].op \in {"create", "delete"} => failed' \intersect {"create", "delete"} # {}
    BY <1>34, CutShortStep
  <2>2. task[r].op \notin {"create", "delete"}
           => task[r].pc \notin CreateLocations \union DeleteLocations
    BY DEF HandlersFit, OpFits
  <2>3. Others(r) /\ Still /\ failed \subseteq failed'
    BY <1>34, CutShortStep
  <2> QED
    BY <2>1, <2>2, <2>3 DEF CreateLocations, DeleteLocations, Dropping
<1>35. ASSUME NEW s \in Syncs, NEW outcome \in {"SUCCESS", "STOPPED"}, JobEnds(s, outcome)
      PROVE PartsAreMade'
  BY <1>35 DEF JobEnds, syncVars, jobVars, temporalVars, scheduleVars, envVars
<1>36. CASE UNCHANGED vars
  BY <1>36 DEF vars, syncVars, jobVars, temporalVars, scheduleVars, envVars
<1> QED
  BY SMTT(30), <1>1, <1>2, <1>3, <1>4, <1>5, <1>6, <1>7, <1>8, <1>9, <1>10, <1>11, <1>12, <1>13, <1>14,
     <1>15, <1>16, <1>17, <1>18, <1>19, <1>20, <1>21, <1>22, <1>23, <1>24, <1>25, <1>26, <1>27,
     <1>28, <1>29, <1>30, <1>31, <1>32, <1>33, <1>34, <1>35, <1>36, Cases DEF Acts

LEMMA AtMostOne ==
    ASSUME NEW S, \A x, y \in S : x = y
    PROVE  Cardinality(S) <= 1
<1>1. CASE S = {}
  BY <1>1, FS_EmptySet
<1>2. ASSUME NEW x \in S PROVE Cardinality(S) <= 1
  <2>1. S = {x}
    OBVIOUS
  <2> QED
    BY <2>1, FS_Singleton
<1> QED
  BY <1>1, <1>2

\* The invariant of creations: what CoreInv, the row found and the parts give together.
CreationInv == CoreInv /\ NoneFound /\ PartsAreMade

LEMMA CreationInvAlways == Spec => []CreationInv
<1>1. Init => CreationInv
  <2>1. Init => NoneFound /\ PartsAreMade
    BY DEF Init, NoneFound, PartsAreMade, Live, At, Idle
  <2> QED
    BY <2>1, InitCore DEF CreationInv
<1>2. CreationInv /\ [Next]_vars => CreationInv'
  <2> SUFFICES ASSUME CreationInv, [Next]_vars PROVE CreationInv'
    OBVIOUS
  <2>1. CoreInv'
    BY NextCore DEF CreationInv
  <2>2. NoneFound' /\ PartsAreMade'
    BY NextNoneFound, NextPartsAreMade DEF CreationInv, CoreInv
  <2> QED
    BY <2>1, <2>2 DEF CreationInv
<1> QED
  BY <1>1, <1>2, PTL DEF Spec

\* What a creation leaves: a connection has one live sync unless two creations met, and
\* a sync that nobody is at work on has its job, its workflow, its schedule and its
\* schedule row, and is listed, unless an await of a creation or a deletion failed.
THEOREM CreationLeavesAll == Spec => []CreationIsWhole
<1>1. CreationInv => OneLiveSync
  <2> SUFFICES ASSUME CreationInv, {"create"} \notin overlaps, NEW c \in Connections
               PROVE  Cardinality(SyncsOf({c})) <= 1
    BY DEF OneLiveSync
  <2>1. ASSUME NEW s1 \in SyncsOf({c}), NEW s2 \in SyncsOf({c}) PROVE s1 = s2
    <3>1. One(owner[s1]) /\ One(owner[s2]) /\ owner[s1] \subseteq {c} /\ owner[s2] \subseteq {c}
      BY DEF CreationInv, CoreInv, RowsFit, Inserted, SyncsOf, Live
    <3>2. owner[s1] = owner[s2]
      BY <3>1 DEF One
    <3> QED
      BY <3>2 DEF CreationInv, NoneFound, SyncsOf
  <2> QED
    BY <2>1, AtMostOne
<1>2. CreationInv => LiveSyncComplete
  <2> SUFFICES ASSUME CreationInv, failed \intersect {"create", "delete"} = {},
                      NEW s \in Syncs, Live(s), Untouched(s)
               PROVE  JobDone(s) /\ Exists(s) /\ Scheduled(s) /\ s \in Listed(owner[s])
    BY DEF LiveSyncComplete, JobDone
  <2>1. \A r \in Requests : \A pcs : ~ On(r, s, pcs)
    BY DEF On, Untouched
  <2>2. JobDone(s) /\ Exists(s) /\ Scheduled(s)
    BY <2>1 DEF CreationInv, PartsAreMade
  <2> QED
    BY <2>2 DEF Listed, SyncsOf, JobDone
<1> QED
  BY <1>1, <1>2, CreationInvAlways, PTL DEF CreationIsWhole

(***************************************************************************)
(* What a deletion leaves: nothing.                                        *)
(***************************************************************************)

LEMMA Monotone ==
    ASSUME Next \/ UNCHANGED vars
    PROVE  overlaps \subseteq overlaps'
  BY DEF Next, vars

LEMMA NoCreationMeetsDeletion ==
    ASSUME MeetingsKnown, {"create", "delete"} \notin overlaps, NEW q \in Requests,
           NEW r \in Requests
    PROVE  ~ (task[q].op = "create" /\ task[r].op = "delete")
  BY DEF MeetingsKnown, Harmful

\* Where the commands and the updates of a schedule leave the handler.
LEMMA Places ==
    ASSUME TypeOK, HandlersFit, SyncsFit, RowsFit, NEW r \in Requests
    PROVE  /\ ReadSchedule(r) =>
                task'[r].pc \in {"idle", "pause", "unpause", "dropConnection", "dropConfig", "findSync",
                                 "writeConfig", "readSchedule"}
           /\ FindSync(r) => task'[r].pc \in {"idle", "findSync", "getSchedule"}
           /\ Pause(r) \/ Unpause(r) \/ UpdateSchedule(r) =>
                \A s \in Syncs : Exists(s)' <=> Exists(s)
<1>1. ASSUME ReadSchedule(r)
      PROVE  task'[r].pc \in {"idle", "pause", "unpause", "dropConnection", "dropConfig", "findSync",
                              "writeConfig", "readSchedule"}
  BY <1>1, ReadScheduleStep, LoopGoes DEF TypeOK, PcOnly, HandlersFit, OpFits
<1>2. ASSUME FindSync(r) PROVE task'[r].pc \in {"idle", "findSync", "getSchedule"}
  <2>1. task'[r] = Idle \/ task'[r].pc \in {"findSync", "getSchedule"}
    BY <1>2, FindSyncStep
  <2> QED
    BY <2>1 DEF Idle
<1>3. ASSUME Pause(r) PROVE \A s \in Syncs : Exists(s)' <=> Exists(s)
  BY <1>3, PauseStep DEF Exists
<1>4. ASSUME Unpause(r) PROVE \A s \in Syncs : Exists(s)' <=> Exists(s)
  BY <1>4, UnpauseStep DEF Exists
<1>5. ASSUME UpdateSchedule(r) PROVE \A s \in Syncs : Exists(s)' <=> Exists(s)
  BY <1>5, UpdateScheduleStep DEF Exists, HandlersFit, LoopFits
<1> QED
  BY <1>1, <1>2, <1>3, <1>4, <1>5

LEMMA NextSchedulesGo ==
    ASSUME TypeOK, HandlersFit, SyncsFit, RowsFit, MeetingsKnown, SchedulesGo,
           Next \/ UNCHANGED vars
    PROVE  SchedulesGo'
<1> USE DEF Others, At, Exists, SchedulesGo, Creating, Live, On, Scheduled
<1>0. /\ {"create", "delete"} \notin overlaps' => {"create", "delete"} \notin overlaps
      /\ {"create", "delete"} \notin overlaps =>
            \A q, r \in Requests : ~ (task[q].op = "create" /\ task[r].op = "delete")
  BY Monotone, NoCreationMeetsDeletion
<1>1. ASSUME NEW r \in Requests, Arrivals(r) PROVE SchedulesGo'
  BY <1>0, <1>1, Arrive DEF Still
<1>2. ASSUME NEW r \in Requests, Look(r) PROVE SchedulesGo'
  BY <1>0, <1>2, LookStep DEF LoopsOver, Idle, Still, PcOnly, Same, Alike
<1>3. ASSUME NEW r \in Requests, FindExisting(r) PROVE SchedulesGo'
  BY <1>0, <1>3, FindExistingStep DEF Idle, Still, PcOnly, Same, Alike
<1>4. ASSUME NEW r \in Requests, NEW i \in Syncs, InsertSync(r, i) PROVE SchedulesGo'
  <2>1. /\ Others(r) /\ sched' = sched /\ status' = status /\ failed' = failed
        /\ row[i] = "none" /\ row' = [s \in Syncs |-> IF s = i THEN "live" ELSE row[s]]
        /\ task[r].pc = "insertSync" /\ task'[r].pc = "insertJob" /\ task'[r].sync = i
    BY <1>4, InsertSyncStep
  <2> QED
    BY <1>0, <2>1 DEF SyncsFit, SyncFits, Inserted
<1>5. ASSUME NEW r \in Requests, InsertJob(r) PROVE SchedulesGo'
  BY <1>0, <1>5, InsertJobStep DEF Still, PcOnly, Same, Alike
<1>6. ASSUME NEW r \in Requests, InsertJobFails(r) PROVE SchedulesGo'
  <2>1. task[r].op \in {"create", "delete"} => failed' \intersect {"create", "delete"} # {}
    BY <1>6, InsertJobFailsStep
  <2>2. task[r].op \notin {"create", "delete"}
           => task[r].pc \notin CreateLocations \union DeleteLocations
    BY DEF HandlersFit, OpFits
  <2>3. Others(r) /\ Still /\ failed \subseteq failed'
    BY <1>6, InsertJobFailsStep
  <2> QED
    BY <1>0, <1>6, InsertJobFailsStep, <2>1, <2>2, <2>3 DEF Idle, CreateLocations,
       DeleteLocations, Dropping, Still
<1>7. ASSUME NEW r \in Requests, StartWorkflow(r) PROVE SchedulesGo'
  BY <1>0, <1>7, StartWorkflowStep DEF Still, PcOnly, Same, Alike
<1>8. ASSUME NEW r \in Requests, CreateSchedule(r) PROVE SchedulesGo'
  BY <1>0, <1>8, CreateScheduleStep DEF HandlersFit, OpFits, SyncsFit, SyncFits, Inserted,
     CreateLocations, DeleteLocations, Dropping, Still, PcOnly, Same, Alike
<1>9. ASSUME NEW r \in Requests, PauseSchedule(r) PROVE SchedulesGo'
  BY <1>0, <1>9, PauseScheduleStep DEF HandlersFit, OpFits, SyncsFit, SyncFits, Inserted,
     CreateLocations, DeleteLocations, Dropping, Still, PcOnly, Same, Alike
<1>10. ASSUME NEW r \in Requests, InsertSchedule(r) PROVE SchedulesGo'
  BY <1>0, <1>10, InsertScheduleStep DEF LoopsOver, Idle, Still, PcOnly, Same, Alike
<1>11. ASSUME NEW r \in Requests, StartFails(r) PROVE SchedulesGo'
  <2>1. task[r].op \in {"create", "delete"} => failed' \intersect {"create", "delete"} # {}
    BY <1>11, StartFailsStep
  <2>2. task[r].op \notin {"create", "delete"}
           => task[r].pc \notin CreateLocations \union DeleteLocations
    BY DEF HandlersFit, OpFits
  <2>3. Others(r) /\ Still /\ failed \subseteq failed'
    BY <1>11, StartFailsStep
  <2> QED
    BY <1>0, <1>11, StartFailsStep, <2>1, <2>2, <2>3 DEF Idle, CreateLocations, DeleteLocations,
       Dropping, Still
<1>12. ASSUME NEW r \in Requests, DropFlow(r) PROVE SchedulesGo'
  BY <1>0, <1>12, DropFlowStep DEF Still, PcOnly, Same, Alike
<1>13. ASSUME NEW r \in Requests, FindSync(r) PROVE SchedulesGo'
  <2>1. /\ Others(r) /\ Still /\ failed' = failed
        /\ task[r].pc = "findSync" /\ task'[r].pc \in {"idle", "findSync", "getSchedule"}
    BY <1>13, FindSyncStep, Places
  <2> QED
    BY <1>0, <2>1 DEF Still
<1>14. ASSUME NEW r \in Requests, GetSchedule(r) PROVE SchedulesGo'
  BY <1>0, <1>14, GetScheduleStep DEF HandlersFit, OpFits, SyncsFit, SyncFits, Inserted,
     CreateLocations, DeleteLocations, Dropping, Still, PcOnly, Same, Alike
<1>15. ASSUME NEW r \in Requests, DropSchedule(r) PROVE SchedulesGo'
  <2>1. /\ Others(r) /\ row' = row /\ status' = status /\ failed' = failed
        /\ task[r].pc = "dropSchedule" /\ task'[r].pc = "dropSync"
              /\ task'[r].sync = task[r].sync
        /\ \A s \in Syncs : Exists(s)' <=> (s # task[r].sync /\ Exists(s))
    BY <1>15, DropScheduleStep DEF PcOnly
  <2> QED
    BY <1>0, <2>1 DEF SyncsFit, SyncFits, Inserted, Dropping
<1>16. ASSUME NEW r \in Requests, DropSync(r) PROVE SchedulesGo'
  BY <1>0, <1>16, DropSyncStep DEF HandlersFit, OpFits, SyncsFit, SyncFits, Inserted,
     CreateLocations, DeleteLocations, Dropping, Still, PcOnly, Same, Alike
<1>17. ASSUME NEW r \in Requests, DropJobs(r) PROVE SchedulesGo'
  BY <1>0, <1>17, DropJobsStep DEF SyncsFit, SyncFits, Still, PcOnly, Same, Alike
<1>18. ASSUME NEW r \in Requests, DropScheduleRow(r) PROVE SchedulesGo'
  BY <1>0, <1>18, DropScheduleRowStep, LoopGoes DEF SyncsFit, SyncFits, TypeOK, Still, PcOnly,
     Same, Alike
<1>19. ASSUME NEW r \in Requests, DropConnection(r) PROVE SchedulesGo'
  BY <1>0, <1>19, DropConnectionStep DEF Idle, Still, PcOnly, Same, Alike
<1>20. ASSUME NEW r \in Requests, DropConfig(r) PROVE SchedulesGo'
  BY <1>0, <1>20, DropConfigStep DEF Idle, Still, PcOnly, Same, Alike
<1>21. ASSUME NEW r \in Requests, ReadSchedule(r) PROVE SchedulesGo'
  <2>1. /\ Others(r) /\ Still /\ failed' = failed
        /\ task[r].pc = "readSchedule"
        /\ task'[r].pc \in {"idle", "pause", "unpause", "dropConnection", "dropConfig", "findSync",
                             "writeConfig", "readSchedule"}
    BY <1>21, ReadScheduleStep, Places
  <2> QED
    BY <1>0, <2>1 DEF Still
<1>22. ASSUME NEW r \in Requests, Pause(r) PROVE SchedulesGo'
  <2>1. /\ Others(r) /\ row' = row /\ status' = status /\ failed' = failed
        /\ task[r].pc = "pause" /\ task'[r].pc \in {"trigger", "setStatus"}
        /\ \A s \in Syncs : Exists(s)' <=> Exists(s)
    BY <1>22, PauseStep, Places
  <2> QED
    BY <1>0, <2>1 DEF SyncsFit, SyncFits, Inserted, Dropping
<1>23. ASSUME NEW r \in Requests, Unpause(r) PROVE SchedulesGo'
  <2>1. /\ Others(r) /\ row' = row /\ status' = status /\ failed' = failed
        /\ task[r].pc = "unpause" /\ task'[r].pc \in {"trigger", "setStatus"}
        /\ \A s \in Syncs : Exists(s)' <=> Exists(s)
    BY <1>23, UnpauseStep, Places
  <2> QED
    BY <1>0, <2>1 DEF SyncsFit, SyncFits, Inserted, Dropping
<1>24. ASSUME NEW r \in Requests, TriggerAndReadFrequency(r) PROVE SchedulesGo'
  BY <1>0, <1>24, TriggerAndReadFrequencyStep DEF Still, PcOnly, Same, Alike
<1>25. ASSUME NEW r \in Requests, SetStatus(r) PROVE SchedulesGo'
  BY <1>0, <1>25, SetStatusStep, LoopGoes DEF TypeOK, Still, PcOnly, Same, Alike
<1>26. ASSUME NEW r \in Requests, Describe(r) PROVE SchedulesGo'
  BY SMTT(60), <1>0, <1>26, DescribeStep, UpdateGoes DEF TypeOK, Still, PcOnly, Same, Alike
<1>27. ASSUME NEW r \in Requests, UpdateSchedule(r) PROVE SchedulesGo'
  <2>1. /\ Others(r) /\ row' = row /\ status' = status /\ failed' = failed
        /\ task[r].pc = "update"
        /\ task'[r].pc \notin Creating \union {"dropSync"}
        /\ \A s \in Syncs : Exists(s)' <=> Exists(s)
    BY <1>27, UpdateScheduleStep, Places, UpdateGoes DEF TypeOK
  <2> QED
    BY <1>0, <2>1 DEF SyncsFit, SyncFits, Inserted, Dropping
<1>28. ASSUME NEW r \in Requests, Compare(r) PROVE SchedulesGo'
  BY <1>0, <1>28, CompareStep, LoopGoes DEF TypeOK, Still, PcOnly, Same, Alike
<1>29. ASSUME NEW r \in Requests, WriteFrequency(r) PROVE SchedulesGo'
  BY <1>0, <1>29, WriteFrequencyStep DEF Still, PcOnly, Same, Alike
<1>30. ASSUME NEW r \in Requests, WriteConfig(r) PROVE SchedulesGo'
  BY <1>0, <1>30, WriteConfigStep DEF Still, PcOnly, Same, Alike
<1>31. ASSUME NEW r \in Requests, NEW preBuilt \in BOOLEAN, NEW auto \in BOOLEAN,
              Reconcile(r, preBuilt, auto)
      PROVE SchedulesGo'
  BY <1>0, <1>31, ReconcileStep DEF Idle, Still, PcOnly, Same, Alike
<1>32. ASSUME NEW r \in Requests, MarkAllAsStopped(r) PROVE SchedulesGo'
  BY <1>0, <1>32, MarkAllAsStoppedStep DEF Idle, Still, PcOnly, Same, Alike
<1>33. ASSUME NEW r \in Requests, CallFails(r) PROVE SchedulesGo'
  <2>1. task[r].op \in {"create", "delete"} => failed' \intersect {"create", "delete"} # {}
    BY <1>33, CallFailsStep
  <2>2. task[r].op \notin {"create", "delete"}
           => task[r].pc \notin CreateLocations \union DeleteLocations
    BY DEF HandlersFit, OpFits
  <2>3. Others(r) /\ Still /\ failed \subseteq failed'
    BY <1>33, CallFailsStep
  <2> QED
    BY <1>0, <1>33, CallFailsStep, LoopGoes, UpdateGoes, <2>1, <2>2, <2>3 DEF TypeOK, PcOnly,
       Same, Idle, CreateLocations, DeleteLocations, Dropping, Still
<1>34. ASSUME NEW r \in Requests, CutShort(r) PROVE SchedulesGo'
  <2>1. task[r].op \in {"create", "delete"} => failed' \intersect {"create", "delete"} # {}
    BY <1>34, CutShortStep
  <2>2. task[r].op \notin {"create", "delete"}
           => task[r].pc \notin CreateLocations \union DeleteLocations
    BY DEF HandlersFit, OpFits
  <2>3. Others(r) /\ Still /\ failed \subseteq failed'
    BY <1>34, CutShortStep
  <2> QED
    BY <1>0, <1>34, CutShortStep, <2>1, <2>2, <2>3 DEF Idle, CreateLocations, DeleteLocations,
       Dropping, Still
<1>35. ASSUME NEW s \in Syncs, NEW outcome \in {"SUCCESS", "STOPPED"}, JobEnds(s, outcome)
      PROVE SchedulesGo'
  BY <1>0, <1>35 DEF JobEnds, syncVars, jobVars, temporalVars, scheduleVars, envVars
<1>36. CASE UNCHANGED vars
  BY <1>0, <1>36 DEF vars, syncVars, jobVars, temporalVars, scheduleVars, envVars
<1> QED
  BY <1>1, <1>2, <1>3, <1>4, <1>5, <1>6, <1>7, <1>8, <1>9, <1>10, <1>11, <1>12, <1>13, <1>14,
     <1>15, <1>16, <1>17, <1>18, <1>19, <1>20, <1>21, <1>22, <1>23, <1>24, <1>25, <1>26, <1>27,
     <1>28, <1>29, <1>30, <1>31, <1>32, <1>33, <1>34, <1>35, <1>36, Cases DEF Acts

\* What the loops leave of the handler's operation.
LEMMA Operates ==
    ASSUME TypeOK, HandlersFit, SyncsFit, RowsFit, NEW r \in Requests
    PROVE  /\ ReadSchedule(r) \/ SetStatus(r) \/ Describe(r) \/ UpdateSchedule(r)
                 \/ Compare(r) =>
                /\ task[r].op \in {"pause", "unpause", "deploy"}
                /\ task'[r].op \in {task[r].op, "idle"}
           /\ Look(r) \/ InsertSchedule(r) \/ StartFails(r) =>
                /\ task[r].op = "create" /\ task'[r].op \in {"create", "idle"}
                /\ task'[r].op = "create" =>
                      /\ task'[r].conns \subseteq task[r].conns
                      /\ task'[r].conn \subseteq task[r].conns \union task[r].conn
           /\ FindSync(r) => task[r].op = "delete" /\ task[r].then = "findSync"
<1>1. ASSUME ReadSchedule(r)
      PROVE  task'[r].op \in {task[r].op, "idle"} /\ task[r].pc = "readSchedule"
  BY <1>1, ReadScheduleStep, LoopGoes DEF TypeOK, PcOnly, Same, Alike
<1>2. ASSUME SetStatus(r) PROVE task'[r].op \in {task[r].op, "idle"} /\ task[r].pc = "setStatus"
  BY <1>2, SetStatusStep, LoopGoes DEF TypeOK
<1>3. ASSUME Describe(r) PROVE task'[r].op \in {task[r].op, "idle"} /\ task[r].pc = "describe"
  BY <1>3, DescribeStep, UpdateGoes DEF TypeOK, Same, Alike
<1>4. ASSUME UpdateSchedule(r)
      PROVE  task'[r].op \in {task[r].op, "idle"} /\ task[r].pc = "update"
  BY <1>4, UpdateScheduleStep, UpdateGoes DEF TypeOK
<1>5. ASSUME Compare(r) PROVE task'[r].op \in {task[r].op, "idle"} /\ task[r].pc = "compare"
  BY <1>5, CompareStep, LoopGoes DEF TypeOK, PcOnly, Same, Alike
<1>6. task[r].pc \in {"readSchedule", "setStatus", "describe", "update", "compare"}
         => task[r].op \in {"pause", "unpause", "deploy"}
  BY DEF HandlersFit, OpFits
<1>7. ASSUME Look(r) \/ InsertSchedule(r) \/ StartFails(r)
      PROVE  /\ task[r].op = "create" /\ task'[r].op \in {"create", "idle"}
             /\ task'[r].op = "create" =>
                   /\ task'[r].conns \subseteq task[r].conns
                   /\ task'[r].conn \subseteq task[r].conns \union task[r].conn
  <2>1. LoopsOver(task[r], task'[r], "look") \/ PcOnly(task[r], task'[r])
    BY <1>7, LookStep, InsertScheduleStep, StartFailsStep
  <2>2. task[r].op = "create"
    BY <1>7, LookStep, InsertScheduleStep, StartFailsStep DEF HandlersFit, OpFits,
       CreateLocations, Creating
  <2>3. CASE PcOnly(task[r], task'[r])
    BY <2>2, <2>3 DEF PcOnly, Same, Alike
  <2>4. CASE LoopsOver(task[r], task'[r], "look")
    <3>1. CASE task'[r] = Idle
      BY <2>2, <3>1 DEF Idle
    <3>2. CASE task'[r] # Idle
      BY <2>2, <2>4, <3>2 DEF LoopsOver, Alike
    <3> QED
      BY <3>1, <3>2
  <2> QED
    BY <2>1, <2>3, <2>4
<1>8. ASSUME FindSync(r) PROVE task[r].op = "delete" /\ task[r].then = "findSync"
  BY <1>8, FindSyncStep DEF HandlersFit, OpFits, LoopFits, DeleteLocations
<1> QED
  BY <1>1, <1>2, <1>3, <1>4, <1>5, <1>6, <1>7, <1>8

LEMMA NextConnectionsCovered ==
    ASSUME TypeOK, HandlersFit, SyncsFit, RowsFit, MeetingsKnown, ConnectionsCovered,
           Next \/ UNCHANGED vars
    PROVE  ConnectionsCovered'
<1>0. /\ {"create", "delete"} \notin overlaps' => {"create", "delete"} \notin overlaps
      /\ {"create", "delete"} \notin overlaps =>
            \A q, r \in Requests : ~ (task[q].op = "create" /\ task[r].op = "delete")
  BY Monotone, NoCreationMeetsDeletion
<1>1. ASSUME NEW r \in Requests, NEW c \in Connections, NEW auto \in BOOLEAN,
             Initiate(r, c, auto)
      PROVE ConnectionsCovered'
  <2>1. /\ Others(r) /\ row' = row /\ owner' = owner /\ connected' = connected
        /\ task'[r].op = "create" /\ task'[r].conn \subseteq connected
              /\ task'[r].conns \subseteq connected
    BY <1>1, InitiateStep DEF Still
  <2> QED
    BY <1>0, <2>1 DEF Others, ConnectionsCovered, Deleting, Ahead, SyncsOf, Live
<1>2. ASSUME NEW r \in Requests, NEW c \in Connections, DeleteConnection(r, c)
      PROVE ConnectionsCovered'
  <2>1. /\ Others(r) /\ row' = row /\ owner' = owner /\ connected' = connected
        /\ task'[r].op = "delete" /\ task'[r].conn = {c}
    BY <1>2, DeleteConnectionStep DEF Still
  <2>2. SyncsOf({c}) \subseteq Ahead(r)'
    BY <1>2, DeleteConnectionStep DEF Ahead
  <2>3. SyncsOf(task[r].conn)' = SyncsOf({c})
    BY <2>1 DEF SyncsOf, Live
  <2> QED
    BY <1>0, <2>1, <2>2, <2>3 DEF Others, ConnectionsCovered, Deleting, Ahead, SyncsOf, Live
<1>3. ASSUME NEW r \in Requests, DeleteFlow(r) PROVE ConnectionsCovered'
  <2>1. /\ Others(r) /\ row' = row /\ owner' = owner /\ connected' = connected
        /\ task'[r].op = "delete" /\ task'[r].then # "dropConnection"
    BY <1>3, DeleteFlowStep DEF Still
  <2> QED
    BY <1>0, <2>1 DEF Others, ConnectionsCovered, Deleting, Ahead, SyncsOf, Live
<1>4. ASSUME NEW r \in Requests, ReconcileDeletion(r) PROVE ConnectionsCovered'
  <2>1. /\ Others(r) /\ row' = row /\ owner' = owner /\ connected' = connected
        /\ task'[r].op = "delete" /\ task'[r].then # "dropConnection"
    BY <1>4, ReconcileDeletionStep DEF Still
  <2> QED
    BY <1>0, <2>1 DEF Others, ConnectionsCovered, Deleting, Ahead, SyncsOf, Live
<1>5. ASSUME NEW r \in Requests, NEW command \in {"pause", "unpause"},
             NEW syncs \in SUBSET SyncsOf(connected), Command(r, command, syncs)
      PROVE ConnectionsCovered'
  <2>1. /\ Others(r) /\ row' = row /\ owner' = owner /\ connected' = connected
        /\ task'[r].op \notin {"create", "delete"}
    BY <1>5, CommandStep DEF Still
  <2> QED
    BY <1>0, <2>1 DEF Others, ConnectionsCovered, Deleting, Ahead, SyncsOf, Live
<1>6. ASSUME NEW r \in Requests, NEW command \in {"pause", "unpause"}, NEW s \in Syncs,
             CommandById(r, command, s)
      PROVE ConnectionsCovered'
  <2>1. /\ Others(r) /\ row' = row /\ owner' = owner /\ connected' = connected
        /\ task'[r].op \notin {"create", "delete"}
    BY <1>6, CommandByIdStep DEF Still
  <2> QED
    BY <1>0, <2>1 DEF Others, ConnectionsCovered, Deleting, Ahead, SyncsOf, Live
<1>7. ASSUME NEW r \in Requests, NEW f \in Frequencies, Deploy(r, f) PROVE ConnectionsCovered'
  <2>1. /\ Others(r) /\ row' = row /\ owner' = owner /\ connected' = connected
        /\ task'[r].op \notin {"create", "delete"}
    BY <1>7, DeployStep DEF Still
  <2> QED
    BY <1>0, <2>1 DEF Others, ConnectionsCovered, Deleting, Ahead, SyncsOf, Live
<1>8. ASSUME NEW r \in Requests, ListSchedules(r) PROVE ConnectionsCovered'
  <2>1. /\ Others(r) /\ row' = row /\ owner' = owner /\ connected' = connected
        /\ task'[r].op \notin {"create", "delete"}
    BY <1>8, ListSchedulesStep DEF Still
  <2> QED
    BY <1>0, <2>1 DEF Others, ConnectionsCovered, Deleting, Ahead, SyncsOf, Live
<1>9. ASSUME NEW r \in Requests, Look(r) PROVE ConnectionsCovered'
  <2>1. /\ Others(r) /\ row' = row /\ owner' = owner /\ connected' = connected
        /\ task[r].op = "create" /\ task'[r].op \in {"create", "idle"}
        /\ task'[r].op = "create" =>
              /\ task'[r].conns \subseteq task[r].conns
              /\ task'[r].conn \subseteq task[r].conns \union task[r].conn
    BY <1>9, LookStep, Operates DEF Still
  <2> QED
    BY <1>0, <2>1 DEF Others, ConnectionsCovered, Deleting, Ahead, SyncsOf, Live
<1>10. ASSUME NEW r \in Requests, FindExisting(r) PROVE ConnectionsCovered'
  BY <1>0, <1>10, FindExistingStep DEF Idle, Others, Still, PcOnly, Same, Alike,
     ConnectionsCovered, Deleting, Ahead, SyncsOf, Live
<1>11. ASSUME NEW r \in Requests, NEW i \in Syncs, InsertSync(r, i) PROVE ConnectionsCovered'
  <2>1. /\ Others(r) /\ connected' = connected /\ row' = [s \in Syncs |->
                                                           IF s = i THEN "live" ELSE row[s]]
        /\ owner' = [s \in Syncs |-> IF s = i THEN task[r].conn ELSE owner[s]]
        /\ task'[r].op = task[r].op /\ task'[r].conn = task[r].conn
              /\ task'[r].conns = task[r].conns
    BY <1>11, InsertSyncStep DEF Same, Alike
  <2>2. task[r].op = "create"
    BY <1>11, InsertSyncStep DEF HandlersFit, OpFits, CreateLocations
  <2> QED
    BY <1>0, <2>1, <2>2 DEF Others, ConnectionsCovered, Deleting, Ahead, SyncsOf, Live
<1>12. ASSUME NEW r \in Requests, InsertJob(r) PROVE ConnectionsCovered'
  BY <1>0, <1>12, InsertJobStep DEF Others, Still, PcOnly, Same, Alike, ConnectionsCovered,
     Deleting, Ahead, SyncsOf, Live
<1>13. ASSUME NEW r \in Requests, InsertJobFails(r) PROVE ConnectionsCovered'
  BY <1>0, <1>13, InsertJobFailsStep DEF Others, Still, PcOnly, Same, Alike,
     ConnectionsCovered, Deleting, Ahead, SyncsOf, Live
<1>14. ASSUME NEW r \in Requests, StartWorkflow(r) PROVE ConnectionsCovered'
  BY <1>0, <1>14, StartWorkflowStep DEF Others, Still, PcOnly, Same, Alike, ConnectionsCovered,
     Deleting, Ahead, SyncsOf, Live
<1>15. ASSUME NEW r \in Requests, CreateSchedule(r) PROVE ConnectionsCovered'
  BY <1>0, <1>15, CreateScheduleStep DEF Others, Still, PcOnly, Same, Alike,
     ConnectionsCovered, Deleting, Ahead, SyncsOf, Live
<1>16. ASSUME NEW r \in Requests, PauseSchedule(r) PROVE ConnectionsCovered'
  BY <1>0, <1>16, PauseScheduleStep DEF Others, Still, PcOnly, Same, Alike, ConnectionsCovered,
     Deleting, Ahead, SyncsOf, Live
<1>17. ASSUME NEW r \in Requests, InsertSchedule(r) PROVE ConnectionsCovered'
  <2>1. /\ Others(r) /\ row' = row /\ owner' = owner /\ connected' = connected
        /\ task[r].op = "create" /\ task'[r].op \in {"create", "idle"}
        /\ task'[r].op = "create" =>
              /\ task'[r].conns \subseteq task[r].conns
              /\ task'[r].conn \subseteq task[r].conns \union task[r].conn
    BY <1>17, InsertScheduleStep, Operates DEF Still
  <2> QED
    BY <1>0, <2>1 DEF Others, ConnectionsCovered, Deleting, Ahead, SyncsOf, Live
<1>18. ASSUME NEW r \in Requests, StartFails(r) PROVE ConnectionsCovered'
  <2>1. /\ Others(r) /\ row' = row /\ owner' = owner /\ connected' = connected
        /\ task[r].op = "create" /\ task'[r].op \in {"create", "idle"}
        /\ task'[r].op = "create" =>
              /\ task'[r].conns \subseteq task[r].conns
              /\ task'[r].conn \subseteq task[r].conns \union task[r].conn
    BY <1>18, StartFailsStep, Operates DEF Still
  <2> QED
    BY <1>0, <2>1 DEF Others, ConnectionsCovered, Deleting, Ahead, SyncsOf, Live
<1>19. ASSUME NEW r \in Requests, DropFlow(r) PROVE ConnectionsCovered'
  BY <1>0, <1>19, DropFlowStep DEF Others, Still, PcOnly, Same, Alike, ConnectionsCovered,
     Deleting, Ahead, SyncsOf, Live
<1>20. ASSUME NEW r \in Requests, FindSync(r) PROVE ConnectionsCovered'
  <2>1. /\ Others(r) /\ row' = row /\ owner' = owner /\ connected' = connected
        /\ task'[r] = Idle \/ (task'[r].op = "delete" /\ task'[r].then = "findSync")
    BY <1>20, FindSyncStep, Operates DEF Still, Alike
  <2> QED
    BY <1>0, <2>1 DEF Idle, Others, ConnectionsCovered, Deleting, Ahead, SyncsOf, Live
<1>21. ASSUME NEW r \in Requests, GetSchedule(r) PROVE ConnectionsCovered'
  BY <1>0, <1>21, GetScheduleStep DEF Others, Still, PcOnly, Same, Alike, ConnectionsCovered,
     Deleting, Ahead, SyncsOf, Live
<1>22. ASSUME NEW r \in Requests, DropSchedule(r) PROVE ConnectionsCovered'
  BY <1>0, <1>22, DropScheduleStep DEF Others, Still, PcOnly, Same, Alike, ConnectionsCovered,
     Deleting, Ahead, SyncsOf, Live
<1>23. ASSUME NEW r \in Requests, DropSync(r) PROVE ConnectionsCovered'
  BY <1>0, <1>23, DropSyncStep DEF Others, Still, PcOnly, Same, Alike, ConnectionsCovered,
     Deleting, Ahead, SyncsOf, Live
<1>24. ASSUME NEW r \in Requests, DropJobs(r) PROVE ConnectionsCovered'
  BY <1>0, <1>24, DropJobsStep DEF Others, Still, PcOnly, Same, Alike, ConnectionsCovered,
     Deleting, Ahead, SyncsOf, Live
<1>25. ASSUME NEW r \in Requests, DropScheduleRow(r) PROVE ConnectionsCovered'
  <2>1. /\ Others(r) /\ row' = row /\ owner' = owner /\ connected' = connected
        /\ task[r].op = "delete" /\ task[r].pc = "dropScheduleRow"
              /\ Loops(task[r], task'[r], "getSchedule")
    BY <1>25, DropScheduleRowStep DEF HandlersFit, OpFits, DeleteLocations, Dropping
  <2>2. task'[r].op # "create"
    BY <2>1, LoopGoes DEF TypeOK
  <2>3. ASSUME Deleting(r, "dropConnection")'
        PROVE  Deleting(r, "dropConnection") /\ task'[r].conn = task[r].conn
                  /\ Ahead(r) \subseteq Ahead(r)'
    <3>1. task'[r].op = "delete" /\ task'[r] # Idle
      BY <2>3 DEF Deleting, Idle
    <3>2. \/ task[r].todo = {} /\ Same(task[r], task'[r])
          \/ /\ task'[r].pc = "getSchedule" /\ task'[r].todo = task[r].todo \ {task'[r].sync}
             /\ Alike(task[r], task'[r]) /\ task'[r].conn = task[r].conn
      BY <2>1, <3>1 DEF Loops
    <3> QED
      BY <2>1, <2>3, <3>2 DEF Deleting, Ahead, Same, Alike
  <2> QED
    BY <1>0, <2>1, <2>2, <2>3 DEF Others, ConnectionsCovered, SyncsOf, Live, Deleting, Ahead
<1>26. ASSUME NEW r \in Requests, DropConnection(r) PROVE ConnectionsCovered'
  <2>1. /\ Others(r) /\ row' = row /\ owner' = owner /\ connected' = connected \ task[r].conn
        /\ task[r].pc = "dropConnection" /\ task'[r].op = "idle"
    BY <1>26, DropConnectionStep DEF Idle
  <2>2. task[r].op = "delete" /\ task[r].then = "dropConnection" /\ task[r].todo = {}
           /\ One(task[r].conn)
    BY <2>1 DEF HandlersFit, OpFits, LoopFits, DeleteLocations
  <2>3. {"create", "delete"} \notin overlaps => SyncsOf(task[r].conn) = {}
    BY <2>1, <2>2 DEF ConnectionsCovered, Deleting, Ahead
  <2>4. ASSUME {"create", "delete"} \notin overlaps, NEW s \in Syncs, Live(s)
        PROVE  owner[s] \subseteq connected \ task[r].conn
    <3>1. One(owner[s]) /\ owner[s] \subseteq connected /\ ~ (owner[s] \subseteq task[r].conn)
      BY <2>3, <2>4 DEF RowsFit, Inserted, Live, ConnectionsCovered, SyncsOf
    <3> QED
      BY <2>2, <3>1 DEF One
  <2> QED
    BY <1>0, <2>1, <2>2, <2>4 DEF Others, ConnectionsCovered, Deleting, Ahead, SyncsOf, Live
<1>27. ASSUME NEW r \in Requests, DropConfig(r) PROVE ConnectionsCovered'
  BY <1>0, <1>27, DropConfigStep DEF Idle, Others, Still, PcOnly, Same, Alike,
     ConnectionsCovered, Deleting, Ahead, SyncsOf, Live
<1>28. ASSUME NEW r \in Requests, ReadSchedule(r) PROVE ConnectionsCovered'
  <2>1. /\ Others(r) /\ row' = row /\ owner' = owner /\ connected' = connected
        /\ task'[r].op \notin {"create", "delete"}
    BY <1>28, ReadScheduleStep, Operates DEF Still
  <2> QED
    BY <1>0, <2>1 DEF Others, ConnectionsCovered, Deleting, Ahead, SyncsOf, Live
<1>29. ASSUME NEW r \in Requests, Pause(r) PROVE ConnectionsCovered'
  BY <1>0, <1>29, PauseStep DEF Others, Still, PcOnly, Same, Alike, ConnectionsCovered,
     Deleting, Ahead, SyncsOf, Live
<1>30. ASSUME NEW r \in Requests, Unpause(r) PROVE ConnectionsCovered'
  BY <1>0, <1>30, UnpauseStep DEF Others, Still, PcOnly, Same, Alike, ConnectionsCovered,
     Deleting, Ahead, SyncsOf, Live
<1>31. ASSUME NEW r \in Requests, TriggerAndReadFrequency(r) PROVE ConnectionsCovered'
  BY <1>0, <1>31, TriggerAndReadFrequencyStep DEF Others, Still, PcOnly, Same, Alike,
     ConnectionsCovered, Deleting, Ahead, SyncsOf, Live
<1>32. ASSUME NEW r \in Requests, SetStatus(r) PROVE ConnectionsCovered'
  <2>1. /\ Others(r) /\ row' = row /\ owner' = owner /\ connected' = connected
        /\ task'[r].op \notin {"create", "delete"}
    BY <1>32, SetStatusStep, Operates DEF Still
  <2> QED
    BY <1>0, <2>1 DEF Others, ConnectionsCovered, Deleting, Ahead, SyncsOf, Live
<1>33. ASSUME NEW r \in Requests, Describe(r) PROVE ConnectionsCovered'
  <2>1. /\ Others(r) /\ row' = row /\ owner' = owner /\ connected' = connected
        /\ task'[r].op \notin {"create", "delete"}
    BY <1>33, DescribeStep, Operates DEF Still
  <2> QED
    BY <1>0, <2>1 DEF Others, ConnectionsCovered, Deleting, Ahead, SyncsOf, Live
<1>34. ASSUME NEW r \in Requests, UpdateSchedule(r) PROVE ConnectionsCovered'
  <2>1. /\ Others(r) /\ row' = row /\ owner' = owner /\ connected' = connected
        /\ task'[r].op \notin {"create", "delete"}
    BY <1>34, UpdateScheduleStep, Operates DEF Still
  <2> QED
    BY <1>0, <2>1 DEF Others, ConnectionsCovered, Deleting, Ahead, SyncsOf, Live
<1>35. ASSUME NEW r \in Requests, Compare(r) PROVE ConnectionsCovered'
  <2>1. /\ Others(r) /\ row' = row /\ owner' = owner /\ connected' = connected
        /\ task'[r].op \notin {"create", "delete"}
    BY <1>35, CompareStep, Operates DEF Still
  <2> QED
    BY <1>0, <2>1 DEF Others, ConnectionsCovered, Deleting, Ahead, SyncsOf, Live
<1>36. ASSUME NEW r \in Requests, WriteFrequency(r) PROVE ConnectionsCovered'
  BY <1>0, <1>36, WriteFrequencyStep DEF Others, Still, PcOnly, Same, Alike,
     ConnectionsCovered, Deleting, Ahead, SyncsOf, Live
<1>37. ASSUME NEW r \in Requests, WriteConfig(r) PROVE ConnectionsCovered'
  BY <1>0, <1>37, WriteConfigStep DEF Others, Still, PcOnly, Same, Alike, ConnectionsCovered,
     Deleting, Ahead, SyncsOf, Live
<1>38. ASSUME NEW r \in Requests, NEW preBuilt \in BOOLEAN, NEW auto \in BOOLEAN,
              Reconcile(r, preBuilt, auto)
      PROVE ConnectionsCovered'
  BY <1>0, <1>38, ReconcileStep DEF Idle, Others, Still, PcOnly, Same, Alike,
     ConnectionsCovered, Deleting, Ahead, SyncsOf, Live
<1>39. ASSUME NEW r \in Requests, MarkAllAsStopped(r) PROVE ConnectionsCovered'
  BY <1>0, <1>39, MarkAllAsStoppedStep DEF Idle, Others, Still, PcOnly, Same, Alike,
     ConnectionsCovered, Deleting, Ahead, SyncsOf, Live
<1>40. ASSUME NEW r \in Requests, CallFails(r) PROVE ConnectionsCovered'
  <2>1. Others(r) /\ row' = row /\ owner' = owner /\ connected' = connected
    BY <1>40, CallFailsStep DEF Still
  <2>2. CASE task[r].pc = "dropSchedule"
    BY <1>0, <1>40, CallFailsStep, <2>1, <2>2 DEF PcOnly, Same, Alike, Others,
       ConnectionsCovered, Deleting, Ahead, SyncsOf, Live
  <2>3. CASE task[r].pc # "dropSchedule"
    <3>1. task'[r].op \notin {"create", "delete"}
      BY <1>40, CallFailsStep, <2>3, LoopGoes, UpdateGoes DEF PcOnly, Same, Alike, TypeOK,
         HandlersFit, OpFits
    <3> QED
      BY <1>0, <2>1, <3>1 DEF Others, ConnectionsCovered, Deleting, Ahead, SyncsOf, Live
  <2> QED
    BY <2>2, <2>3
<1>41. ASSUME NEW r \in Requests, CutShort(r) PROVE ConnectionsCovered'
  BY <1>0, <1>41, CutShortStep DEF Idle, Others, Still, PcOnly, Same, Alike,
     ConnectionsCovered, Deleting, Ahead, SyncsOf, Live
<1>42. ASSUME NEW s \in Syncs, NEW outcome \in {"SUCCESS", "STOPPED"}, JobEnds(s, outcome)
      PROVE ConnectionsCovered'
  BY <1>0, <1>42 DEF JobEnds, syncVars, jobVars, temporalVars, scheduleVars, envVars,
     ConnectionsCovered, Deleting, Ahead, SyncsOf, Live
<1>43. CASE UNCHANGED vars
  BY <1>0, <1>43 DEF vars, syncVars, jobVars, temporalVars, scheduleVars, envVars,
     ConnectionsCovered, Deleting, Ahead, SyncsOf, Live
<1> QED
  BY <1>1, <1>2, <1>3, <1>4, <1>5, <1>6, <1>7, <1>8, <1>9, <1>10, <1>11, <1>12, <1>13, <1>14,
     <1>15, <1>16, <1>17, <1>18, <1>19, <1>20, <1>21, <1>22, <1>23, <1>24, <1>25, <1>26, <1>27,
     <1>28, <1>29, <1>30, <1>31, <1>32, <1>33, <1>34, <1>35, <1>36, <1>37, <1>38, <1>39, <1>40,
     <1>41, <1>42, <1>43, Cases DEF Acts, Arrivals

LEMMA NextFlowCovered ==
    ASSUME TypeOK, HandlersFit, SyncsFit, RowsFit, MeetingsKnown, NoneFound,
           ConnectionsCovered, FlowCovered, Next \/ UNCHANGED vars
    PROVE  FlowCovered'
<1>0. /\ overlaps' \intersect FlowOverlaps = {} => overlaps \intersect FlowOverlaps = {}
      /\ overlaps \intersect FlowOverlaps = {} =>
            \A q, r \in Requests : task[r].op = "delete"
               => task[q].op # "create" /\ ~ At(q, "reconcile")
  <2>1. ASSUME overlaps \intersect FlowOverlaps = {}, NEW q \in Requests, NEW r \in Requests,
               task[r].op = "delete"
        PROVE  task[q].op \notin {"create", "deploy"}
    BY <2>1 DEF MeetingsKnown, Harmful, FlowOverlaps
  <2>2. \A q \in Requests : At(q, "reconcile") => task[q].op = "deploy"
    BY DEF HandlersFit, OpFits, At
  <2> QED
    BY <2>1, <2>2, Monotone
<1>1. ASSUME NEW r \in Requests, NEW c \in Connections, NEW auto \in BOOLEAN,
             Initiate(r, c, auto)
      PROVE FlowCovered'
  <2>1. /\ Others(r) /\ row' = row /\ owner' = owner /\ config' = config
              /\ failed \subseteq failed' /\ config # NoFrequency
        /\ task[r].op = "idle" /\ task'[r].op = "create" /\ task'[r].pc = "createSync"
    BY <1>1, InitiateStep DEF Still, Idle
  <2> QED
    BY <1>0, <2>1 DEF Others, FlowCovered, Deleting, Ahead, Live, At
<1>2. ASSUME NEW r \in Requests, NEW c \in Connections, DeleteConnection(r, c)
      PROVE  FlowCovered'
  <2>1. /\ Others(r) /\ row' = row /\ owner' = owner /\ config' = config
              /\ failed \subseteq failed'
        /\ task[r] = Idle /\ task'[r].op = "delete"
        /\ task'[r].then = "dropConnection" /\ task'[r].pc # "reconcile"
    BY <1>2, DeleteConnectionStep DEF Still
  <2>2. task[r].op = "idle" /\ task[r].pc = "idle"
    BY <2>1 DEF Idle
  <2> QED
    BY <1>0, <2>1, <2>2 DEF Others, FlowCovered, Deleting, Ahead, Live, At
<1>3. ASSUME NEW r \in Requests, DeleteFlow(r) PROVE FlowCovered'
  <2>1. /\ Others(r) /\ row' = row /\ owner' = owner /\ config' = config
              /\ failed \subseteq failed'
        /\ task[r].op = "idle" /\ task'[r].op = "delete" /\ task'[r].then = "dropConfig"
        /\ task'[r].pc # "reconcile"
    BY <1>3, DeleteFlowStep DEF Still, Idle
  <2>2. SyncsOf(connected) \subseteq Ahead(r)'
    BY <1>3, DeleteFlowStep DEF Ahead
  <2>3. overlaps \intersect FlowOverlaps = {} => \A s \in Syncs : Live(s) => s \in Ahead(r)'
    BY <2>2 DEF ConnectionsCovered, SyncsOf, FlowOverlaps
  <2> QED
    BY <1>0, <2>1, <2>3 DEF Others, FlowCovered, Deleting, Ahead, Live, At
<1>4. ASSUME NEW r \in Requests, ReconcileDeletion(r) PROVE FlowCovered'
  <2>1. /\ Others(r) /\ row' = row /\ owner' = owner /\ config' = config
              /\ failed \subseteq failed'
        /\ task[r].op = "idle" /\ task'[r].op = "delete" /\ task'[r].then = "findSync"
        /\ task'[r].pc = "dropFlow" /\ task'[r].conns = connected
    BY <1>4, ReconcileDeletionStep DEF Still, Idle
  <2>2. overlaps \intersect FlowOverlaps = {} => \A s \in Syncs : Live(s)
           => owner[s] \subseteq connected
    BY DEF ConnectionsCovered, FlowOverlaps
  <2> QED
    BY <1>0, <2>1, <2>2 DEF Others, FlowCovered, Deleting, Ahead, Live, At
<1>5. ASSUME NEW r \in Requests, NEW command \in {"pause", "unpause"},
             NEW syncs \in SUBSET SyncsOf(connected), Command(r, command, syncs)
      PROVE FlowCovered'
  <2>1. /\ Others(r) /\ row' = row /\ owner' = owner /\ config' = config
              /\ failed \subseteq failed'
        /\ task'[r].op \notin {"create", "delete"} /\ task[r].op # "delete"
        /\ task'[r].pc # "reconcile"
    BY <1>5, CommandStep DEF Still, Idle
  <2> QED
    BY <1>0, <2>1 DEF Others, FlowCovered, Deleting, Ahead, Live, At
<1>6. ASSUME NEW r \in Requests, NEW command \in {"pause", "unpause"}, NEW s \in Syncs,
             CommandById(r, command, s)
      PROVE FlowCovered'
  <2>1. /\ Others(r) /\ row' = row /\ owner' = owner /\ config' = config
              /\ failed \subseteq failed'
        /\ task'[r].op \notin {"create", "delete"} /\ task[r].op # "delete"
        /\ task'[r].pc # "reconcile"
    BY <1>6, CommandByIdStep DEF Still, Idle
  <2> QED
    BY <1>0, <2>1 DEF Others, FlowCovered, Deleting, Ahead, Live, At
<1>7. ASSUME NEW r \in Requests, NEW f \in Frequencies, Deploy(r, f) PROVE FlowCovered'
  <2>1. /\ Others(r) /\ row' = row /\ owner' = owner /\ config' = config
              /\ failed \subseteq failed'
        /\ task'[r].op \notin {"create", "delete"} /\ task[r].op # "delete"
        /\ task'[r].pc # "reconcile"
    BY <1>7, DeployStep DEF Still, Idle
  <2> QED
    BY <1>0, <2>1 DEF Others, FlowCovered, Deleting, Ahead, Live, At
<1>8. ASSUME NEW r \in Requests, ListSchedules(r) PROVE FlowCovered'
  <2>1. /\ Others(r) /\ row' = row /\ owner' = owner /\ config' = config
              /\ failed \subseteq failed'
        /\ task'[r].op \notin {"create", "delete"} /\ task[r].op # "delete"
        /\ task'[r].pc # "reconcile"
    BY <1>8, ListSchedulesStep DEF Still, Idle
  <2> QED
    BY <1>0, <2>1 DEF Others, FlowCovered, Deleting, Ahead, Live, At
<1>9. ASSUME NEW r \in Requests, Look(r) PROVE FlowCovered'
  <2>1. /\ Others(r) /\ row' = row /\ owner' = owner /\ config' = config
              /\ failed \subseteq failed'
        /\ task[r].op = "create" /\ task'[r].op \in {"create", "idle"}
              /\ task'[r].pc # "reconcile"
    BY <1>9, LookStep, Operates DEF Still, LoopsOver, Idle
  <2> QED
    BY <1>0, <2>1 DEF Others, FlowCovered, Deleting, Ahead, Live, At
<1>10. ASSUME NEW r \in Requests, FindExisting(r) PROVE FlowCovered'
  <2>1. /\ Others(r) /\ row' = row /\ owner' = owner /\ config' = config
              /\ failed \subseteq failed'
        /\ task[r].op = "create"
        /\ task'[r] = Idle \/ (task'[r].op = "create" /\ task'[r].pc = "insertSync")
    BY <1>10, FindExistingStep DEF Still, PcOnly, Same, Alike, HandlersFit, OpFits,
       CreateLocations
  <2>2. task'[r].op \in {"create", "idle"} /\ task'[r].pc # "reconcile"
    BY <2>1 DEF Idle
  <2> QED
    BY <1>0, <2>1, <2>2 DEF Others, FlowCovered, Deleting, Ahead, Live, At
<1>11. ASSUME NEW r \in Requests, NEW i \in Syncs, InsertSync(r, i) PROVE FlowCovered'
  <2>1. /\ Others(r) /\ config' = config /\ failed' = failed /\ row' = [s \in Syncs |->
                                                                         IF s = i THEN "live" ELSE row[s]]
        /\ \A s \in Syncs : row[s] = "live" => owner'[s] = owner[s]
        /\ task[r].op = "create" /\ task'[r].op = "create" /\ task'[r].pc = "insertJob"
    BY <1>11, InsertSyncStep DEF Same, Alike, HandlersFit, OpFits, CreateLocations
  <2> QED
    BY <1>0, <2>1 DEF Others, FlowCovered, Deleting, Ahead, Live, At
<1>12. ASSUME NEW r \in Requests, InsertJob(r) PROVE FlowCovered'
  <2>1. /\ Others(r) /\ row' = row /\ owner' = owner /\ config' = config
              /\ failed \subseteq failed'
        /\ task[r].op = "create" /\ task'[r].op \in {"create", "idle"}
              /\ task'[r].pc # "reconcile"
    BY ZenonT(60), <1>12, InsertJobStep DEF Still, Idle, PcOnly, Same, Alike, HandlersFit,
       OpFits,
       CreateLocations, Creating
  <2> QED
    BY <1>0, <2>1 DEF Others, FlowCovered, Deleting, Ahead, Live, At
<1>13. ASSUME NEW r \in Requests, InsertJobFails(r) PROVE FlowCovered'
  <2>1. /\ Others(r) /\ row' = row /\ owner' = owner /\ config' = config
              /\ failed \subseteq failed'
        /\ task[r].op = "create" /\ task'[r].op \in {"create", "idle"}
              /\ task'[r].pc # "reconcile"
    BY ZenonT(60), <1>13, InsertJobFailsStep DEF Still, Idle, PcOnly, Same, Alike, HandlersFit,
       OpFits,
       CreateLocations, Creating
  <2> QED
    BY <1>0, <2>1 DEF Others, FlowCovered, Deleting, Ahead, Live, At
<1>14. ASSUME NEW r \in Requests, StartWorkflow(r) PROVE FlowCovered'
  <2>1. /\ Others(r) /\ row' = row /\ owner' = owner /\ config' = config
              /\ failed \subseteq failed'
        /\ task[r].op = "create" /\ task'[r].op \in {"create", "idle"}
              /\ task'[r].pc # "reconcile"
    BY ZenonT(60), <1>14, StartWorkflowStep DEF Still, Idle, PcOnly, Same, Alike, HandlersFit,
       OpFits,
       CreateLocations, Creating
  <2> QED
    BY <1>0, <2>1 DEF Others, FlowCovered, Deleting, Ahead, Live, At
<1>15. ASSUME NEW r \in Requests, CreateSchedule(r) PROVE FlowCovered'
  <2>1. /\ Others(r) /\ row' = row /\ owner' = owner /\ config' = config
              /\ failed \subseteq failed'
        /\ task[r].op = "create" /\ task'[r].op \in {"create", "idle"}
              /\ task'[r].pc # "reconcile"
    BY ZenonT(60), <1>15, CreateScheduleStep DEF Still, Idle, PcOnly, Same, Alike, HandlersFit,
       OpFits,
       CreateLocations, Creating
  <2> QED
    BY <1>0, <2>1 DEF Others, FlowCovered, Deleting, Ahead, Live, At
<1>16. ASSUME NEW r \in Requests, PauseSchedule(r) PROVE FlowCovered'
  <2>1. /\ Others(r) /\ row' = row /\ owner' = owner /\ config' = config
              /\ failed \subseteq failed'
        /\ task[r].op = "create" /\ task'[r].op \in {"create", "idle"}
              /\ task'[r].pc # "reconcile"
    BY ZenonT(60), <1>16, PauseScheduleStep DEF Still, Idle, PcOnly, Same, Alike, HandlersFit,
       OpFits,
       CreateLocations, Creating
  <2> QED
    BY <1>0, <2>1 DEF Others, FlowCovered, Deleting, Ahead, Live, At
<1>17. ASSUME NEW r \in Requests, InsertSchedule(r) PROVE FlowCovered'
  <2>1. /\ Others(r) /\ row' = row /\ owner' = owner /\ config' = config
              /\ failed \subseteq failed'
        /\ task[r].op = "create" /\ task'[r].op \in {"create", "idle"}
              /\ task'[r].pc # "reconcile"
    BY <1>17, InsertScheduleStep, Operates DEF Still, LoopsOver, Idle
  <2> QED
    BY <1>0, <2>1 DEF Others, FlowCovered, Deleting, Ahead, Live, At
<1>18. ASSUME NEW r \in Requests, StartFails(r) PROVE FlowCovered'
  <2>1. /\ Others(r) /\ row' = row /\ owner' = owner /\ config' = config
              /\ failed \subseteq failed'
        /\ task[r].op = "create" /\ task'[r].op \in {"create", "idle"}
              /\ task'[r].pc # "reconcile"
    BY <1>18, StartFailsStep, Operates DEF Still, LoopsOver, Idle
  <2> QED
    BY <1>0, <2>1 DEF Others, FlowCovered, Deleting, Ahead, Live, At
<1>19. ASSUME NEW r \in Requests, DropFlow(r) PROVE FlowCovered'
  <2>1. /\ Others(r) /\ row' = row /\ owner' = owner /\ failed' = failed
        /\ task'[r].op = "delete" /\ task'[r].then = task[r].then
              /\ task'[r].conns = task[r].conns
        /\ task[r].op = "delete" /\ task[r].then = "findSync"
        /\ task'[r].pc # "reconcile" /\ Ahead(r)' = Ahead(r)
    BY <1>19, DropFlowStep DEF PcOnly, Same, Alike, Ahead, HandlersFit, OpFits, LoopFits,
       DeleteLocations
  <2> QED
    BY <1>0, <2>1 DEF Others, FlowCovered, Deleting, Ahead, Live, At
<1>20. ASSUME NEW r \in Requests, FindSync(r) PROVE FlowCovered'
  <2>1. /\ Others(r) /\ row' = row /\ owner' = owner /\ config' = config
              /\ failed \subseteq failed'
        /\ task[r].op = "delete" /\ task[r].then = "findSync" /\ task[r].pc = "findSync"
        /\ Ahead(r) = {}
    BY <1>20, FindSyncStep, Operates DEF Still, HandlersFit, LoopFits, Ahead
  <2>2. CASE task'[r] = Idle /\ task[r].conns = {}
    <3>1. (overlaps \intersect FlowOverlaps = {} /\ "delete" \notin failed)
             => \A s \in Syncs : ~ Live(s)
      BY <2>1, <2>2 DEF FlowCovered, Deleting, RowsFit, Inserted, One, Live
    <3>2. task'[r].op = "idle" /\ task'[r].pc = "idle"
      BY <2>2 DEF Idle
    <3> QED
      BY <1>0, <2>1, <3>1, <3>2 DEF Others, FlowCovered, Deleting, Ahead, Live, At
  <2>3. ASSUME NEW c \in task[r].conns,
               Alike(task[r], task'[r]), task'[r].conns = task[r].conns \ {c},
               \/ SyncsOf({c}) = {} /\ task'[r].pc = "findSync"
               \/ task'[r].pc = "getSchedule" /\ task'[r].sync \in SyncsOf({c})
        PROVE  FlowCovered'
    <3>1. ASSUME {"create"} \notin overlaps, NEW s \in Syncs, Live(s), owner[s] \subseteq {c}
          PROVE  s \in Ahead(r)'
      <4>1. s \in SyncsOf({c})
        BY <3>1 DEF SyncsOf
      <4>2. task'[r].pc = "getSchedule" /\ task'[r].sync \in SyncsOf({c})
        BY <2>3, <4>1
      <4>3. owner[s] = owner[task'[r].sync]
        <5>1. /\ One(owner[s]) /\ owner[s] \subseteq {c}
              /\ One(owner[task'[r].sync]) /\ owner[task'[r].sync] \subseteq {c}
          BY <4>1, <4>2 DEF SyncsOf, RowsFit, Inserted, Live
        <5> QED
          BY <5>1 DEF One
      <4>4. s = task'[r].sync
        BY <3>1, <4>1, <4>2, <4>3 DEF NoneFound, SyncsOf
      <4> QED
        BY <4>2, <4>4 DEF Ahead
    <3>2. ASSUME NEW s \in Syncs, Live(s), owner[s] \subseteq task[r].conns,
                 ~ (owner[s] \subseteq {c})
          PROVE  owner[s] \subseteq task'[r].conns
      BY <2>3, <3>2 DEF RowsFit, Inserted, Live, One
    <3>3. task'[r].op = "delete" /\ task'[r].then = "findSync" /\ task'[r].pc # "reconcile"
      BY <2>1, <2>3 DEF Alike
    <3>4. ASSUME overlaps \intersect FlowOverlaps = {}, "delete" \notin failed,
                 NEW s \in Syncs, Live(s)
          PROVE  s \in Ahead(r)' \/ owner[s] \subseteq task'[r].conns
      <4>1. owner[s] \subseteq task[r].conns
        BY <2>1, <3>4 DEF FlowCovered, Deleting
      <4>2. {"create"} \notin overlaps
        BY <3>4 DEF FlowOverlaps
      <4> QED
        BY <3>1, <3>2, <3>4, <4>1, <4>2
    <3> QED
      BY <1>0, <2>1, <3>3, <3>4 DEF Others, FlowCovered, Deleting, Ahead, Live, At
  <2> QED
    BY <1>20, FindSyncStep, <2>2, <2>3
<1>21. ASSUME NEW r \in Requests, GetSchedule(r) PROVE FlowCovered'
  <2>1. /\ Others(r) /\ row' = row /\ owner' = owner /\ config' = config
              /\ failed \subseteq failed'
        /\ task'[r].op = "delete" /\ task'[r].then = task[r].then
              /\ task'[r].conns = task[r].conns
        /\ task'[r].pc # "reconcile" /\ Ahead(r)' = Ahead(r) /\ task[r].op = "delete"
    BY <1>21, GetScheduleStep DEF Still, PcOnly, Same, Alike, Ahead, HandlersFit, OpFits,
       DeleteLocations, Dropping
  <2> QED
    BY <1>0, <2>1 DEF Others, FlowCovered, Deleting, Ahead, Live, At
<1>22. ASSUME NEW r \in Requests, DropSchedule(r) PROVE FlowCovered'
  <2>1. /\ Others(r) /\ row' = row /\ owner' = owner /\ config' = config
              /\ failed \subseteq failed'
        /\ task'[r].op = "delete" /\ task'[r].then = task[r].then
              /\ task'[r].conns = task[r].conns
        /\ task'[r].pc # "reconcile" /\ Ahead(r)' = Ahead(r) /\ task[r].op = "delete"
    BY <1>22, DropScheduleStep DEF Still, PcOnly, Same, Alike, Ahead, HandlersFit, OpFits,
       DeleteLocations, Dropping
  <2> QED
    BY <1>0, <2>1 DEF Others, FlowCovered, Deleting, Ahead, Live, At
<1>23. ASSUME NEW r \in Requests, DropSync(r) PROVE FlowCovered'
  <2>1. /\ Others(r) /\ owner' = owner /\ config' = config /\ failed' = failed
        /\ row' = [s \in Syncs |-> IF s = task[r].sync THEN "deleted" ELSE row[s]]
        /\ task'[r].op = "delete" /\ task'[r].then = task[r].then
              /\ task'[r].conns = task[r].conns
        /\ task'[r].pc # "reconcile" /\ Ahead(r) \subseteq Ahead(r)' \union {task[r].sync}
        /\ task[r].op = "delete"
    BY <1>23, DropSyncStep DEF PcOnly, Same, Alike, Ahead, HandlersFit, OpFits,
       DeleteLocations, Dropping
  <2> QED
    BY <1>0, <2>1 DEF Others, FlowCovered, Deleting, Ahead, Live, At
<1>24. ASSUME NEW r \in Requests, DropJobs(r) PROVE FlowCovered'
  <2>1. /\ Others(r) /\ row' = row /\ owner' = owner /\ config' = config
              /\ failed \subseteq failed'
        /\ task'[r].op = "delete" /\ task'[r].then = task[r].then
              /\ task'[r].conns = task[r].conns
        /\ task'[r].pc # "reconcile" /\ Ahead(r)' = Ahead(r) /\ task[r].op = "delete"
    BY <1>24, DropJobsStep DEF Still, PcOnly, Same, Alike, Ahead, HandlersFit, OpFits,
       DeleteLocations, Dropping
  <2> QED
    BY <1>0, <2>1 DEF Others, FlowCovered, Deleting, Ahead, Live, At
<1>25. ASSUME NEW r \in Requests, DropScheduleRow(r) PROVE FlowCovered'
  <2>1. /\ Others(r) /\ row' = row /\ owner' = owner /\ config' = config
              /\ failed \subseteq failed'
        /\ task[r].op = "delete" /\ task[r].pc = "dropScheduleRow"
              /\ Loops(task[r], task'[r], "getSchedule")
    BY <1>25, DropScheduleRowStep DEF HandlersFit, OpFits, DeleteLocations, Dropping
  <2>2. task'[r].pc # "reconcile" /\ task[r].then # "idle"
    BY <2>1, LoopGoes DEF TypeOK, HandlersFit, LoopFits
  <2>3. task'[r].op = "delete" /\ task'[r].then = task[r].then /\ task'[r].conns = task[r].conns
    BY <2>1, <2>2 DEF Loops, Same, Alike
  <2>4. Ahead(r) \subseteq Ahead(r)'
    BY <2>1, <2>2 DEF Loops, Same, Ahead
  <2>5. \A q \in Requests \ {r} : task'[q] = task[q] /\ Ahead(q)' = Ahead(q)
    BY <2>1 DEF Others, Ahead
  <2>6. task'[r].op = "delete" /\ task[r].op = "delete"
    BY <2>1, <2>3
  <2> QED
    BY <1>0, <2>1, <2>2, <2>3, <2>4, <2>5, <2>6 DEF FlowCovered, Deleting, Live, At
<1>26. ASSUME NEW r \in Requests, DropConnection(r) PROVE FlowCovered'
  <2>1. /\ Others(r) /\ row' = row /\ owner' = owner /\ config' = config
              /\ failed \subseteq failed'
        /\ task[r].op = "delete" /\ task'[r] = Idle /\ task[r].then = "dropConnection"
    BY <1>26, DropConnectionStep DEF HandlersFit, OpFits, LoopFits, DeleteLocations
  <2>2. task'[r].op = "idle" /\ task'[r].pc = "idle"
    BY <2>1 DEF Idle
  <2> QED
    BY <1>0, <2>1, <2>2 DEF Others, FlowCovered, Deleting, Ahead, Live, At
<1>27. ASSUME NEW r \in Requests, DropConfig(r) PROVE FlowCovered'
  <2>1. /\ Others(r) /\ row' = row /\ owner' = owner /\ failed' = failed
        /\ task[r].pc = "dropConfig" /\ task'[r].op = "idle" /\ task'[r].pc = "idle"
    BY <1>27, DropConfigStep DEF Idle
  <2>2. task[r].op = "delete" /\ task[r].then = "dropConfig" /\ Ahead(r) = {}
    BY <2>1 DEF HandlersFit, OpFits, LoopFits, DeleteLocations, Ahead
  <2>3. (overlaps \intersect FlowOverlaps = {} /\ "delete" \notin failed)
           => \A s \in Syncs : ~ Live(s)
    BY <2>2 DEF FlowCovered, Deleting
  <2> QED
    BY <1>0, <2>1, <2>2, <2>3 DEF Others, FlowCovered, Deleting, Ahead, Live, At
<1>28. ASSUME NEW r \in Requests, ReadSchedule(r) PROVE FlowCovered'
  <2>1. /\ Others(r) /\ row' = row /\ owner' = owner /\ config' = config
              /\ failed \subseteq failed'
        /\ task'[r].op \notin {"create", "delete"} /\ task[r].op # "delete"
        /\ task'[r].pc # "reconcile"
    BY <1>28, ReadScheduleStep, Operates, LoopGoes DEF Still, TypeOK, PcOnly, HandlersFit,
       OpFits
  <2> QED
    BY <1>0, <2>1 DEF Others, FlowCovered, Deleting, Ahead, Live, At
<1>29. ASSUME NEW r \in Requests, Pause(r) PROVE FlowCovered'
  <2>1. /\ Others(r) /\ row' = row /\ owner' = owner /\ config' = config
              /\ failed \subseteq failed'
        /\ task'[r].op \notin {"create", "delete"} /\ task[r].op # "delete"
        /\ task'[r].pc # "reconcile"
    BY <1>29, PauseStep DEF Still, Idle, PcOnly, Same, Alike, HandlersFit, OpFits
  <2> QED
    BY <1>0, <2>1 DEF Others, FlowCovered, Deleting, Ahead, Live, At
<1>30. ASSUME NEW r \in Requests, Unpause(r) PROVE FlowCovered'
  <2>1. /\ Others(r) /\ row' = row /\ owner' = owner /\ config' = config
              /\ failed \subseteq failed'
        /\ task'[r].op \notin {"create", "delete"} /\ task[r].op # "delete"
        /\ task'[r].pc # "reconcile"
    BY <1>30, UnpauseStep DEF Still, Idle, PcOnly, Same, Alike, HandlersFit, OpFits
  <2> QED
    BY <1>0, <2>1 DEF Others, FlowCovered, Deleting, Ahead, Live, At
<1>31. ASSUME NEW r \in Requests, TriggerAndReadFrequency(r) PROVE FlowCovered'
  <2>1. /\ Others(r) /\ row' = row /\ owner' = owner /\ config' = config
              /\ failed \subseteq failed'
        /\ task'[r].op \notin {"create", "delete"} /\ task[r].op # "delete"
        /\ task'[r].pc # "reconcile"
    BY <1>31, TriggerAndReadFrequencyStep DEF Still, Idle, PcOnly, Same, Alike, HandlersFit,
       OpFits
  <2> QED
    BY <1>0, <2>1 DEF Others, FlowCovered, Deleting, Ahead, Live, At
<1>32. ASSUME NEW r \in Requests, SetStatus(r) PROVE FlowCovered'
  <2>1. /\ Others(r) /\ row' = row /\ owner' = owner /\ config' = config
              /\ failed \subseteq failed'
        /\ task'[r].op \notin {"create", "delete"} /\ task[r].op # "delete"
        /\ task'[r].pc # "reconcile"
    BY <1>32, SetStatusStep, Operates, LoopGoes DEF Still, TypeOK, PcOnly, HandlersFit, OpFits
  <2> QED
    BY <1>0, <2>1 DEF Others, FlowCovered, Deleting, Ahead, Live, At
<1>33. ASSUME NEW r \in Requests, Describe(r) PROVE FlowCovered'
  <2>1. /\ Others(r) /\ row' = row /\ owner' = owner /\ config' = config
              /\ failed \subseteq failed'
        /\ task'[r].op \notin {"create", "delete"} /\ task[r].op # "delete"
        /\ task'[r].pc # "reconcile"
    BY <1>33, DescribeStep, Operates, UpdateGoes DEF Still, TypeOK, PcOnly, HandlersFit, OpFits
  <2> QED
    BY <1>0, <2>1 DEF Others, FlowCovered, Deleting, Ahead, Live, At
<1>34. ASSUME NEW r \in Requests, UpdateSchedule(r) PROVE FlowCovered'
  <2>1. /\ Others(r) /\ row' = row /\ owner' = owner /\ config' = config
              /\ failed \subseteq failed'
        /\ task'[r].op \notin {"create", "delete"} /\ task[r].op # "delete"
        /\ task'[r].pc # "reconcile"
    BY <1>34, UpdateScheduleStep, Operates, UpdateGoes DEF Still, TypeOK, PcOnly, HandlersFit,
       OpFits
  <2> QED
    BY <1>0, <2>1 DEF Others, FlowCovered, Deleting, Ahead, Live, At
<1>35. ASSUME NEW r \in Requests, Compare(r) PROVE FlowCovered'
  <2>1. /\ Others(r) /\ row' = row /\ owner' = owner /\ config' = config
              /\ failed \subseteq failed'
        /\ task'[r].op \notin {"create", "delete"} /\ task[r].op # "delete"
        /\ task'[r].pc # "reconcile"
    BY <1>35, CompareStep, Operates, LoopGoes DEF Still, TypeOK, PcOnly, HandlersFit, OpFits
  <2> QED
    BY <1>0, <2>1 DEF Others, FlowCovered, Deleting, Ahead, Live, At
<1>36. ASSUME NEW r \in Requests, WriteFrequency(r) PROVE FlowCovered'
  <2>1. /\ Others(r) /\ row' = row /\ owner' = owner /\ config' = config
              /\ failed \subseteq failed'
        /\ task'[r].op \notin {"create", "delete"} /\ task[r].op # "delete"
        /\ task'[r].pc # "reconcile"
    BY <1>36, WriteFrequencyStep DEF Still, Idle, PcOnly, Same, Alike, HandlersFit, OpFits
  <2> QED
    BY <1>0, <2>1 DEF Others, FlowCovered, Deleting, Ahead, Live, At
<1>37. ASSUME NEW r \in Requests, WriteConfig(r) PROVE FlowCovered'
  <2>1. /\ Others(r) /\ row' = row /\ owner' = owner /\ failed' = failed
        /\ config' # NoFrequency
        /\ task[r].op = "deploy" /\ task'[r].op = "deploy"
    BY <1>37, WriteConfigStep, FrequenciesAssumption DEF PcOnly, Same, Alike, HandlersFit,
       OpFits, LoopFits, NoFrequency
  <2> QED
    BY <1>0, <2>1 DEF Others, FlowCovered, Deleting, Ahead, Live, At
<1>38. ASSUME NEW r \in Requests, NEW preBuilt \in BOOLEAN, NEW auto \in BOOLEAN,
              Reconcile(r, preBuilt, auto)
      PROVE FlowCovered'
  <2>1. /\ Others(r) /\ row' = row /\ owner' = owner /\ config' = config
              /\ failed \subseteq failed'
        /\ task[r].pc = "reconcile" /\ task[r].op = "deploy"
        /\ task'[r] = Idle \/ (task'[r].op = "create" /\ task'[r].pc = "look")
    BY <1>38, ReconcileStep DEF Still, HandlersFit, OpFits
  <2>2. task'[r].op \in {"create", "idle"} /\ task'[r].pc # "reconcile"
    BY <2>1 DEF Idle
  <2> QED
    BY <1>0, <2>1, <2>2 DEF Others, FlowCovered, Deleting, Ahead, Live, At
<1>39. ASSUME NEW r \in Requests, MarkAllAsStopped(r) PROVE FlowCovered'
  <2>1. /\ Others(r) /\ row' = row /\ owner' = owner /\ config' = config
              /\ failed \subseteq failed'
        /\ task[r].op = "list" /\ task'[r] = Idle
    BY <1>39, MarkAllAsStoppedStep DEF HandlersFit, OpFits
  <2>2. task'[r].op = "idle" /\ task'[r].pc = "idle"
    BY <2>1 DEF Idle
  <2> QED
    BY <1>0, <2>1, <2>2 DEF Others, FlowCovered, Deleting, Ahead, Live, At
<1>40. ASSUME NEW r \in Requests, CallFails(r) PROVE FlowCovered'
  <2>1. /\ Others(r) /\ row' = row /\ owner' = owner /\ config' = config
              /\ failed \subseteq failed' /\ failed' = failed \union {task[r].op}
    BY <1>40, CallFailsStep DEF Still
  <2>2. CASE task[r].op = "delete"
    BY <2>1, <2>2 DEF FlowCovered
  <2>3. CASE task[r].op # "delete"
    <3>1. task'[r].op \notin {"create", "delete"} /\ task'[r].pc # "reconcile"
      BY <1>40, CallFailsStep, <2>3, LoopGoes, UpdateGoes
         DEF PcOnly, Same, Alike, TypeOK, HandlersFit, OpFits, DeleteLocations, Dropping
    <3> QED
      BY <1>0, <2>1, <2>3, <3>1 DEF Others, FlowCovered, Deleting, Ahead, Live, At
  <2> QED
    BY <2>2, <2>3
<1>41. ASSUME NEW r \in Requests, CutShort(r) PROVE FlowCovered'
  <2>1. Others(r) /\ row' = row /\ owner' = owner /\ config' = config
           /\ failed \subseteq failed' /\ failed' = failed \union {task[r].op}
    BY <1>41, CutShortStep DEF Still
  <2>2. task'[r].op = "idle" /\ task'[r].pc = "idle"
    BY <1>41, CutShortStep DEF Idle
  <2> QED
    BY <1>0, <2>1, <2>2 DEF Others, FlowCovered, Deleting, Ahead, Live, At
<1>42. ASSUME NEW s \in Syncs, NEW outcome \in {"SUCCESS", "STOPPED"}, JobEnds(s, outcome)
      PROVE FlowCovered'
  BY <1>0, <1>42 DEF JobEnds, syncVars, jobVars, temporalVars, scheduleVars, envVars,
     FlowCovered, Deleting, Ahead, Live, At
<1>43. CASE UNCHANGED vars
  BY <1>0, <1>43 DEF vars, syncVars, jobVars, temporalVars, scheduleVars, envVars, FlowCovered,
     Deleting, Ahead, Live, At
<1> QED
  BY <1>1, <1>2, <1>3, <1>4, <1>5, <1>6, <1>7, <1>8, <1>9, <1>10, <1>11, <1>12, <1>13, <1>14,
     <1>15, <1>16, <1>17, <1>18, <1>19, <1>20, <1>21, <1>22, <1>23, <1>24, <1>25, <1>26, <1>27,
     <1>28, <1>29, <1>30, <1>31, <1>32, <1>33, <1>34, <1>35, <1>36, <1>37, <1>38, <1>39, <1>40,
     <1>41, <1>42, <1>43, Cases DEF Acts, Arrivals

\* The invariant of deletions: what is deleted is not scheduled, and what is to be deleted
\* is still ahead of the handler that deletes it.
DeletionInv == CoreInv /\ NoneFound /\ SchedulesGo /\ ConnectionsCovered /\ FlowCovered

LEMMA DeletionInvAlways == Spec => []DeletionInv
<1>1. Init => DeletionInv
  <2>1. Init => NoneFound /\ SchedulesGo
    BY DEF Init, NoneFound, SchedulesGo, Exists, Live, At, Idle, Creating
  <2>2. Init => ConnectionsCovered /\ FlowCovered
    BY DEF Init, ConnectionsCovered, FlowCovered, Deleting, Live, At, Idle
  <2> QED
    BY <2>1, <2>2, InitCore DEF DeletionInv
<1>2. DeletionInv /\ [Next]_vars => DeletionInv'
  <2> SUFFICES ASSUME DeletionInv, [Next]_vars PROVE DeletionInv'
    OBVIOUS
  <2>1. CoreInv'
    BY NextCore DEF DeletionInv
  <2>2. NoneFound' /\ SchedulesGo'
    BY NextNoneFound, NextSchedulesGo DEF DeletionInv, CoreInv
  <2>3. ConnectionsCovered' /\ FlowCovered'
    BY NextConnectionsCovered, NextFlowCovered DEF DeletionInv, CoreInv
  <2> QED
    BY <2>1, <2>2, <2>3 DEF DeletionInv
<1> QED
  BY <1>1, <1>2, PTL DEF Spec

\* What a deletion leaves, each with the meetings and failures that it names: no schedule in
\* Temporal of a sync that is deleted, no live sync of a connection that is deleted, and
\* none of a flow that is deleted.
THEOREM NothingIsLeft == Spec => []DeletionLeavesNothing
<1>1. DeletionInv => NoOrphanSchedule
  BY DEF DeletionInv, SchedulesGo, NoOrphanSchedule
<1>2. DeletionInv => SyncHasConnection
  BY DEF DeletionInv, ConnectionsCovered, SyncHasConnection
<1>3. DeletionInv => SyncHasFlow
  BY DEF DeletionInv, FlowCovered, FlowOverlaps, SyncHasFlow, No, Deleting
<1> QED
  BY <1>1, <1>2, <1>3, DeletionInvAlways, PTL DEF DeletionLeavesNothing

(***************************************************************************)
(* What the row says of the schedule.                                      *)
(***************************************************************************)

LEMMA CommandsApart ==
    ASSUME MeetingsKnown, CommandsAlone, NEW q \in Requests, NEW r \in Requests
    PROVE  /\ ~ (task[q].op = "pause" /\ task[r].op = "unpause")
           /\ ~ (task[q].op = "deploy" /\ task[r].op = "pause")
           /\ ~ (task[q].op = "deploy" /\ task[r].op = "unpause")
           /\ ~ (task[q].op = "create" /\ task[r].op = "list")
  BY DEF MeetingsKnown, Harmful, CommandsAlone, CommandOverlaps

LEMMA FailedGrows ==
    ASSUME TypeOK, HandlersFit, SyncsFit, RowsFit, Next \/ UNCHANGED vars
    PROVE  failed \subseteq failed'
<1>1. CASE UNCHANGED vars
  BY <1>1 DEF vars
<1>2. ASSUME NEW r \in Requests, Arrivals(r) PROVE failed \subseteq failed'
  BY <1>2, Arrive
<1>3. ASSUME NEW r \in Requests,
             Look(r) \/ FindExisting(r) \/ InsertJob(r) \/ InsertJobFails(r)
                \/ StartWorkflow(r) \/
             CreateSchedule(r) \/ PauseSchedule(r) \/ InsertSchedule(r) \/ StartFails(r)
                \/ DropFlow(r) \/
             FindSync(r) \/ GetSchedule(r) \/ DropSchedule(r) \/ DropSync(r) \/ DropJobs(r) \/
             DropScheduleRow(r) \/ DropConnection(r) \/ DropConfig(r) \/ ReadSchedule(r)
                \/ Pause(r) \/
             Unpause(r) \/ TriggerAndReadFrequency(r) \/ SetStatus(r) \/ Describe(r)
                \/ UpdateSchedule(r) \/
             Compare(r) \/ WriteFrequency(r) \/ WriteConfig(r) \/ MarkAllAsStopped(r)
                \/ CallFails(r) \/
             CutShort(r)
      PROVE  failed \subseteq failed'
  BY <1>3, LookStep, FindExistingStep, InsertJobStep, InsertJobFailsStep, StartWorkflowStep,
     CreateScheduleStep, PauseScheduleStep, InsertScheduleStep, StartFailsStep, DropFlowStep,
     FindSyncStep, GetScheduleStep, DropScheduleStep, DropSyncStep, DropJobsStep,
     DropScheduleRowStep, DropConnectionStep, DropConfigStep, ReadScheduleStep, PauseStep,
     UnpauseStep, TriggerAndReadFrequencyStep, SetStatusStep, DescribeStep, UpdateScheduleStep,
     CompareStep, WriteFrequencyStep, WriteConfigStep, MarkAllAsStoppedStep, CallFailsStep,
     CutShortStep
<1>4. ASSUME NEW r \in Requests, NEW i \in Syncs, InsertSync(r, i)
      PROVE  failed \subseteq failed'
  BY <1>4, InsertSyncStep
<1>5. ASSUME NEW r \in Requests, NEW preBuilt \in BOOLEAN, NEW auto \in BOOLEAN,
             Reconcile(r, preBuilt, auto)
      PROVE  failed \subseteq failed'
  BY <1>5, ReconcileStep
<1>6. ASSUME NEW s \in Syncs, NEW outcome \in {"SUCCESS", "STOPPED"}, JobEnds(s, outcome)
      PROVE  failed \subseteq failed'
  BY <1>6 DEF JobEnds
<1> QED
  BY <1>1, <1>2, <1>3, <1>4, <1>5, <1>6, Cases DEF Acts

LEMMA AloneBefore ==
    ASSUME TypeOK, HandlersFit, SyncsFit, RowsFit, CommandsAlone', Next \/ UNCHANGED vars
    PROVE  CommandsAlone
  BY Monotone, FailedGrows DEF CommandsAlone

LEMMA NextOthersAgree ==
    ASSUME TypeOK, HandlersFit, SyncsFit, RowsFit, MeetingsKnown, StatusKept,
           CommandsAlone', Next \/ UNCHANGED vars
    PROVE  OthersAgree'
<1>0. /\ CommandsAlone /\ OthersAgree /\ GoneIsDropped /\ WrittenIsSo
      /\ \A q, r \in Requests : /\ ~ (task[q].op = "pause" /\ task[r].op = "unpause")
                              /\ ~ (task[q].op = "deploy" /\ task[r].op = "pause")
                              /\ ~ (task[q].op = "deploy" /\ task[r].op = "unpause")
                              /\ ~ (task[q].op = "create" /\ task[r].op = "list")
  BY AloneBefore, CommandsApart DEF StatusKept
<1>1. ASSUME NEW r \in Requests, Arrivals(r) PROVE OthersAgree'
  BY <1>0, <1>1, Arrive DEF Others, Still, OthersAgree, Agrees, Moving, On, Live, Scheduled
<1>2. ASSUME NEW r \in Requests, Look(r) PROVE OthersAgree'
  BY <1>0, <1>2, LookStep DEF LoopsOver, Idle, Others, Still, PcOnly, Same, Alike, OthersAgree,
     Agrees, Moving, On, Live, Scheduled
<1>3. ASSUME NEW r \in Requests, FindExisting(r) PROVE OthersAgree'
  BY <1>0, <1>3, FindExistingStep DEF Idle, Others, Still, PcOnly, Same, Alike, OthersAgree,
     Agrees, Moving, On, Live, Scheduled
<1>4. ASSUME NEW r \in Requests, NEW i \in Syncs, InsertSync(r, i) PROVE OthersAgree'
  <2>1. /\ Others(r) /\ status' = status /\ sched' = sched /\ row' = [s \in Syncs |->
                                                                       IF s = i THEN "live" ELSE row[s]]
        /\ status[i] = "none" /\ task[r].pc \notin {"setStatus", "trigger", "describe", "update", "dropSync"}
    BY <1>4, InsertSyncStep DEF Still, RowsFit, SyncsFit, SyncFits, Creating, HandlersFit,
       OpFits, CreateLocations, PcOnly, Same, Alike, TypeOK, Commanding, Inserted, CommandsAlone
  <2>2. \A q \in Requests, s \in Syncs : Moving(q, s) => Moving(q, s)'
    BY <2>1 DEF Moving, On, Others
  <2> QED
    BY <1>0, <2>1, <2>2 DEF OthersAgree, Agrees, Live, Scheduled
<1>5. ASSUME NEW r \in Requests, InsertJob(r) PROVE OthersAgree'
  BY <1>0, <1>5, InsertJobStep DEF Others, Still, PcOnly, Same, Alike, OthersAgree, Agrees,
     Moving, On, Live, Scheduled
<1>6. ASSUME NEW r \in Requests, InsertJobFails(r) PROVE OthersAgree'
  BY <1>0, <1>6, InsertJobFailsStep DEF Others, Still, PcOnly, Same, Alike, OthersAgree,
     Agrees, Moving, On, Live, Scheduled
<1>7. ASSUME NEW r \in Requests, StartWorkflow(r) PROVE OthersAgree'
  BY <1>0, <1>7, StartWorkflowStep DEF Others, Still, PcOnly, Same, Alike, OthersAgree, Agrees,
     Moving, On, Live, Scheduled
<1>8. ASSUME NEW r \in Requests, CreateSchedule(r) PROVE OthersAgree'
  <2>1. /\ Others(r) /\ row' = row /\ status' = status
        /\ \A s \in Syncs : s # task[r].sync => sched'[s] = sched[s]
        /\ status[task[r].sync] = "none"
              /\ task[r].pc \notin {"setStatus", "trigger", "describe", "update", "dropSync"}
    BY <1>8, CreateScheduleStep DEF Still, RowsFit, SyncsFit, SyncFits, Creating, HandlersFit,
       OpFits, CreateLocations, PcOnly, Same, Alike, TypeOK, Commanding, Inserted, CommandsAlone
  <2>2. \A q \in Requests, s \in Syncs : Moving(q, s) => Moving(q, s)'
    BY <2>1 DEF Moving, On, Others
  <2> QED
    BY <1>0, <2>1, <2>2 DEF OthersAgree, Agrees, Live, Scheduled
<1>9. ASSUME NEW r \in Requests, PauseSchedule(r) PROVE OthersAgree'
  <2>1. /\ Others(r) /\ row' = row /\ status' = status
        /\ \A s \in Syncs : s # task[r].sync => sched'[s] = sched[s]
        /\ status[task[r].sync] = "none"
              /\ task[r].pc \notin {"setStatus", "trigger", "describe", "update", "dropSync"}
    BY <1>9, PauseScheduleStep DEF Still, RowsFit, SyncsFit, SyncFits, Creating, HandlersFit,
       OpFits, CreateLocations, PcOnly, Same, Alike, TypeOK, Commanding, Inserted, CommandsAlone
  <2>2. \A q \in Requests, s \in Syncs : Moving(q, s) => Moving(q, s)'
    BY <2>1 DEF Moving, On, Others
  <2> QED
    BY <1>0, <2>1, <2>2 DEF OthersAgree, Agrees, Live, Scheduled
<1>10. ASSUME NEW r \in Requests, InsertSchedule(r) PROVE OthersAgree'
  <2>1. /\ Others(r) /\ row' = row /\ sched' = sched /\ task[r].sync \in Syncs
              /\ task[r].pc = "insertSchedule"
        /\ \A s \in Syncs : s # task[r].sync => status'[s] = status[s]
        /\ status'[task[r].sync] = IF task[r].auto THEN "RUNNING" ELSE "PAUSED"
    BY <1>10, InsertScheduleStep DEF SyncsFit, SyncFits, Creating, Inserted
  <2>2. PICK i \in Syncs : i = task[r].sync
    BY <2>1
  <2>3. \A q \in Requests, s \in Syncs : Moving(q, s) => Moving(q, s)'
    BY <2>1, <2>2 DEF Moving, On, Others
  <2>4. Exists(i) => sched[i] = IF task[r].auto THEN "running" ELSE "paused"
    BY <1>0, <2>1, <2>2 DEF WrittenIsSo, Written, Is
  <2>5. Exists(i) => Agrees(i)'
    BY <2>1, <2>2, <2>4 DEF Agrees
  <2>6. On(r, i, {"pauseSchedule", "insertSchedule"})
    BY <2>1, <2>2 DEF On
  <2>7. (Live(i) /\ ~ Exists(i)) => \E q \in Requests : Moving(q, i)'
    BY <1>0, <2>1, <2>2, <2>3, <2>6 DEF GoneIsDropped, Moving
  <2>8. \A s \in Syncs : s # i => (Scheduled(s)' <=> Scheduled(s)) /\ (Agrees(s)' <=> Agrees(s))
    BY <2>1, <2>2 DEF Scheduled, Agrees
  <2>9. \A s \in Syncs : Live(s)' <=> Live(s)
    BY <2>1, <2>2 DEF Live
  <2> QED
    BY <1>0, <2>1, <2>2, <2>3, <2>5, <2>7, <2>8, <2>9 DEF OthersAgree
<1>11. ASSUME NEW r \in Requests, StartFails(r) PROVE OthersAgree'
  <2>1. /\ Others(r) /\ row' = row /\ status' = status /\ sched' = sched
        /\ task[r].pc \notin {"setStatus", "trigger", "describe", "update", "dropSync"}
    BY <1>11, StartFailsStep DEF Still, RowsFit, SyncsFit, SyncFits, Creating, HandlersFit,
       OpFits, CreateLocations, PcOnly, Same, Alike, TypeOK, Commanding, Inserted, CommandsAlone
  <2>2. \A q \in Requests, s \in Syncs : Moving(q, s) => Moving(q, s)'
    BY <2>1 DEF Moving, On, Others
  <2> QED
    BY <1>0, <2>1, <2>2 DEF OthersAgree, Agrees, Live, Scheduled
<1>12. ASSUME NEW r \in Requests, DropFlow(r) PROVE OthersAgree'
  BY <1>0, <1>12, DropFlowStep DEF Others, Still, PcOnly, Same, Alike, OthersAgree, Agrees,
     Moving, On, Live, Scheduled
<1>13. ASSUME NEW r \in Requests, FindSync(r) PROVE OthersAgree'
  BY <1>0, <1>13, FindSyncStep DEF Idle, Others, Still, PcOnly, Same, Alike, OthersAgree,
     Agrees, Moving, On, Live, Scheduled
<1>14. ASSUME NEW r \in Requests, GetSchedule(r) PROVE OthersAgree'
  BY <1>0, <1>14, GetScheduleStep DEF Others, Still, PcOnly, Same, Alike, OthersAgree, Agrees,
     Moving, On, Live, Scheduled
<1>15. ASSUME NEW r \in Requests, DropSchedule(r) PROVE OthersAgree'
  BY <1>0, <1>15, DropScheduleStep DEF Others, Still, PcOnly, Same, Alike, OthersAgree, Agrees,
     Moving, On, Live, Scheduled
<1>16. ASSUME NEW r \in Requests, DropSync(r) PROVE OthersAgree'
  BY <1>0, <1>16, DropSyncStep DEF Others, Still, PcOnly, Same, Alike, OthersAgree, Agrees,
     Moving, On, Live, Scheduled
<1>17. ASSUME NEW r \in Requests, DropJobs(r) PROVE OthersAgree'
  BY <1>0, <1>17, DropJobsStep DEF Others, Still, PcOnly, Same, Alike, OthersAgree, Agrees,
     Moving, On, Live, Scheduled
<1>18. ASSUME NEW r \in Requests, DropScheduleRow(r) PROVE OthersAgree'
  BY <1>0, <1>18, DropScheduleRowStep, LoopGoes DEF TypeOK, Others, Still, PcOnly, Same, Alike,
     OthersAgree, Agrees, Moving, On, Live, Scheduled
<1>19. ASSUME NEW r \in Requests, DropConnection(r) PROVE OthersAgree'
  BY <1>0, <1>19, DropConnectionStep DEF Idle, Others, Still, PcOnly, Same, Alike, OthersAgree,
     Agrees, Moving, On, Live, Scheduled
<1>20. ASSUME NEW r \in Requests, DropConfig(r) PROVE OthersAgree'
  BY <1>0, <1>20, DropConfigStep DEF Idle, Others, Still, PcOnly, Same, Alike, OthersAgree,
     Agrees, Moving, On, Live, Scheduled
<1>21. ASSUME NEW r \in Requests, ReadSchedule(r) PROVE OthersAgree'
  BY <1>0, <1>21, ReadScheduleStep, LoopGoes DEF TypeOK, Others, Still, PcOnly, Same, Alike,
     OthersAgree, Agrees, Moving, On, Live, Scheduled
<1>22. ASSUME NEW r \in Requests, Pause(r) PROVE OthersAgree'
  <2>1. /\ Others(r) /\ row' = row /\ status' = status
        /\ \A s \in Syncs : s # task[r].sync => sched'[s] = sched[s]
        /\ task[r].pc \notin {"setStatus", "trigger", "describe", "update", "dropSync"}
        /\ task'[r].op = "pause" /\ task'[r].sync = task[r].sync
        /\ task'[r].pc \in {"setStatus"}
    BY <1>22, PauseStep DEF Still, RowsFit, SyncsFit, SyncFits, Creating, HandlersFit, OpFits,
       CreateLocations, PcOnly, Same, Alike, TypeOK, Commanding, Inserted, CommandsAlone
  <2>2. \A q \in Requests, s \in Syncs : Moving(q, s) => Moving(q, s)'
    BY <2>1 DEF Moving, On, Others
  <2>3. Moving(r, task[r].sync)'
    BY <2>1 DEF Moving, On
  <2> QED
    BY <1>0, <2>1, <2>2, <2>3 DEF OthersAgree, Agrees, Live, Scheduled
<1>23. ASSUME NEW r \in Requests, Unpause(r) PROVE OthersAgree'
  <2>1. /\ Others(r) /\ row' = row /\ status' = status
        /\ \A s \in Syncs : s # task[r].sync => sched'[s] = sched[s]
        /\ task[r].pc \notin {"setStatus", "trigger", "describe", "update", "dropSync"}
        /\ task'[r].op = "unpause" /\ task'[r].sync = task[r].sync
        /\ task'[r].pc \in {"trigger", "setStatus"}
    BY <1>23, UnpauseStep DEF Still, RowsFit, SyncsFit, SyncFits, Creating, HandlersFit,
       OpFits, CreateLocations, PcOnly, Same, Alike, TypeOK, Commanding, Inserted, CommandsAlone
  <2>2. \A q \in Requests, s \in Syncs : Moving(q, s) => Moving(q, s)'
    BY <2>1 DEF Moving, On, Others
  <2>3. Moving(r, task[r].sync)'
    BY <2>1 DEF Moving, On
  <2> QED
    BY <1>0, <2>1, <2>2, <2>3 DEF OthersAgree, Agrees, Live, Scheduled
<1>24. ASSUME NEW r \in Requests, TriggerAndReadFrequency(r) PROVE OthersAgree'
  BY <1>0, <1>24, TriggerAndReadFrequencyStep DEF Others, Still, PcOnly, Same, Alike,
     OthersAgree, Agrees, Moving, On, Live, Scheduled
<1>25. ASSUME NEW r \in Requests, SetStatus(r) PROVE OthersAgree'
  <2>1. /\ Others(r) /\ row' = row /\ sched' = sched /\ task[r].pc = "setStatus"
        /\ task[r].op \in {"pause", "unpause"} /\ task[r].sync \in Syncs
        /\ \A s \in Syncs : s # task[r].sync => status'[s] = status[s]
        /\ status'[task[r].sync] = IF ~ Scheduled(task[r].sync) THEN status[task[r].sync]
                                  ELSE IF task[r].op = "pause" THEN "PAUSED" ELSE "RUNNING"
    BY <1>25, SetStatusStep DEF HandlersFit, OpFits, SyncsFit, SyncFits, Commanding, Inserted
  <2>2. PICK i \in Syncs : i = task[r].sync
    BY <2>1
  <2>3. \A q \in Requests, s \in Syncs :
           (Moving(q, s) /\ ~ (q = r /\ s = i)) => Moving(q, s)'
    BY <2>1, <2>2 DEF Moving, On, Others
  <2>4. Exists(i) => sched[i] = IF task[r].op = "pause" THEN "paused" ELSE "running"
    BY <1>0, <2>1, <2>2 DEF WrittenIsSo, Written, Is
  <2>5. (Scheduled(i) /\ Exists(i)) => Agrees(i)'
    BY <2>1, <2>2, <2>4 DEF Agrees
  <2>6. \A q \in Requests : On(q, i, {"dropSync"}) => Moving(q, i)'
    BY <2>1, <2>2 DEF Moving, On, Others
  <2>7. (Live(i) /\ Scheduled(i) /\ ~ Exists(i))
           => \E q \in Requests : Moving(q, i)'
    BY <1>0, <2>1, <2>2, <2>6 DEF GoneIsDropped
  <2>8. \A s \in Syncs : s # i => (Scheduled(s)' <=> Scheduled(s)) /\ (Agrees(s)' <=> Agrees(s))
    BY <2>1, <2>2 DEF Scheduled, Agrees
  <2>9. (\A s \in Syncs : Live(s)' <=> Live(s)) /\ (Scheduled(i)' => Scheduled(i))
    BY <2>1, <2>2 DEF Live, Scheduled
  <2> QED
    BY <1>0, <2>1, <2>2, <2>3, <2>5, <2>7, <2>8, <2>9 DEF OthersAgree
<1>26. ASSUME NEW r \in Requests, Describe(r) PROVE OthersAgree'
  <2>1. /\ Others(r) /\ row' = row /\ status' = status /\ sched' = sched
              /\ task[r].pc = "describe"
    BY <1>26, DescribeStep DEF Still
  <2>2. task[r].op = "unpause" =>
           task'[r].op = "unpause" /\ task'[r].sync = task[r].sync
              /\ task'[r].pc \in {"update", "setStatus"}
    BY <1>26, DescribeStep DEF GoesOn, Same, Alike
  <2>3. \A q \in Requests, s \in Syncs : Moving(q, s) => Moving(q, s)'
    BY <2>1, <2>2 DEF Moving, On, Others
  <2> QED
    BY <1>0, <2>1, <2>3 DEF OthersAgree, Agrees, Live, Scheduled
<1>27. ASSUME NEW r \in Requests, UpdateSchedule(r) PROVE OthersAgree'
  <2>1. /\ Others(r) /\ row' = row /\ status' = status /\ task[r].pc = "update"
              /\ task[r].sync \in Syncs
        /\ sched' = [s \in Syncs |->
                      IF s = task[r].sync THEN (IF Exists(task[r].sync) THEN task[r].seen
                                                             ELSE sched[task[r].sync])
                                                                ELSE sched[s]]
        /\ task[r].op \in {"unpause", "deploy"}
    BY <1>27, UpdateScheduleStep DEF SyncsFit, SyncFits, Commanding, Inserted, HandlersFit,
       OpFits
  <2>2. \A s \in Syncs : sched'[s] = sched[s]
    BY <1>0, <2>1 DEF WrittenIsSo, Written, Is
  <2>3. task[r].op = "unpause" =>
           task'[r].op = "unpause" /\ task'[r].sync = task[r].sync /\ task'[r].pc = "setStatus"
    BY <1>27, UpdateScheduleStep DEF GoesOn, Same, Alike
  <2>4. \A q \in Requests, s \in Syncs : Moving(q, s) => Moving(q, s)'
    BY <2>1, <2>3 DEF Moving, On, Others
  <2> QED
    BY <1>0, <2>1, <2>2, <2>4 DEF OthersAgree, Agrees, Live, Scheduled
<1>28. ASSUME NEW r \in Requests, Compare(r) PROVE OthersAgree'
  BY <1>0, <1>28, CompareStep, LoopGoes DEF TypeOK, Others, Still, PcOnly, Same, Alike,
     OthersAgree, Agrees, Moving, On, Live, Scheduled
<1>29. ASSUME NEW r \in Requests, WriteFrequency(r) PROVE OthersAgree'
  BY <1>0, <1>29, WriteFrequencyStep DEF Others, Still, PcOnly, Same, Alike, OthersAgree,
     Agrees, Moving, On, Live, Scheduled
<1>30. ASSUME NEW r \in Requests, WriteConfig(r) PROVE OthersAgree'
  BY <1>0, <1>30, WriteConfigStep DEF Others, Still, PcOnly, Same, Alike, OthersAgree, Agrees,
     Moving, On, Live, Scheduled
<1>31. ASSUME NEW r \in Requests, NEW preBuilt \in BOOLEAN, NEW auto \in BOOLEAN,
              Reconcile(r, preBuilt, auto)
      PROVE OthersAgree'
  BY <1>0, <1>31, ReconcileStep DEF Idle, Others, Still, PcOnly, Same, Alike, OthersAgree,
     Agrees, Moving, On, Live, Scheduled
<1>32. ASSUME NEW r \in Requests, MarkAllAsStopped(r) PROVE OthersAgree'
  <2>1. /\ task[r].pc = "markStopped" /\ sched' = sched
        /\ status' = [s \in Syncs |-> IF Scheduled(s) THEN "STOPPED" ELSE status[s]]
    BY <1>32, MarkAllAsStoppedStep
  <2>2. \A s \in Syncs : ~ Exists(s)
    BY <1>0, <2>1 DEF WrittenIsSo, Written
  <2> QED
    BY <2>1, <2>2 DEF OthersAgree, Agrees, Exists, Scheduled
<1>33. ASSUME NEW r \in Requests, CallFails(r) PROVE OthersAgree'
  <2>1. /\ Others(r) /\ row' = row /\ status' = status /\ sched' = sched
        /\ task[r].op \notin {"pause", "unpause", "delete"}
    BY <1>33, CallFailsStep DEF Still, CommandsAlone
  <2>2. ~ (\E s \in Syncs : Moving(r, s))
    BY <2>1 DEF Moving, On, HandlersFit, OpFits, DeleteLocations, Dropping
  <2>3. \A q \in Requests, s \in Syncs : Moving(q, s) => Moving(q, s)'
    BY <2>1, <2>2 DEF Moving, On, Others
  <2> QED
    BY <1>0, <2>1, <2>3 DEF OthersAgree, Agrees, Live, Scheduled
<1>34. ASSUME NEW r \in Requests, CutShort(r) PROVE OthersAgree'
  <2>1. /\ Others(r) /\ row' = row /\ status' = status /\ sched' = sched
        /\ task[r].op \notin {"pause", "unpause", "delete"}
    BY <1>34, CutShortStep DEF Still, CommandsAlone
  <2>2. ~ (\E s \in Syncs : Moving(r, s))
    BY <2>1 DEF Moving, On, HandlersFit, OpFits, DeleteLocations, Dropping
  <2>3. \A q \in Requests, s \in Syncs : Moving(q, s) => Moving(q, s)'
    BY <2>1, <2>2 DEF Moving, On, Others
  <2> QED
    BY <1>0, <2>1, <2>3 DEF OthersAgree, Agrees, Live, Scheduled
<1>35. ASSUME NEW s \in Syncs, NEW outcome \in {"SUCCESS", "STOPPED"}, JobEnds(s, outcome)
      PROVE OthersAgree'
  BY <1>0, <1>35 DEF JobEnds, syncVars, jobVars, temporalVars, scheduleVars, envVars,
     OthersAgree, Agrees, Moving, On, Live, Scheduled
<1>36. CASE UNCHANGED vars
  BY <1>0, <1>36 DEF vars, syncVars, jobVars, temporalVars, scheduleVars, envVars, OthersAgree,
     Agrees, Moving, On, Live, Scheduled
<1> QED
  BY <1>1, <1>2, <1>3, <1>4, <1>5, <1>6, <1>7, <1>8, <1>9, <1>10, <1>11, <1>12, <1>13, <1>14,
     <1>15, <1>16, <1>17, <1>18, <1>19, <1>20, <1>21, <1>22, <1>23, <1>24, <1>25, <1>26, <1>27,
     <1>28, <1>29, <1>30, <1>31, <1>32, <1>33, <1>34, <1>35, <1>36, Cases DEF Acts

LEMMA NextGoneIsDropped ==
    ASSUME TypeOK, HandlersFit, SyncsFit, RowsFit, MeetingsKnown, StatusKept,
           CommandsAlone', Next \/ UNCHANGED vars
    PROVE  GoneIsDropped'
<1> USE DEF Exists, GoneIsDropped, Live, On, Scheduled
<1>0. /\ CommandsAlone /\ OthersAgree /\ GoneIsDropped /\ WrittenIsSo
      /\ \A q, r \in Requests : /\ ~ (task[q].op = "pause" /\ task[r].op = "unpause")
                              /\ ~ (task[q].op = "deploy" /\ task[r].op = "pause")
                              /\ ~ (task[q].op = "deploy" /\ task[r].op = "unpause")
                              /\ ~ (task[q].op = "create" /\ task[r].op = "list")
  BY AloneBefore, CommandsApart DEF StatusKept
<1>1. ASSUME NEW r \in Requests, Arrivals(r) PROVE GoneIsDropped'
  BY <1>0, <1>1, Arrive DEF Others, Still
<1>2. ASSUME NEW r \in Requests, Look(r) PROVE GoneIsDropped'
  BY <1>0, <1>2, LookStep DEF LoopsOver, Idle, Others, Still, PcOnly, Same, Alike
<1>3. ASSUME NEW r \in Requests, FindExisting(r) PROVE GoneIsDropped'
  BY <1>0, <1>3, FindExistingStep DEF Idle, Others, Still, PcOnly, Same, Alike
<1>4. ASSUME NEW r \in Requests, NEW i \in Syncs, InsertSync(r, i) PROVE GoneIsDropped'
  <2>1. /\ Others(r) /\ status' = status /\ sched' = sched /\ row' = [s \in Syncs |->
                                                                       IF s = i THEN "live" ELSE row[s]]
        /\ status[i] = "none" /\ row[i] = "none" /\ task[r].pc = "insertSync"
              /\ task'[r].pc = "insertJob"
    BY <1>4, InsertSyncStep DEF RowsFit
  <2>2. /\ \A q \in Requests, s \in Syncs : On(q, s, {"dropSync"}) => On(q, s, {"dropSync"})'
        /\ \A q \in Requests, s \in Syncs :
              On(q, s, {"pauseSchedule", "insertSchedule"})'
                 => On(q, s, {"pauseSchedule", "insertSchedule"})
    BY <2>1 DEF Others
  <2>3. \A q \in Requests : ~ On(q, i, {"pauseSchedule", "insertSchedule"})
    BY <2>1 DEF SyncsFit, SyncFits, Creating, Inserted
  <2> QED
    BY <1>0, <2>1, <2>2, <2>3
<1>5. ASSUME NEW r \in Requests, InsertJob(r) PROVE GoneIsDropped'
  BY <1>0, <1>5, InsertJobStep DEF Others, Still, PcOnly, Same, Alike
<1>6. ASSUME NEW r \in Requests, InsertJobFails(r) PROVE GoneIsDropped'
  BY <1>0, <1>6, InsertJobFailsStep DEF Others, Still, PcOnly, Same, Alike
<1>7. ASSUME NEW r \in Requests, StartWorkflow(r) PROVE GoneIsDropped'
  BY <1>0, <1>7, StartWorkflowStep DEF Others, Still, PcOnly, Same, Alike
<1>8. ASSUME NEW r \in Requests, CreateSchedule(r) PROVE GoneIsDropped'
  BY <1>0, <1>8, CreateScheduleStep DEF Others, Still, PcOnly, Same, Alike
<1>9. ASSUME NEW r \in Requests, PauseSchedule(r) PROVE GoneIsDropped'
  BY <1>0, <1>9, PauseScheduleStep DEF Others, Still, PcOnly, Same, Alike
<1>10. ASSUME NEW r \in Requests, InsertSchedule(r) PROVE GoneIsDropped'
  BY <1>0, <1>10, InsertScheduleStep DEF LoopsOver, Idle, Others, Still, PcOnly, Same, Alike
<1>11. ASSUME NEW r \in Requests, StartFails(r) PROVE GoneIsDropped'
  <2>1. /\ Others(r) /\ row' = row /\ status' = status /\ sched' = sched
        /\ task[r].pc \in Creating /\ task'[r].pc \in {"idle", "look"}
    BY <1>11, StartFailsStep DEF Still, LoopsOver, Idle
  <2>2. /\ \A q \in Requests, s \in Syncs : On(q, s, {"dropSync"}) => On(q, s, {"dropSync"})'
        /\ \A q \in Requests, s \in Syncs :
              On(q, s, {"pauseSchedule", "insertSchedule"})'
                 => On(q, s, {"pauseSchedule", "insertSchedule"})
    BY <2>1 DEF Others, Creating
  <2> QED
    BY <1>0, <2>1, <2>2
<1>12. ASSUME NEW r \in Requests, DropFlow(r) PROVE GoneIsDropped'
  BY <1>0, <1>12, DropFlowStep DEF Others, Still, PcOnly, Same, Alike
<1>13. ASSUME NEW r \in Requests, FindSync(r) PROVE GoneIsDropped'
  <2>1. /\ Others(r) /\ row' = row /\ status' = status /\ sched' = sched
        /\ task[r].pc = "findSync" /\ task'[r].pc \in {"idle", "findSync", "getSchedule"}
    BY <1>13, FindSyncStep, Places DEF Still
  <2>2. /\ \A q \in Requests, s \in Syncs : On(q, s, {"dropSync"}) => On(q, s, {"dropSync"})'
        /\ \A q \in Requests, s \in Syncs :
              On(q, s, {"pauseSchedule", "insertSchedule"})'
                 => On(q, s, {"pauseSchedule", "insertSchedule"})
    BY <2>1 DEF Others
  <2> QED
    BY <1>0, <2>1, <2>2
<1>14. ASSUME NEW r \in Requests, GetSchedule(r) PROVE GoneIsDropped'
  BY <1>0, <1>14, GetScheduleStep DEF Others, Still, PcOnly, Same, Alike
<1>15. ASSUME NEW r \in Requests, DropSchedule(r) PROVE GoneIsDropped'
  BY <1>0, <1>15, DropScheduleStep DEF Others, Still, PcOnly, Same, Alike
<1>16. ASSUME NEW r \in Requests, DropSync(r) PROVE GoneIsDropped'
  BY <1>0, <1>16, DropSyncStep DEF Others, Still, PcOnly, Same, Alike
<1>17. ASSUME NEW r \in Requests, DropJobs(r) PROVE GoneIsDropped'
  BY <1>0, <1>17, DropJobsStep DEF Others, Still, PcOnly, Same, Alike
<1>18. ASSUME NEW r \in Requests, DropScheduleRow(r) PROVE GoneIsDropped'
  BY <1>0, <1>18, DropScheduleRowStep, LoopGoes DEF TypeOK, Others, Still, PcOnly, Same, Alike
<1>19. ASSUME NEW r \in Requests, DropConnection(r) PROVE GoneIsDropped'
  BY <1>0, <1>19, DropConnectionStep DEF Idle, Others, Still, PcOnly, Same, Alike
<1>20. ASSUME NEW r \in Requests, DropConfig(r) PROVE GoneIsDropped'
  BY <1>0, <1>20, DropConfigStep DEF Idle, Others, Still, PcOnly, Same, Alike
<1>21. ASSUME NEW r \in Requests, ReadSchedule(r) PROVE GoneIsDropped'
  BY SMTT(30), <1>0, <1>21, ReadScheduleStep, LoopGoes DEF TypeOK, Others, Still, PcOnly, Same, Alike
<1>22. ASSUME NEW r \in Requests, Pause(r) PROVE GoneIsDropped'
  BY <1>0, <1>22, PauseStep DEF Others, Still, PcOnly, Same, Alike
<1>23. ASSUME NEW r \in Requests, Unpause(r) PROVE GoneIsDropped'
  BY <1>0, <1>23, UnpauseStep DEF Others, Still, PcOnly, Same, Alike
<1>24. ASSUME NEW r \in Requests, TriggerAndReadFrequency(r) PROVE GoneIsDropped'
  BY <1>0, <1>24, TriggerAndReadFrequencyStep DEF Others, Still, PcOnly, Same, Alike
<1>25. ASSUME NEW r \in Requests, SetStatus(r) PROVE GoneIsDropped'
  BY <1>0, <1>25, SetStatusStep, LoopGoes DEF TypeOK, Others, Still, PcOnly, Same, Alike
<1>26. ASSUME NEW r \in Requests, Describe(r) PROVE GoneIsDropped'
  BY <1>0, <1>26, DescribeStep, UpdateGoes DEF TypeOK, Others, Still, PcOnly, Same, Alike
<1>27. ASSUME NEW r \in Requests, UpdateSchedule(r) PROVE GoneIsDropped'
  <2>1. /\ Others(r) /\ row' = row /\ status' = status /\ task[r].pc = "update"
        /\ task'[r].pc \notin {"dropSync", "pauseSchedule", "insertSchedule"}
    BY <1>27, UpdateScheduleStep, UpdateGoes DEF TypeOK
  <2>2. /\ \A q \in Requests, s \in Syncs : On(q, s, {"dropSync"}) => On(q, s, {"dropSync"})'
        /\ \A q \in Requests, s \in Syncs :
              On(q, s, {"pauseSchedule", "insertSchedule"})'
                 => On(q, s, {"pauseSchedule", "insertSchedule"})
    BY <2>1 DEF Others
  <2>3. \A s \in Syncs : Exists(s)' <=> Exists(s)
    BY <1>27, Places
  <2> QED
    BY <1>0, <2>1, <2>2, <2>3
<1>28. ASSUME NEW r \in Requests, Compare(r) PROVE GoneIsDropped'
  BY <1>0, <1>28, CompareStep, LoopGoes DEF TypeOK, Others, Still, PcOnly, Same, Alike
<1>29. ASSUME NEW r \in Requests, WriteFrequency(r) PROVE GoneIsDropped'
  BY <1>0, <1>29, WriteFrequencyStep DEF Others, Still, PcOnly, Same, Alike
<1>30. ASSUME NEW r \in Requests, WriteConfig(r) PROVE GoneIsDropped'
  BY <1>0, <1>30, WriteConfigStep DEF Others, Still, PcOnly, Same, Alike
<1>31. ASSUME NEW r \in Requests, NEW preBuilt \in BOOLEAN, NEW auto \in BOOLEAN,
              Reconcile(r, preBuilt, auto)
      PROVE GoneIsDropped'
  BY <1>0, <1>31, ReconcileStep DEF Idle, Others, Still, PcOnly, Same, Alike
<1>32. ASSUME NEW r \in Requests, MarkAllAsStopped(r) PROVE GoneIsDropped'
  BY <1>0, <1>32, MarkAllAsStoppedStep DEF Idle, Others, Still, PcOnly, Same, Alike
<1>33. ASSUME NEW r \in Requests, CallFails(r) PROVE GoneIsDropped'
  BY <1>0, <1>33, CallFailsStep, LoopGoes, UpdateGoes DEF TypeOK, Others, Still, PcOnly, Same,
     Alike
<1>34. ASSUME NEW r \in Requests, CutShort(r) PROVE GoneIsDropped'
  <2>1. /\ Others(r) /\ row' = row /\ status' = status /\ sched' = sched /\ task'[r].pc = "idle"
        /\ task[r].op \notin {"pause", "unpause", "delete"}
    BY <1>34, CutShortStep DEF Still, CommandsAlone, Idle
  <2>2. task[r].pc # "dropSync"
    BY <2>1 DEF HandlersFit, OpFits, DeleteLocations, Dropping
  <2>3. /\ \A q \in Requests, s \in Syncs : On(q, s, {"dropSync"}) => On(q, s, {"dropSync"})'
        /\ \A q \in Requests, s \in Syncs :
              On(q, s, {"pauseSchedule", "insertSchedule"})'
                 => On(q, s, {"pauseSchedule", "insertSchedule"})
    BY <2>1, <2>2 DEF Others
  <2> QED
    BY <1>0, <2>1, <2>3
<1>35. ASSUME NEW s \in Syncs, NEW outcome \in {"SUCCESS", "STOPPED"}, JobEnds(s, outcome)
      PROVE GoneIsDropped'
  BY <1>0, <1>35 DEF JobEnds, syncVars, jobVars, temporalVars, scheduleVars, envVars
<1>36. CASE UNCHANGED vars
  BY <1>0, <1>36 DEF vars, syncVars, jobVars, temporalVars, scheduleVars, envVars
<1> QED
  BY <1>1, <1>2, <1>3, <1>4, <1>5, <1>6, <1>7, <1>8, <1>9, <1>10, <1>11, <1>12, <1>13, <1>14,
     <1>15, <1>16, <1>17, <1>18, <1>19, <1>20, <1>21, <1>22, <1>23, <1>24, <1>25, <1>26, <1>27,
     <1>28, <1>29, <1>30, <1>31, <1>32, <1>33, <1>34, <1>35, <1>36, Cases DEF Acts

LEMMA NextWrittenIsSo ==
    ASSUME TypeOK, HandlersFit, SyncsFit, RowsFit, MeetingsKnown, StatusKept,
           CommandsAlone', Next \/ UNCHANGED vars
    PROVE  WrittenIsSo'
<1>0. /\ CommandsAlone /\ OthersAgree /\ GoneIsDropped /\ WrittenIsSo
      /\ \A q, r \in Requests : /\ ~ (task[q].op = "pause" /\ task[r].op = "unpause")
                              /\ ~ (task[q].op = "deploy" /\ task[r].op = "pause")
                              /\ ~ (task[q].op = "deploy" /\ task[r].op = "unpause")
                              /\ ~ (task[q].op = "create" /\ task[r].op = "list")
  BY AloneBefore, CommandsApart DEF StatusKept
<1>1. ASSUME NEW r \in Requests, Arrivals(r) PROVE WrittenIsSo'
  BY <1>0, <1>1, Arrive DEF Others, Still, WrittenIsSo, Written, Is, Exists
<1>2. ASSUME NEW r \in Requests, Look(r) PROVE WrittenIsSo'
  BY <1>0, <1>2, LookStep DEF LoopsOver, Idle, Others, Still, PcOnly, Same, Alike, WrittenIsSo,
     Written, Is, Exists
<1>3. ASSUME NEW r \in Requests, FindExisting(r) PROVE WrittenIsSo'
  BY <1>0, <1>3, FindExistingStep DEF Idle, Others, Still, PcOnly, Same, Alike, WrittenIsSo,
     Written, Is, Exists
<1>4. ASSUME NEW r \in Requests, NEW i \in Syncs, InsertSync(r, i) PROVE WrittenIsSo'
  BY <1>0, <1>4, InsertSyncStep DEF Others, Still, PcOnly, Same, Alike, WrittenIsSo, Written,
     Is, Exists
<1>5. ASSUME NEW r \in Requests, InsertJob(r) PROVE WrittenIsSo'
  BY <1>0, <1>5, InsertJobStep DEF Others, Still, PcOnly, Same, Alike, WrittenIsSo, Written,
     Is, Exists
<1>6. ASSUME NEW r \in Requests, InsertJobFails(r) PROVE WrittenIsSo'
  BY <1>0, <1>6, InsertJobFailsStep DEF Others, Still, PcOnly, Same, Alike, WrittenIsSo,
     Written, Is, Exists
<1>7. ASSUME NEW r \in Requests, StartWorkflow(r) PROVE WrittenIsSo'
  BY <1>0, <1>7, StartWorkflowStep DEF Others, Still, PcOnly, Same, Alike, WrittenIsSo,
     Written, Is, Exists
<1>8. ASSUME NEW r \in Requests, CreateSchedule(r) PROVE WrittenIsSo'
  <2>1. /\ Others(r) /\ task[r].pc = "createSchedule" /\ task'[r].sync = task[r].sync
              /\ task'[r].op = task[r].op
        /\ task'[r].auto = task[r].auto /\ task[r].sync \in Syncs
              /\ status[task[r].sync] = "none"
        /\ task'[r].pc = (IF task[r].auto THEN "insertSchedule" ELSE "pauseSchedule")
        /\ sched' = [s \in Syncs |-> IF s = task[r].sync THEN "running" ELSE sched[s]]
    BY <1>8, CreateScheduleStep DEF PcOnly, Same, Alike, SyncsFit, SyncFits, Inserted, Creating
  <2>2. task[r].op = "create"
    BY <2>1 DEF HandlersFit, OpFits, CreateLocations, Creating
  <2>3. Written(task[r])'
    BY <1>0, <2>1, <2>2 DEF WrittenIsSo, Written, Is
  <2>4. ASSUME NEW q \in Requests \ {r},
               task[q].pc \in {"insertSchedule", "setStatus", "trigger", "describe", "update"}
        PROVE  task[q].sync \in Syncs /\ task[q].sync # task[r].sync
    BY <2>1, <2>4 DEF RowsFit, SyncsFit, SyncFits, Creating, Commanding, Inserted
  <2>5. ASSUME NEW q \in Requests \ {r} PROVE Written(task[q])'
    BY <1>0, <2>1, <2>2, <2>4, <2>5 DEF WrittenIsSo, Written, Is, Exists, Others, HandlersFit,
       OpFits
  <2> QED
    BY <2>3, <2>5 DEF WrittenIsSo
<1>9. ASSUME NEW r \in Requests, PauseSchedule(r) PROVE WrittenIsSo'
  <2>1. /\ Others(r) /\ task[r].pc = "pauseSchedule" /\ task'[r].sync = task[r].sync
              /\ task'[r].op = task[r].op
        /\ task'[r].auto = task[r].auto /\ task[r].sync \in Syncs
              /\ status[task[r].sync] = "none"
        /\ task'[r].pc = "insertSchedule"
        /\ sched' = [s \in Syncs |-> IF s = task[r].sync THEN "paused" ELSE sched[s]]
    BY <1>9, PauseScheduleStep DEF PcOnly, Same, Alike, SyncsFit, SyncFits, Inserted, Creating
  <2>2. task[r].op = "create"
    BY <2>1 DEF HandlersFit, OpFits, CreateLocations, Creating
  <2>3. Written(task[r])'
    BY <1>0, <2>1, <2>2 DEF WrittenIsSo, Written, Is
  <2>4. ASSUME NEW q \in Requests \ {r},
               task[q].pc \in {"insertSchedule", "setStatus", "trigger", "describe", "update"}
        PROVE  task[q].sync \in Syncs /\ task[q].sync # task[r].sync
    BY <2>1, <2>4 DEF RowsFit, SyncsFit, SyncFits, Creating, Commanding, Inserted
  <2>5. ASSUME NEW q \in Requests \ {r} PROVE Written(task[q])'
    BY <1>0, <2>1, <2>2, <2>4, <2>5 DEF WrittenIsSo, Written, Is, Exists, Others, HandlersFit,
       OpFits
  <2> QED
    BY <2>3, <2>5 DEF WrittenIsSo
<1>10. ASSUME NEW r \in Requests, InsertSchedule(r) PROVE WrittenIsSo'
  BY <1>0, <1>10, InsertScheduleStep DEF LoopsOver, Idle, Others, Still, PcOnly, Same, Alike,
     WrittenIsSo, Written, Is, Exists
<1>11. ASSUME NEW r \in Requests, StartFails(r) PROVE WrittenIsSo'
  BY <1>0, <1>11, StartFailsStep DEF LoopsOver, Idle, Others, Still, PcOnly, Same, Alike,
     WrittenIsSo, Written, Is, Exists
<1>12. ASSUME NEW r \in Requests, DropFlow(r) PROVE WrittenIsSo'
  BY <1>0, <1>12, DropFlowStep DEF Others, Still, PcOnly, Same, Alike, WrittenIsSo, Written,
     Is, Exists
<1>13. ASSUME NEW r \in Requests, FindSync(r) PROVE WrittenIsSo'
  <2>1. Others(r) /\ sched' = sched /\ task'[r].pc \in {"idle", "findSync", "getSchedule"}
    BY <1>13, FindSyncStep, Places DEF Still
  <2> QED
    BY <1>0, <2>1 DEF WrittenIsSo, Written, Is, Exists, Others
<1>14. ASSUME NEW r \in Requests, GetSchedule(r) PROVE WrittenIsSo'
  BY <1>0, <1>14, GetScheduleStep DEF Others, Still, PcOnly, Same, Alike, WrittenIsSo, Written,
     Is, Exists
<1>15. ASSUME NEW r \in Requests, DropSchedule(r) PROVE WrittenIsSo'
  <2>1. /\ Others(r) /\ task'[r].pc = "dropSync"
        /\ \A s \in Syncs : Exists(s)' => Exists(s) /\ sched'[s] = sched[s]
    BY <1>15, DropScheduleStep DEF Exists
  <2>2. \A q \in Requests : task[q].pc \in {"insertSchedule", "setStatus", "trigger", "describe", "update"} => task[q].sync \in Syncs
    BY DEF SyncsFit, SyncFits, Inserted, Creating, Commanding
  <2>3. Written(task[r])'
    BY <2>1 DEF Written
  <2>4. ASSUME NEW q \in Requests \ {r} PROVE Written(task[q])'
    BY <1>0, <2>1, <2>2 DEF WrittenIsSo, Written, Is, Others
  <2> QED
    BY <2>3, <2>4 DEF WrittenIsSo
<1>16. ASSUME NEW r \in Requests, DropSync(r) PROVE WrittenIsSo'
  BY <1>0, <1>16, DropSyncStep DEF Others, Still, PcOnly, Same, Alike, WrittenIsSo, Written,
     Is, Exists
<1>17. ASSUME NEW r \in Requests, DropJobs(r) PROVE WrittenIsSo'
  BY <1>0, <1>17, DropJobsStep DEF Others, Still, PcOnly, Same, Alike, WrittenIsSo, Written,
     Is, Exists
<1>18. ASSUME NEW r \in Requests, DropScheduleRow(r) PROVE WrittenIsSo'
  BY <1>0, <1>18, DropScheduleRowStep, LoopGoes DEF TypeOK, Others, Still, PcOnly, Same, Alike,
     WrittenIsSo, Written, Is, Exists
<1>19. ASSUME NEW r \in Requests, DropConnection(r) PROVE WrittenIsSo'
  BY <1>0, <1>19, DropConnectionStep DEF Idle, Others, Still, PcOnly, Same, Alike, WrittenIsSo,
     Written, Is, Exists
<1>20. ASSUME NEW r \in Requests, DropConfig(r) PROVE WrittenIsSo'
  BY <1>0, <1>20, DropConfigStep DEF Idle, Others, Still, PcOnly, Same, Alike, WrittenIsSo,
     Written, Is, Exists
<1>21. ASSUME NEW r \in Requests, ReadSchedule(r) PROVE WrittenIsSo'
  <2>1. /\ Others(r) /\ sched' = sched
        /\ task'[r].pc \in {"idle", "pause", "unpause", "dropConnection", "dropConfig", "findSync",
                          "writeConfig", "readSchedule"}
    BY <1>21, ReadScheduleStep, Places DEF Still
  <2> QED
    BY <1>0, <2>1 DEF WrittenIsSo, Written, Is, Exists, Others
<1>22. ASSUME NEW r \in Requests, Pause(r) PROVE WrittenIsSo'
  <2>1. /\ Others(r) /\ task[r].op = "pause" /\ task'[r].op = "pause"
              /\ task'[r].sync = task[r].sync
        /\ task'[r].pc \in {"trigger", "setStatus"} /\ task[r].sync \in Syncs
              /\ status[task[r].sync] # "none"
        /\ task'[r].pc = "trigger" => task[r].op = "unpause"
        /\ \A s \in Syncs : Exists(s)' => Exists(s)
        /\ Exists(task[r].sync) => sched'[task[r].sync] = "paused"
        /\ \A s \in Syncs : s # task[r].sync => sched'[s] = sched[s]
    BY <1>22, PauseStep DEF PcOnly, Same, Alike, HandlersFit, OpFits, SyncsFit, SyncFits,
       Inserted, Commanding, Exists
  <2>2. Written(task[r])'
    BY <2>1 DEF Written, Is
  <2>3. ASSUME NEW q \in Requests \ {r},
               task[q].pc \in {"insertSchedule", "setStatus", "trigger", "describe", "update"}
        PROVE  /\ task[q].sync \in Syncs
               /\ task[q].sync = task[r].sync => task[q].pc # "insertSchedule"
    BY <2>1, <2>3 DEF SyncsFit, SyncFits, Creating, Commanding, Inserted
  <2>4. \A q \in Requests : /\ task[q].pc \in {"setStatus", "trigger", "describe", "update"}
                                   => task[q].op \in {"pause", "unpause", "deploy"}
                            /\ task[q].op \notin {"pause", "unpause", "deploy"}
                                  \/ task[q].op = "pause"
    BY <1>0, <2>1 DEF HandlersFit, OpFits
  <2>5. ASSUME NEW q \in Requests \ {r} PROVE Written(task[q])'
    BY <1>0, <2>1, <2>3, <2>4, <2>5 DEF WrittenIsSo, Written, Is, Others
  <2> QED
    BY <2>2, <2>5 DEF WrittenIsSo
<1>23. ASSUME NEW r \in Requests, Unpause(r) PROVE WrittenIsSo'
  <2>1. /\ Others(r) /\ task[r].op = "unpause" /\ task'[r].op = "unpause"
              /\ task'[r].sync = task[r].sync
        /\ task'[r].pc \in {"trigger", "setStatus"} /\ task[r].sync \in Syncs
              /\ status[task[r].sync] # "none"
        /\ task'[r].pc = "trigger" => task[r].op = "unpause"
        /\ \A s \in Syncs : Exists(s)' => Exists(s)
        /\ Exists(task[r].sync) => sched'[task[r].sync] = "running"
        /\ \A s \in Syncs : s # task[r].sync => sched'[s] = sched[s]
    BY <1>23, UnpauseStep DEF PcOnly, Same, Alike, HandlersFit, OpFits, SyncsFit, SyncFits,
       Inserted, Commanding, Exists
  <2>2. Written(task[r])'
    BY <2>1 DEF Written, Is
  <2>3. ASSUME NEW q \in Requests \ {r},
               task[q].pc \in {"insertSchedule", "setStatus", "trigger", "describe", "update"}
        PROVE  /\ task[q].sync \in Syncs
               /\ task[q].sync = task[r].sync => task[q].pc # "insertSchedule"
    BY <2>1, <2>3 DEF SyncsFit, SyncFits, Creating, Commanding, Inserted
  <2>4. \A q \in Requests : /\ task[q].pc \in {"setStatus", "trigger", "describe", "update"}
                                   => task[q].op \in {"pause", "unpause", "deploy"}
                            /\ task[q].op \notin {"pause", "unpause", "deploy"}
                                  \/ task[q].op = "unpause"
    BY <1>0, <2>1 DEF HandlersFit, OpFits
  <2>5. ASSUME NEW q \in Requests \ {r} PROVE Written(task[q])'
    BY <1>0, <2>1, <2>3, <2>4, <2>5 DEF WrittenIsSo, Written, Is, Others
  <2> QED
    BY <2>2, <2>5 DEF WrittenIsSo
<1>24. ASSUME NEW r \in Requests, TriggerAndReadFrequency(r) PROVE WrittenIsSo'
  <2>1. /\ Others(r) /\ sched' = sched /\ task[r].pc = "trigger" /\ task'[r].op = task[r].op
        /\ task'[r].sync = task[r].sync /\ task'[r].pc \in {"describe", "setStatus"}
    BY <1>24, TriggerAndReadFrequencyStep DEF Still, Same, Alike
  <2>2. task[r].op = "unpause"
    BY <2>1 DEF HandlersFit, OpFits
  <2> QED
    BY <1>0, <2>1, <2>2 DEF WrittenIsSo, Written, Is, Exists, Others
<1>25. ASSUME NEW r \in Requests, SetStatus(r) PROVE WrittenIsSo'
  BY <1>0, <1>25, SetStatusStep, LoopGoes DEF TypeOK, Others, Still, PcOnly, Same, Alike,
     WrittenIsSo, Written, Is, Exists
<1>26. ASSUME NEW r \in Requests, Describe(r) PROVE WrittenIsSo'
  BY <1>0, <1>26, DescribeStep, UpdateGoes DEF TypeOK, Others, Still, PcOnly, Same, Alike,
     WrittenIsSo, Written, Is, Exists
<1>27. ASSUME NEW r \in Requests, UpdateSchedule(r) PROVE WrittenIsSo'
  <2>1. /\ Others(r) /\ row' = row /\ status' = status /\ task[r].pc = "update"
              /\ task[r].sync \in Syncs
        /\ sched' = [s \in Syncs |->
                      IF s = task[r].sync THEN (IF Exists(task[r].sync) THEN task[r].seen
                                                             ELSE sched[task[r].sync])
                                                                ELSE sched[s]]
        /\ task[r].op \in {"unpause", "deploy"}
    BY <1>27, UpdateScheduleStep DEF SyncsFit, SyncFits, Commanding, Inserted, HandlersFit,
       OpFits
  <2>2. \A s \in Syncs : sched'[s] = sched[s]
    BY <1>0, <2>1 DEF WrittenIsSo, Written, Is
  <2>3. \/ task[r].op = "unpause" /\ task'[r].op = "unpause" /\ task'[r].sync = task[r].sync
              /\ task'[r].pc = "setStatus"
        \/ task'[r].pc \in {"idle", "dropConnection", "dropConfig", "findSync", "writeConfig", "compare"}
    BY <1>27, UpdateScheduleStep, LoopGoes DEF GoesOn, Same, Alike, TypeOK
  <2>4. task[r].op = "unpause" => (Exists(task[r].sync) => sched[task[r].sync] = "running")
    BY <1>0, <2>1 DEF WrittenIsSo, Written, Is
  <2>5. Written(task[r])'
    BY <2>1, <2>2, <2>3, <2>4 DEF Written, Is, Exists
  <2>6. \A q \in Requests : task[q].pc \in {"insertSchedule", "setStatus", "trigger", "describe", "update"} => task[q].sync \in Syncs
    BY DEF SyncsFit, SyncFits, Inserted, Creating, Commanding
  <2>7. ASSUME NEW q \in Requests \ {r} PROVE Written(task[q])'
    BY <1>0, <2>1, <2>2, <2>6 DEF WrittenIsSo, Written, Is, Exists, Others
  <2> QED
    BY <2>5, <2>7 DEF WrittenIsSo
<1>28. ASSUME NEW r \in Requests, Compare(r) PROVE WrittenIsSo'
  BY <1>0, <1>28, CompareStep, LoopGoes DEF TypeOK, Others, Still, PcOnly, Same, Alike,
     WrittenIsSo, Written, Is, Exists
<1>29. ASSUME NEW r \in Requests, WriteFrequency(r) PROVE WrittenIsSo'
  <2>1. /\ Others(r) /\ sched' = sched /\ task'[r].op = task[r].op
              /\ task'[r].pc = "describe" /\ task[r].pc = "writeFrequency"
    BY <1>29, WriteFrequencyStep DEF PcOnly, Same, Alike
  <2>2. task[r].op = "deploy"
    BY <2>1 DEF HandlersFit, OpFits
  <2> QED
    BY <1>0, <2>1, <2>2 DEF WrittenIsSo, Written, Is, Exists, Others
<1>30. ASSUME NEW r \in Requests, WriteConfig(r) PROVE WrittenIsSo'
  BY <1>0, <1>30, WriteConfigStep DEF Others, Still, PcOnly, Same, Alike, WrittenIsSo, Written,
     Is, Exists
<1>31. ASSUME NEW r \in Requests, NEW preBuilt \in BOOLEAN, NEW auto \in BOOLEAN,
              Reconcile(r, preBuilt, auto)
      PROVE WrittenIsSo'
  BY <1>0, <1>31, ReconcileStep DEF Idle, Others, Still, PcOnly, Same, Alike, WrittenIsSo,
     Written, Is, Exists
<1>32. ASSUME NEW r \in Requests, MarkAllAsStopped(r) PROVE WrittenIsSo'
  BY <1>0, <1>32, MarkAllAsStoppedStep DEF Idle, Others, Still, PcOnly, Same, Alike,
     WrittenIsSo, Written, Is, Exists
<1>33. ASSUME NEW r \in Requests, CallFails(r) PROVE WrittenIsSo'
  <2>1. /\ Others(r) /\ sched' = sched
        /\ task[r].op \notin {"pause", "unpause", "delete"}
    BY <1>33, CallFailsStep DEF Still, CommandsAlone
  <2>2. task'[r].pc \in {"idle", "dropConnection", "dropConfig", "findSync", "writeConfig", "compare"}
    BY <1>33, CallFailsStep, <2>1, LoopGoes DEF GoesOn, TypeOK, HandlersFit, OpFits,
       DeleteLocations, Dropping
  <2> QED
    BY <1>0, <2>1, <2>2 DEF WrittenIsSo, Written, Is, Exists, Others
<1>34. ASSUME NEW r \in Requests, CutShort(r) PROVE WrittenIsSo'
  BY <1>0, <1>34, CutShortStep DEF Idle, Others, Still, PcOnly, Same, Alike, WrittenIsSo,
     Written, Is, Exists
<1>35. ASSUME NEW s \in Syncs, NEW outcome \in {"SUCCESS", "STOPPED"}, JobEnds(s, outcome)
      PROVE WrittenIsSo'
  BY <1>0, <1>35 DEF JobEnds, syncVars, jobVars, temporalVars, scheduleVars, envVars,
     WrittenIsSo, Written, Is, Exists
<1>36. CASE UNCHANGED vars
  BY <1>0, <1>36 DEF vars, syncVars, jobVars, temporalVars, scheduleVars, envVars, WrittenIsSo,
     Written, Is, Exists
<1> QED
  BY <1>1, <1>2, <1>3, <1>4, <1>5, <1>6, <1>7, <1>8, <1>9, <1>10, <1>11, <1>12, <1>13, <1>14,
     <1>15, <1>16, <1>17, <1>18, <1>19, <1>20, <1>21, <1>22, <1>23, <1>24, <1>25, <1>26, <1>27,
     <1>28, <1>29, <1>30, <1>31, <1>32, <1>33, <1>34, <1>35, <1>36, Cases DEF Acts

StatusInv == CoreInv /\ StatusKept

LEMMA StatusInvAlways == Spec => []StatusInv
<1>1. Init => StatusInv
  <2>1. Init => OthersAgree /\ GoneIsDropped /\ WrittenIsSo
    BY DEF Init, OthersAgree, GoneIsDropped, WrittenIsSo, Written, Live, Idle
  <2> QED
    BY <2>1, InitCore DEF StatusInv, StatusKept
<1>2. StatusInv /\ [Next]_vars => StatusInv'
  <2> SUFFICES ASSUME StatusInv, [Next]_vars PROVE StatusInv'
    OBVIOUS
  <2>1. CoreInv'
    BY NextCore DEF StatusInv
  <2>2. ASSUME CommandsAlone' PROVE OthersAgree' /\ GoneIsDropped' /\ WrittenIsSo'
    BY <2>2, NextOthersAgree, NextGoneIsDropped, NextWrittenIsSo DEF StatusInv, CoreInv
  <2> QED
    BY <2>1, <2>2 DEF StatusInv, StatusKept
<1> QED
  BY <1>1, <1>2, PTL DEF Spec

LEMMA ReportFields ==
    ASSUME NEW s, NEW reported, NEW next
    PROVE  LET report == [sync |-> s, status |-> reported, next |-> next]
           IN  report.sync = s /\ report.status = reported /\ report.next = next
  OBVIOUS

LEMMA ReportsAgree ==
    ASSUME NEW s \in Syncs, Scheduled(s), Agrees(s), NEW report \in Reports(owner[s]),
           report.sync = s
    PROVE  /\ report.status = "PAUSED" <=> (sched[s] = "paused" /\ job[s] # "RUNNING")
           /\ report.status = "RUNNING" <=> job[s] = "RUNNING"
           /\ report.next => Exists(s)
<1>1. report = Report(s)
  BY DEF Reports, Report
<1>2. /\ report.status = ClassifySyncStatus(LatestJob(s), status[s])
      /\ report.next => sched[s] = "running"
  <2>1. report.status = ClassifySyncStatus(LatestJob(s), status[s])
    BY <1>1 DEF Report
  <2> DEFINE reported == ClassifySyncStatus(LatestJob(s), status[s])
             next == reported # "PAUSED" /\ sched[s] = "running"
  <2>2. report = [sync |-> s, status |-> reported, next |-> next]
    BY <1>1, Zenon DEF Report
  <2>3. report.next = next
    <3> HIDE DEF reported, next
    <3> QED
      BY <2>2, ReportFields
  <2> QED
    BY <2>1, <2>3
<1>3. LatestJob(s) = "RUNNING" <=> job[s] = "RUNNING"
  BY DEF LatestJob
<1>4. /\ report.status = "PAUSED" <=> (status[s] = "PAUSED" /\ LatestJob(s) # "RUNNING")
      /\ report.status = "RUNNING" <=> LatestJob(s) = "RUNNING"
  BY <1>2 DEF ClassifySyncStatus, Scheduled
<1> QED
  BY <1>2, <1>3, <1>4 DEF Agrees, Exists

\* The schedule row says what Temporal does, and so does the report of getSyncStatus, of
\* every live sync that no handler is at, after any requests at all that met none that
\* StatusAgrees names, and failed in none of the awaits that it names.
THEOREM RowsTellTheSchedule == Spec => []StatusAgrees
<1>1. StatusInv => StatusAgrees
  <2> SUFFICES ASSUME StatusInv, CommandsAlone,
                      NEW s \in Syncs, Live(s), Scheduled(s), Untouched(s)
               PROVE  /\ Agrees(s)
                      /\ \A report \in Reports(owner[s]) : report.sync = s =>
                            /\ report.status = "PAUSED" <=> (sched[s] = "paused"
                                  /\ job[s] # "RUNNING")
                            /\ report.status = "RUNNING" <=> job[s] = "RUNNING"
                            /\ report.next => Exists(s)
    BY DEF StatusAgrees, CommandsAlone, CommandOverlaps, Agrees
  <2>1. \A r \in Requests : ~ Moving(r, s)
    BY DEF Untouched, Moving, On
  <2>2. Agrees(s)
    BY <2>1 DEF StatusInv, StatusKept, OthersAgree
  <2> QED
    BY <2>2, ReportsAgree
<1> QED
  BY <1>1, StatusInvAlways, PTL

(***************************************************************************)
(* What Temporal has of a deploy.                                          *)
(***************************************************************************)

LEMMA DeploysApart ==
    ASSUME MeetingsKnown, TemporalAlone, NEW q \in Requests, NEW r \in Requests
    PROVE  ~ (task[q].op = "deploy" /\ q # r /\ task[r].op \in {"deploy", "unpause"})
  BY ZenonT(60) DEF MeetingsKnown, Harmful, TemporalAlone

LEMMA DeploysAloneBefore ==
    ASSUME TypeOK, HandlersFit, SyncsFit, RowsFit, TemporalAlone', Next \/ UNCHANGED vars
    PROVE  TemporalAlone
  BY Monotone, FailedGrows DEF TemporalAlone

LEMMA NextIntervalsAgree ==
    ASSUME TypeOK, HandlersFit, SyncsFit, RowsFit, MeetingsKnown, TemporalKept,
           TemporalAlone', Next \/ UNCHANGED vars
    PROVE  IntervalsAgree'
<1>0. /\ TemporalAlone /\ IntervalsAgree /\ FrequenciesCarried
      /\ \A q, r \in Requests :
            ~ (task[q].op = "deploy" /\ q # r /\ task[r].op \in {"deploy", "unpause"})
  BY DeploysAloneBefore, DeploysApart DEF TemporalKept
<1>1. ASSUME NEW r \in Requests, Arrivals(r) PROVE IntervalsAgree'
  BY <1>0, <1>1, Arrive DEF Others, Still, IntervalsAgree, Telling, On, Scheduled, Exists
<1>2. ASSUME NEW r \in Requests, Look(r) PROVE IntervalsAgree'
  BY <1>0, <1>2, LookStep DEF LoopsOver, Idle, Others, Still, PcOnly, Same, Alike,
     IntervalsAgree, Telling, On, Scheduled, Exists
<1>3. ASSUME NEW r \in Requests, FindExisting(r) PROVE IntervalsAgree'
  BY <1>0, <1>3, FindExistingStep DEF Idle, Others, Still, PcOnly, Same, Alike, IntervalsAgree,
     Telling, On, Scheduled, Exists
<1>4. ASSUME NEW r \in Requests, NEW i \in Syncs, InsertSync(r, i) PROVE IntervalsAgree'
  BY <1>0, <1>4, InsertSyncStep DEF Others, Still, PcOnly, Same, Alike, IntervalsAgree,
     Telling, On, Scheduled, Exists
<1>5. ASSUME NEW r \in Requests, InsertJob(r) PROVE IntervalsAgree'
  BY <1>0, <1>5, InsertJobStep DEF Others, Still, PcOnly, Same, Alike, IntervalsAgree, Telling,
     On, Scheduled, Exists
<1>6. ASSUME NEW r \in Requests, InsertJobFails(r) PROVE IntervalsAgree'
  BY <1>0, <1>6, InsertJobFailsStep DEF Others, Still, PcOnly, Same, Alike, IntervalsAgree,
     Telling, On, Scheduled, Exists
<1>7. ASSUME NEW r \in Requests, StartWorkflow(r) PROVE IntervalsAgree'
  BY <1>0, <1>7, StartWorkflowStep DEF Others, Still, PcOnly, Same, Alike, IntervalsAgree,
     Telling, On, Scheduled, Exists
<1>8. ASSUME NEW r \in Requests, CreateSchedule(r) PROVE IntervalsAgree'
  <2>1. /\ Others(r) /\ task[r].pc = "createSchedule" /\ frequency' = frequency
              /\ status' = status
        /\ (\A s \in Syncs : s # task[r].sync => sched'[s] = sched[s] /\ every'[s] = every[s])
        /\ status[task[r].sync] = "none"
    BY <1>8, CreateScheduleStep DEF SyncsFit, SyncFits, Creating
  <2>2. \A q \in Requests, s \in Syncs : Telling(q, s) => Telling(q, s)'
    BY <2>1 DEF Telling, On, Others
  <2>3. \A s \in Syncs : (Scheduled(s)' /\ Exists(s)')
           => Scheduled(s) /\ Exists(s) /\ every'[s] = every[s]
    BY <2>1 DEF Scheduled, Exists
  <2> QED
    BY <1>0, <2>1, <2>2, <2>3 DEF IntervalsAgree
<1>9. ASSUME NEW r \in Requests, PauseSchedule(r) PROVE IntervalsAgree'
  <2>1. /\ Others(r) /\ task[r].pc = "pauseSchedule" /\ every' = every
              /\ frequency' = frequency /\ status' = status
        /\ (\A s \in Syncs : s # task[r].sync
              => sched'[s] = sched[s]) /\ status[task[r].sync] = "none"
    BY <1>9, PauseScheduleStep DEF SyncsFit, SyncFits, Creating
  <2>2. \A q \in Requests, s \in Syncs : Telling(q, s) => Telling(q, s)'
    BY <2>1 DEF Telling, On, Others
  <2>3. \A s \in Syncs : (Scheduled(s)' /\ Exists(s)') => Scheduled(s) /\ Exists(s)
    BY <2>1 DEF Scheduled, Exists
  <2> QED
    BY <1>0, <2>1, <2>2, <2>3 DEF IntervalsAgree
<1>10. ASSUME NEW r \in Requests, InsertSchedule(r) PROVE IntervalsAgree'
  <2>1. /\ Others(r) /\ every' = every /\ sched' = sched /\ task[r].pc = "insertSchedule"
        /\ \A s \in Syncs : s # task[r].sync
              => status'[s] = status[s] /\ frequency'[s] = frequency[s]
        /\ task[r].sync \in Syncs /\ frequency'[task[r].sync] = task[r].freq
    BY <1>10, InsertScheduleStep DEF SyncsFit, SyncFits, Creating, Inserted
  <2>2. PICK i \in Syncs : i = task[r].sync
    BY <2>1
  <2>3. \A q \in Requests, s \in Syncs : Telling(q, s) => Telling(q, s)'
    BY <2>1 DEF Telling, On, Others
  <2>4. Exists(i) => every[i] = task[r].freq
    BY <1>0, <2>1, <2>2 DEF FrequenciesCarried, Carried
  <2>5. \A s \in Syncs : (Exists(s)' <=> Exists(s)) /\ (s # i
           => (Scheduled(s)' <=> Scheduled(s)))
    BY <2>1, <2>2 DEF Scheduled, Exists
  <2> QED
    BY <1>0, <2>1, <2>2, <2>3, <2>4, <2>5 DEF IntervalsAgree
<1>11. ASSUME NEW r \in Requests, StartFails(r) PROVE IntervalsAgree'
  <2>1. Others(r) /\ Still /\ task[r].pc \in Creating
    BY <1>11, StartFailsStep
  <2>2. \A q \in Requests, s \in Syncs : Telling(q, s) => Telling(q, s)'
    BY <2>1 DEF Telling, On, Others, Creating
  <2>3. \A s \in Syncs : (Scheduled(s)' <=> Scheduled(s)) /\ (Exists(s)' <=> Exists(s))
    BY <2>1 DEF Still, Scheduled, Exists
  <2>4. every' = every /\ frequency' = frequency
    BY <2>1 DEF Still
  <2> QED
    BY <1>0, <2>2, <2>3, <2>4 DEF IntervalsAgree
<1>12. ASSUME NEW r \in Requests, DropFlow(r) PROVE IntervalsAgree'
  BY <1>0, <1>12, DropFlowStep DEF Others, Still, PcOnly, Same, Alike, IntervalsAgree, Telling,
     On, Scheduled, Exists
<1>13. ASSUME NEW r \in Requests, FindSync(r) PROVE IntervalsAgree'
  BY <1>0, <1>13, FindSyncStep DEF Idle, Others, Still, PcOnly, Same, Alike, IntervalsAgree,
     Telling, On, Scheduled, Exists
<1>14. ASSUME NEW r \in Requests, GetSchedule(r) PROVE IntervalsAgree'
  BY <1>0, <1>14, GetScheduleStep DEF Others, Still, PcOnly, Same, Alike, IntervalsAgree,
     Telling, On, Scheduled, Exists
<1>15. ASSUME NEW r \in Requests, DropSchedule(r) PROVE IntervalsAgree'
  <2>1. /\ Others(r) /\ task[r].pc = "dropSchedule" /\ every' = every
              /\ frequency' = frequency /\ status' = status
    BY <1>15, DropScheduleStep
  <2>2. \A q \in Requests, s \in Syncs : Telling(q, s) => Telling(q, s)'
    BY <2>1 DEF Telling, On, Others
  <2>3. \A s \in Syncs : (Scheduled(s)' /\ Exists(s)') => Scheduled(s) /\ Exists(s)
    BY <1>15, DropScheduleStep, <2>1 DEF Scheduled, Exists
  <2> QED
    BY <1>0, <2>1, <2>2, <2>3 DEF IntervalsAgree
<1>16. ASSUME NEW r \in Requests, DropSync(r) PROVE IntervalsAgree'
  BY <1>0, <1>16, DropSyncStep DEF Others, Still, PcOnly, Same, Alike, IntervalsAgree, Telling,
     On, Scheduled, Exists
<1>17. ASSUME NEW r \in Requests, DropJobs(r) PROVE IntervalsAgree'
  BY <1>0, <1>17, DropJobsStep DEF Others, Still, PcOnly, Same, Alike, IntervalsAgree, Telling,
     On, Scheduled, Exists
<1>18. ASSUME NEW r \in Requests, DropScheduleRow(r) PROVE IntervalsAgree'
  <2>1. /\ Others(r) /\ task[r].pc = "dropScheduleRow" /\ every' = every
              /\ frequency' = frequency /\ sched' = sched
    BY <1>18, DropScheduleRowStep
  <2>2. \A q \in Requests, s \in Syncs : Telling(q, s) => Telling(q, s)'
    BY <2>1 DEF Telling, On, Others
  <2>3. \A s \in Syncs : (Scheduled(s)' /\ Exists(s)') => Scheduled(s) /\ Exists(s)
    BY <1>18, DropScheduleRowStep, <2>1 DEF Scheduled, Exists
  <2> QED
    BY <1>0, <2>1, <2>2, <2>3 DEF IntervalsAgree
<1>19. ASSUME NEW r \in Requests, DropConnection(r) PROVE IntervalsAgree'
  BY <1>0, <1>19, DropConnectionStep DEF Idle, Others, Still, PcOnly, Same, Alike,
     IntervalsAgree, Telling, On, Scheduled, Exists
<1>20. ASSUME NEW r \in Requests, DropConfig(r) PROVE IntervalsAgree'
  BY <1>0, <1>20, DropConfigStep DEF Idle, Others, Still, PcOnly, Same, Alike, IntervalsAgree,
     Telling, On, Scheduled, Exists
<1>21. ASSUME NEW r \in Requests, ReadSchedule(r) PROVE IntervalsAgree'
  BY <1>0, <1>21, ReadScheduleStep, LoopGoes DEF TypeOK, Others, Still, PcOnly, Same, Alike,
     IntervalsAgree, Telling, On, Scheduled, Exists
<1>22. ASSUME NEW r \in Requests, Pause(r) PROVE IntervalsAgree'
  <2>1. /\ Others(r) /\ task[r].pc = "pause" /\ every' = every /\ frequency' = frequency
              /\ status' = status
    BY <1>22, PauseStep
  <2>2. \A q \in Requests, s \in Syncs : Telling(q, s) => Telling(q, s)'
    BY <2>1 DEF Telling, On, Others
  <2>3. \A s \in Syncs : (Scheduled(s)' /\ Exists(s)') => Scheduled(s) /\ Exists(s)
    BY <1>22, PauseStep, <2>1, Places DEF Scheduled
  <2> QED
    BY <1>0, <2>1, <2>2, <2>3 DEF IntervalsAgree
<1>23. ASSUME NEW r \in Requests, Unpause(r) PROVE IntervalsAgree'
  <2>1. /\ Others(r) /\ task[r].pc = "unpause" /\ every' = every /\ frequency' = frequency
              /\ status' = status
    BY <1>23, UnpauseStep
  <2>2. \A q \in Requests, s \in Syncs : Telling(q, s) => Telling(q, s)'
    BY <2>1 DEF Telling, On, Others
  <2>3. \A s \in Syncs : (Scheduled(s)' /\ Exists(s)') => Scheduled(s) /\ Exists(s)
    BY <1>23, UnpauseStep, <2>1, Places DEF Scheduled
  <2> QED
    BY <1>0, <2>1, <2>2, <2>3 DEF IntervalsAgree
<1>24. ASSUME NEW r \in Requests, TriggerAndReadFrequency(r) PROVE IntervalsAgree'
  BY <1>0, <1>24, TriggerAndReadFrequencyStep DEF Others, Still, PcOnly, Same, Alike,
     IntervalsAgree, Telling, On, Scheduled, Exists
<1>25. ASSUME NEW r \in Requests, SetStatus(r) PROVE IntervalsAgree'
  <2>1. /\ Others(r) /\ task[r].pc = "setStatus" /\ every' = every /\ frequency' = frequency
              /\ sched' = sched
    BY <1>25, SetStatusStep
  <2>2. \A q \in Requests, s \in Syncs : Telling(q, s) => Telling(q, s)'
    BY <2>1 DEF Telling, On, Others
  <2>3. \A s \in Syncs : (Scheduled(s)' /\ Exists(s)') => Scheduled(s) /\ Exists(s)
    BY <1>25, SetStatusStep, <2>1 DEF Scheduled, Exists
  <2> QED
    BY <1>0, <2>1, <2>2, <2>3 DEF IntervalsAgree
<1>26. ASSUME NEW r \in Requests, Describe(r) PROVE IntervalsAgree'
  <2>1. /\ Others(r) /\ Still /\ task[r].pc = "describe"
        /\ \/ task'[r].op = task[r].op /\ task'[r].sync = task[r].sync /\ task'[r].pc = "update"
           \/ ~ Exists(task[r].sync)
    BY <1>26, DescribeStep DEF Same, Alike
  <2>2. \A q \in Requests, s \in Syncs : Telling(q, s) => Telling(q, s)' \/ ~ Exists(s)
    BY <2>1 DEF Telling, On, Others
  <2>3. \A s \in Syncs : (Scheduled(s)' <=> Scheduled(s)) /\ (Exists(s)' <=> Exists(s))
    BY <2>1 DEF Still, Scheduled, Exists
  <2>4. every' = every /\ frequency' = frequency
    BY <2>1 DEF Still
  <2> QED
    BY <1>0, <2>2, <2>3, <2>4 DEF IntervalsAgree
<1>27. ASSUME NEW r \in Requests, UpdateSchedule(r) PROVE IntervalsAgree'
  <2>1. /\ Others(r) /\ status' = status /\ frequency' = frequency /\ task[r].pc = "update"
              /\ task[r].sync \in Syncs
        /\ \A s \in Syncs : s # task[r].sync => every'[s] = every[s]
        /\ every'[task[r].sync] = IF Exists(task[r].sync) THEN task[r].freq
              ELSE every[task[r].sync]
    BY <1>27, UpdateScheduleStep DEF SyncsFit, SyncFits, Commanding, Inserted
  <2>2. PICK i \in Syncs : i = task[r].sync
    BY <2>1
  <2>3. \A q \in Requests, s \in Syncs : Telling(q, s) => Telling(q, s)' \/ s = i
    BY <2>1, <2>2 DEF Telling, On, Others
  <2>4. \A s \in Syncs : (Scheduled(s)' <=> Scheduled(s)) /\ (Exists(s)' <=> Exists(s))
    BY <1>27, Places, <2>1 DEF Scheduled
  <2>5. (Scheduled(i) /\ Exists(i)) => every'[i] = frequency[i]
    BY <1>0, <2>1, <2>2 DEF FrequenciesCarried, Carried
  <2> QED
    BY <1>0, <2>1, <2>2, <2>3, <2>4, <2>5 DEF IntervalsAgree
<1>28. ASSUME NEW r \in Requests, Compare(r) PROVE IntervalsAgree'
  BY <1>0, <1>28, CompareStep, LoopGoes DEF TypeOK, Others, Still, PcOnly, Same, Alike,
     IntervalsAgree, Telling, On, Scheduled, Exists
<1>29. ASSUME NEW r \in Requests, WriteFrequency(r) PROVE IntervalsAgree'
  <2>1. /\ Others(r) /\ status' = status /\ sched' = sched /\ every' = every
              /\ task[r].pc = "writeFrequency"
        /\ \A s \in Syncs : s # task[r].sync => frequency'[s] = frequency[s]
        /\ task[r].op = "deploy" /\ task'[r].op = "deploy" /\ task'[r].pc = "describe"
        /\ task'[r].sync = task[r].sync /\ task[r].sync \in Syncs
    BY <1>29, WriteFrequencyStep DEF SyncsFit, SyncFits, Commanding, Inserted, HandlersFit,
       OpFits, PcOnly, Same, Alike
  <2>2. PICK i \in Syncs : i = task[r].sync
    BY <2>1
  <2>3. \A q \in Requests, s \in Syncs : Telling(q, s) => Telling(q, s)'
    BY <2>1 DEF Telling, On, Others
  <2>4. Telling(r, i)'
    BY <2>1, <2>2 DEF Telling, On
  <2>5. \A s \in Syncs : (Scheduled(s)' <=> Scheduled(s)) /\ (Exists(s)' <=> Exists(s))
    BY <2>1 DEF Scheduled, Exists
  <2> QED
    BY <1>0, <2>1, <2>2, <2>3, <2>4, <2>5 DEF IntervalsAgree
<1>30. ASSUME NEW r \in Requests, WriteConfig(r) PROVE IntervalsAgree'
  BY <1>0, <1>30, WriteConfigStep DEF Others, Still, PcOnly, Same, Alike, IntervalsAgree,
     Telling, On, Scheduled, Exists
<1>31. ASSUME NEW r \in Requests, NEW preBuilt \in BOOLEAN, NEW auto \in BOOLEAN,
              Reconcile(r, preBuilt, auto)
      PROVE IntervalsAgree'
  BY <1>0, <1>31, ReconcileStep DEF Idle, Others, Still, PcOnly, Same, Alike, IntervalsAgree,
     Telling, On, Scheduled, Exists
<1>32. ASSUME NEW r \in Requests, MarkAllAsStopped(r) PROVE IntervalsAgree'
  <2>1. /\ Others(r) /\ task[r].pc = "markStopped" /\ every' = every
              /\ frequency' = frequency /\ sched' = sched
    BY <1>32, MarkAllAsStoppedStep
  <2>2. \A q \in Requests, s \in Syncs : Telling(q, s) => Telling(q, s)'
    BY <2>1 DEF Telling, On, Others
  <2>3. \A s \in Syncs : (Scheduled(s)' /\ Exists(s)') => Scheduled(s) /\ Exists(s)
    BY <1>32, MarkAllAsStoppedStep, <2>1 DEF Scheduled, Exists
  <2> QED
    BY <1>0, <2>1, <2>2, <2>3 DEF IntervalsAgree
<1>33. ASSUME NEW r \in Requests, CallFails(r) PROVE IntervalsAgree'
  <2>1. /\ Others(r) /\ Still /\ task[r].op # "deploy"
    BY <1>33, CallFailsStep DEF TemporalAlone
  <2>2. \A q \in Requests, s \in Syncs : Telling(q, s) => Telling(q, s)'
    BY <2>1 DEF Telling, On, Others
  <2>3. \A s \in Syncs : (Scheduled(s)' <=> Scheduled(s)) /\ (Exists(s)' <=> Exists(s))
    BY <2>1 DEF Still, Scheduled, Exists
  <2>4. every' = every /\ frequency' = frequency
    BY <2>1 DEF Still
  <2> QED
    BY <1>0, <2>2, <2>3, <2>4 DEF IntervalsAgree
<1>34. ASSUME NEW r \in Requests, CutShort(r) PROVE IntervalsAgree'
  <2>1. /\ Others(r) /\ Still /\ task[r].op # "deploy"
    BY <1>34, CutShortStep DEF TemporalAlone
  <2>2. \A q \in Requests, s \in Syncs : Telling(q, s) => Telling(q, s)'
    BY <2>1 DEF Telling, On, Others
  <2>3. \A s \in Syncs : (Scheduled(s)' <=> Scheduled(s)) /\ (Exists(s)' <=> Exists(s))
    BY <2>1 DEF Still, Scheduled, Exists
  <2>4. every' = every /\ frequency' = frequency
    BY <2>1 DEF Still
  <2> QED
    BY <1>0, <2>2, <2>3, <2>4 DEF IntervalsAgree
<1>35. ASSUME NEW s \in Syncs, NEW outcome \in {"SUCCESS", "STOPPED"}, JobEnds(s, outcome)
      PROVE IntervalsAgree'
  BY <1>0, <1>35 DEF JobEnds, syncVars, jobVars, temporalVars, scheduleVars, envVars,
     IntervalsAgree, Telling, On, Scheduled, Exists
<1>36. CASE UNCHANGED vars
  BY <1>0, <1>36 DEF vars, syncVars, jobVars, temporalVars, scheduleVars, envVars,
     IntervalsAgree, Telling, On, Scheduled, Exists
<1> QED
  BY <1>1, <1>2, <1>3, <1>4, <1>5, <1>6, <1>7, <1>8, <1>9, <1>10, <1>11, <1>12, <1>13, <1>14,
     <1>15, <1>16, <1>17, <1>18, <1>19, <1>20, <1>21, <1>22, <1>23, <1>24, <1>25, <1>26, <1>27,
     <1>28, <1>29, <1>30, <1>31, <1>32, <1>33, <1>34, <1>35, <1>36, Cases DEF Acts

LEMMA NextFrequenciesCarried ==
    ASSUME TypeOK, HandlersFit, SyncsFit, RowsFit, MeetingsKnown, TemporalKept,
           TemporalAlone', Next \/ UNCHANGED vars
    PROVE  FrequenciesCarried'
<1>0. /\ TemporalAlone /\ IntervalsAgree /\ FrequenciesCarried
      /\ \A q, r \in Requests :
            ~ (task[q].op = "deploy" /\ q # r /\ task[r].op \in {"deploy", "unpause"})
  BY DeploysAloneBefore, DeploysApart DEF TemporalKept
<1>1. ASSUME NEW r \in Requests, Arrivals(r) PROVE FrequenciesCarried'
  BY <1>0, <1>1, Arrive DEF Others, Still, FrequenciesCarried, Carried, Scheduled, Exists
<1>2. ASSUME NEW r \in Requests, Look(r) PROVE FrequenciesCarried'
  BY <1>0, <1>2, LookStep DEF LoopsOver, Idle, Others, Still, PcOnly, Same, Alike,
     FrequenciesCarried, Carried, Scheduled, Exists
<1>3. ASSUME NEW r \in Requests, FindExisting(r) PROVE FrequenciesCarried'
  BY <1>0, <1>3, FindExistingStep DEF Idle, Others, Still, PcOnly, Same, Alike,
     FrequenciesCarried, Carried, Scheduled, Exists
<1>4. ASSUME NEW r \in Requests, NEW i \in Syncs, InsertSync(r, i) PROVE FrequenciesCarried'
  BY <1>0, <1>4, InsertSyncStep DEF Others, Still, PcOnly, Same, Alike, FrequenciesCarried,
     Carried, Scheduled, Exists
<1>5. ASSUME NEW r \in Requests, InsertJob(r) PROVE FrequenciesCarried'
  BY <1>0, <1>5, InsertJobStep DEF Others, Still, PcOnly, Same, Alike, FrequenciesCarried,
     Carried, Scheduled, Exists
<1>6. ASSUME NEW r \in Requests, InsertJobFails(r) PROVE FrequenciesCarried'
  BY <1>0, <1>6, InsertJobFailsStep DEF Others, Still, PcOnly, Same, Alike, FrequenciesCarried,
     Carried, Scheduled, Exists
<1>7. ASSUME NEW r \in Requests, StartWorkflow(r) PROVE FrequenciesCarried'
  BY <1>0, <1>7, StartWorkflowStep DEF Others, Still, PcOnly, Same, Alike, FrequenciesCarried,
     Carried, Scheduled, Exists
<1>8. ASSUME NEW r \in Requests, CreateSchedule(r) PROVE FrequenciesCarried'
  <2>1. /\ Others(r) /\ frequency' = frequency /\ status' = status /\ task[r].sync \in Syncs
        /\ \A s \in Syncs : s # task[r].sync => sched'[s] = sched[s] /\ every'[s] = every[s]
        /\ every'[task[r].sync] = task[r].freq /\ task'[r].freq = task[r].freq
              /\ task'[r].sync = task[r].sync
        /\ task'[r].pc \in {"pauseSchedule", "insertSchedule"} /\ task[r].pc \in Creating
    BY <1>8, CreateScheduleStep DEF PcOnly, SyncsFit, SyncFits, Creating, Inserted
  <2>2. Carried(task[r])'
    BY <2>1 DEF Carried
  <2>3. ASSUME NEW q \in Requests \ {r}, task[q].pc \in {"pauseSchedule", "insertSchedule"}
        PROVE  task[q].sync \in Syncs /\ task[q].sync # task[r].sync
    BY <2>1, <2>3 DEF RowsFit, SyncsFit, SyncFits, Creating, Inserted
  <2>4. ASSUME NEW q \in Requests \ {r} PROVE Carried(task[q])'
    BY <1>0, <2>1, <2>3, <2>4 DEF FrequenciesCarried, Carried, Others, Scheduled, Exists
  <2> QED
    BY <2>2, <2>4 DEF FrequenciesCarried
<1>9. ASSUME NEW r \in Requests, PauseSchedule(r) PROVE FrequenciesCarried'
  <2>1. /\ Others(r) /\ frequency' = frequency /\ status' = status /\ every' = every
              /\ task[r].sync \in Syncs
        /\ \A s \in Syncs : s # task[r].sync => sched'[s] = sched[s]
        /\ task'[r].freq = task[r].freq /\ task'[r].sync = task[r].sync
        /\ task'[r].pc = "insertSchedule" /\ task[r].pc = "pauseSchedule"
    BY <1>9, PauseScheduleStep DEF PcOnly, SyncsFit, SyncFits, Creating, Inserted
  <2>2. ASSUME NEW q \in Requests \ {r}, task[q].pc \in {"pauseSchedule", "insertSchedule"}
        PROVE  task[q].sync \in Syncs /\ task[q].sync # task[r].sync
    BY <2>1, <2>2 DEF RowsFit, SyncsFit, SyncFits, Creating, Inserted
  <2>3. ASSUME NEW q \in Requests \ {r} PROVE Carried(task[q])'
    BY <1>0, <2>1, <2>2, <2>3 DEF FrequenciesCarried, Carried, Others, Scheduled, Exists
  <2>4. Carried(task[r])'
    BY <1>0, <2>1 DEF FrequenciesCarried, Carried, Exists
  <2> QED
    BY <2>3, <2>4 DEF FrequenciesCarried
<1>10. ASSUME NEW r \in Requests, InsertSchedule(r) PROVE FrequenciesCarried'
  <2>1. /\ Others(r) /\ sched' = sched /\ every' = every /\ task[r].sync \in Syncs
              /\ status[task[r].sync] = "none"
        /\ \A s \in Syncs : s # task[r].sync
              => status'[s] = status[s] /\ frequency'[s] = frequency[s]
    BY <1>10, InsertScheduleStep DEF SyncsFit, SyncFits, Creating, Inserted
  <2>2. task'[r].pc \notin {"pauseSchedule", "insertSchedule", "describe", "update"}
    BY <1>10, InsertScheduleStep DEF LoopsOver, Idle
  <2>3. Carried(task[r])'
    BY <2>2 DEF Carried
  <2>4. ASSUME NEW q \in Requests \ {r}, task[q].pc \in {"describe", "update"}
        PROVE  task[q].sync \in Syncs /\ task[q].sync # task[r].sync
    BY <2>1, <2>4 DEF SyncsFit, SyncFits, Commanding, Inserted
  <2>5. ASSUME NEW q \in Requests \ {r} PROVE Carried(task[q])'
    BY <1>0, <2>1, <2>4, <2>5 DEF FrequenciesCarried, Carried, Others, Scheduled, Exists
  <2> QED
    BY <2>3, <2>5 DEF FrequenciesCarried
<1>11. ASSUME NEW r \in Requests, StartFails(r) PROVE FrequenciesCarried'
  BY <1>0, <1>11, StartFailsStep DEF LoopsOver, Idle, Others, Still, PcOnly, Same, Alike,
     FrequenciesCarried, Carried, Scheduled, Exists
<1>12. ASSUME NEW r \in Requests, DropFlow(r) PROVE FrequenciesCarried'
  BY <1>0, <1>12, DropFlowStep DEF Others, Still, PcOnly, Same, Alike, FrequenciesCarried,
     Carried, Scheduled, Exists
<1>13. ASSUME NEW r \in Requests, FindSync(r) PROVE FrequenciesCarried'
  <2>1. /\ Others(r) /\ Still
        /\ task'[r].pc \notin {"pauseSchedule", "insertSchedule", "describe", "update"}
    BY <1>13, FindSyncStep, Places
  <2>2. Carried(task[r])'
    BY <2>1 DEF Carried
  <2>3. ASSUME NEW q \in Requests \ {r} PROVE Carried(task[q])'
    BY <1>0, <2>1 DEF FrequenciesCarried, Carried, Others, Still, Scheduled, Exists
  <2> QED
    BY <2>2, <2>3 DEF FrequenciesCarried
<1>14. ASSUME NEW r \in Requests, GetSchedule(r) PROVE FrequenciesCarried'
  BY <1>0, <1>14, GetScheduleStep DEF Others, Still, PcOnly, Same, Alike, FrequenciesCarried,
     Carried, Scheduled, Exists
<1>15. ASSUME NEW r \in Requests, DropSchedule(r) PROVE FrequenciesCarried'
  <2>1. /\ Others(r) /\ every' = every /\ frequency' = frequency /\ status' = status
        /\ \A s \in Syncs : Exists(s)' => Exists(s)
        /\ task'[r].pc \notin {"pauseSchedule", "insertSchedule", "describe", "update"}
    BY <1>15, DropScheduleStep DEF Exists
  <2>2. Carried(task[r])'
    BY <2>1 DEF Carried
  <2>3. \A q \in Requests : task[q].pc \in {"pauseSchedule", "insertSchedule"}
           => task[q].sync \in Syncs
    BY DEF SyncsFit, SyncFits, Creating, Inserted
  <2>4. ASSUME NEW q \in Requests \ {r} PROVE Carried(task[q])'
    BY <1>0, <2>1, <2>3 DEF FrequenciesCarried, Carried, Others, Scheduled
  <2> QED
    BY <2>2, <2>4 DEF FrequenciesCarried
<1>16. ASSUME NEW r \in Requests, DropSync(r) PROVE FrequenciesCarried'
  BY <1>0, <1>16, DropSyncStep DEF Others, Still, PcOnly, Same, Alike, FrequenciesCarried,
     Carried, Scheduled, Exists
<1>17. ASSUME NEW r \in Requests, DropJobs(r) PROVE FrequenciesCarried'
  BY <1>0, <1>17, DropJobsStep DEF Others, Still, PcOnly, Same, Alike, FrequenciesCarried,
     Carried, Scheduled, Exists
<1>18. ASSUME NEW r \in Requests, DropScheduleRow(r) PROVE FrequenciesCarried'
  <2>1. /\ Others(r) /\ every' = every /\ frequency' = frequency /\ sched' = sched
        /\ \A s \in Syncs : Scheduled(s)' => Scheduled(s)
    BY <1>18, DropScheduleRowStep DEF Scheduled
  <2>2. task'[r].pc \notin {"pauseSchedule", "insertSchedule", "describe", "update"}
    BY <1>18, DropScheduleRowStep, LoopGoes DEF TypeOK, Scheduled
  <2>3. Carried(task[r])'
    BY <2>2 DEF Carried
  <2>4. \A q \in Requests : task[q].pc \in {"describe", "update"} => task[q].sync \in Syncs
    BY DEF SyncsFit, SyncFits, Commanding, Inserted
  <2>5. ASSUME NEW q \in Requests \ {r} PROVE Carried(task[q])'
    BY <1>0, <2>1, <2>4 DEF FrequenciesCarried, Carried, Others, Exists
  <2> QED
    BY <2>3, <2>5 DEF FrequenciesCarried
<1>19. ASSUME NEW r \in Requests, DropConnection(r) PROVE FrequenciesCarried'
  BY <1>0, <1>19, DropConnectionStep DEF Idle, Others, Still, PcOnly, Same, Alike,
     FrequenciesCarried, Carried, Scheduled, Exists
<1>20. ASSUME NEW r \in Requests, DropConfig(r) PROVE FrequenciesCarried'
  BY <1>0, <1>20, DropConfigStep DEF Idle, Others, Still, PcOnly, Same, Alike,
     FrequenciesCarried, Carried, Scheduled, Exists
<1>21. ASSUME NEW r \in Requests, ReadSchedule(r) PROVE FrequenciesCarried'
  <2>1. /\ Others(r) /\ Still
        /\ task'[r].pc \notin {"pauseSchedule", "insertSchedule", "describe", "update"}
    BY <1>21, ReadScheduleStep, Places
  <2>2. Carried(task[r])'
    BY <2>1 DEF Carried
  <2>3. ASSUME NEW q \in Requests \ {r} PROVE Carried(task[q])'
    BY <1>0, <2>1 DEF FrequenciesCarried, Carried, Others, Still, Scheduled, Exists
  <2> QED
    BY <2>2, <2>3 DEF FrequenciesCarried
<1>22. ASSUME NEW r \in Requests, Pause(r) PROVE FrequenciesCarried'
  <2>1. /\ Others(r) /\ every' = every /\ frequency' = frequency /\ status' = status
        /\ \A s \in Syncs : Exists(s)' => Exists(s)
        /\ task'[r].pc \notin {"pauseSchedule", "insertSchedule", "describe", "update"}
    BY <1>22, PauseStep, Places
  <2>2. Carried(task[r])'
    BY <2>1 DEF Carried
  <2>3. \A q \in Requests : task[q].pc \in {"pauseSchedule", "insertSchedule"}
           => task[q].sync \in Syncs
    BY DEF SyncsFit, SyncFits, Creating, Inserted
  <2>4. ASSUME NEW q \in Requests \ {r} PROVE Carried(task[q])'
    BY <1>0, <2>1, <2>3 DEF FrequenciesCarried, Carried, Others, Scheduled
  <2> QED
    BY <2>2, <2>4 DEF FrequenciesCarried
<1>23. ASSUME NEW r \in Requests, Unpause(r) PROVE FrequenciesCarried'
  <2>1. /\ Others(r) /\ every' = every /\ frequency' = frequency /\ status' = status
        /\ \A s \in Syncs : Exists(s)' => Exists(s)
        /\ task'[r].pc \notin {"pauseSchedule", "insertSchedule", "describe", "update"}
    BY <1>23, UnpauseStep, Places
  <2>2. Carried(task[r])'
    BY <2>1 DEF Carried
  <2>3. \A q \in Requests : task[q].pc \in {"pauseSchedule", "insertSchedule"}
           => task[q].sync \in Syncs
    BY DEF SyncsFit, SyncFits, Creating, Inserted
  <2>4. ASSUME NEW q \in Requests \ {r} PROVE Carried(task[q])'
    BY <1>0, <2>1, <2>3 DEF FrequenciesCarried, Carried, Others, Scheduled
  <2> QED
    BY <2>2, <2>4 DEF FrequenciesCarried
<1>24. ASSUME NEW r \in Requests, TriggerAndReadFrequency(r) PROVE FrequenciesCarried'
  <2>1. /\ Others(r) /\ Still /\ task'[r].sync = task[r].sync
        /\ \/ task'[r].pc = "describe" /\ task'[r].freq = frequency[task[r].sync]
           \/ task'[r].pc = "setStatus"
    BY <1>24, TriggerAndReadFrequencyStep
  <2>2. Carried(task[r])'
    BY <2>1 DEF Carried, Still, Scheduled
  <2>3. ASSUME NEW q \in Requests \ {r} PROVE Carried(task[q])'
    BY <1>0, <2>1 DEF FrequenciesCarried, Carried, Others, Still, Scheduled, Exists
  <2> QED
    BY <2>2, <2>3 DEF FrequenciesCarried
<1>25. ASSUME NEW r \in Requests, SetStatus(r) PROVE FrequenciesCarried'
  <2>1. /\ Others(r) /\ every' = every /\ frequency' = frequency /\ sched' = sched
        /\ \A s \in Syncs : Scheduled(s)' => Scheduled(s)
    BY <1>25, SetStatusStep DEF Scheduled
  <2>2. task'[r].pc \notin {"pauseSchedule", "insertSchedule", "describe", "update"}
    BY <1>25, SetStatusStep, LoopGoes DEF TypeOK, HandlersFit, LoopFits, OpFits, Scheduled
  <2>3. Carried(task[r])'
    BY <2>2 DEF Carried
  <2>4. \A q \in Requests : task[q].pc \in {"describe", "update"} => task[q].sync \in Syncs
    BY DEF SyncsFit, SyncFits, Commanding, Inserted
  <2>5. ASSUME NEW q \in Requests \ {r} PROVE Carried(task[q])'
    BY <1>0, <2>1, <2>4 DEF FrequenciesCarried, Carried, Others, Exists
  <2> QED
    BY <2>3, <2>5 DEF FrequenciesCarried
<1>26. ASSUME NEW r \in Requests, Describe(r) PROVE FrequenciesCarried'
  <2>1. /\ Others(r) /\ Still /\ task[r].pc = "describe"
        /\ \/ task'[r].freq = task[r].freq /\ task'[r].sync = task[r].sync
                 /\ task'[r].pc = "update"
           \/ task'[r].pc \notin {"pauseSchedule", "insertSchedule", "describe", "update"}
    BY <1>26, DescribeStep, UpdateGoes DEF TypeOK
  <2>2. Carried(task[r])'
    BY <1>0, <2>1 DEF FrequenciesCarried, Carried, Still, Scheduled
  <2>3. ASSUME NEW q \in Requests \ {r} PROVE Carried(task[q])'
    BY <1>0, <2>1 DEF FrequenciesCarried, Carried, Others, Still, Scheduled, Exists
  <2> QED
    BY <2>2, <2>3 DEF FrequenciesCarried
<1>27. ASSUME NEW r \in Requests, UpdateSchedule(r) PROVE FrequenciesCarried'
  <2>1. /\ Others(r) /\ status' = status /\ frequency' = frequency /\ task[r].pc = "update"
        /\ status[task[r].sync] # "none"
        /\ \A s \in Syncs : s # task[r].sync => sched'[s] = sched[s] /\ every'[s] = every[s]
    BY <1>27, UpdateScheduleStep DEF SyncsFit, SyncFits, Commanding
  <2>2. task'[r].pc \notin {"pauseSchedule", "insertSchedule", "describe", "update"}
    BY <1>27, UpdateScheduleStep, UpdateGoes DEF TypeOK
  <2>3. Carried(task[r])'
    BY <2>2 DEF Carried
  <2>4. ASSUME NEW q \in Requests \ {r}, task[q].pc \in {"pauseSchedule", "insertSchedule"}
        PROVE  task[q].sync \in Syncs /\ task[q].sync # task[r].sync
    BY <2>1, <2>4 DEF SyncsFit, SyncFits, Creating, Inserted
  <2>5. ASSUME NEW q \in Requests \ {r} PROVE Carried(task[q])'
    BY <1>0, <2>1, <2>4, <2>5 DEF FrequenciesCarried, Carried, Others, Scheduled, Exists
  <2> QED
    BY <2>3, <2>5 DEF FrequenciesCarried
<1>28. ASSUME NEW r \in Requests, Compare(r) PROVE FrequenciesCarried'
  BY <1>0, <1>28, CompareStep, LoopGoes DEF TypeOK, Others, Still, PcOnly, Same, Alike,
     FrequenciesCarried, Carried, Scheduled, Exists
<1>29. ASSUME NEW r \in Requests, WriteFrequency(r) PROVE FrequenciesCarried'
  <2>1. /\ Others(r) /\ status' = status /\ sched' = sched /\ every' = every
              /\ task[r].op = "deploy"
        /\ Scheduled(task[r].sync) => frequency'[task[r].sync] = task[r].freq
        /\ task'[r].freq = task[r].freq /\ task'[r].sync = task[r].sync
              /\ task'[r].pc = "describe"
    BY <1>29, WriteFrequencyStep DEF SyncsFit, SyncFits, Commanding, Inserted, HandlersFit,
       OpFits, PcOnly
  <2>2. Carried(task[r])'
    BY <2>1 DEF Carried, Scheduled
  <2>3. ASSUME NEW q \in Requests \ {r} PROVE task[q].pc \notin {"describe", "update"}
    BY <1>0, <2>1 DEF HandlersFit, OpFits
  <2>4. ASSUME NEW q \in Requests \ {r} PROVE Carried(task[q])'
    BY <1>0, <2>1, <2>3 DEF FrequenciesCarried, Carried, Others, Exists
  <2> QED
    BY <2>2, <2>4 DEF FrequenciesCarried
<1>30. ASSUME NEW r \in Requests, WriteConfig(r) PROVE FrequenciesCarried'
  BY <1>0, <1>30, WriteConfigStep DEF Others, Still, PcOnly, Same, Alike, FrequenciesCarried,
     Carried, Scheduled, Exists
<1>31. ASSUME NEW r \in Requests, NEW preBuilt \in BOOLEAN, NEW auto \in BOOLEAN,
              Reconcile(r, preBuilt, auto)
      PROVE FrequenciesCarried'
  BY <1>0, <1>31, ReconcileStep DEF Idle, Others, Still, PcOnly, Same, Alike,
     FrequenciesCarried, Carried, Scheduled, Exists
<1>32. ASSUME NEW r \in Requests, MarkAllAsStopped(r) PROVE FrequenciesCarried'
  <2>1. /\ Others(r) /\ every' = every /\ frequency' = frequency /\ sched' = sched
        /\ \A s \in Syncs : Scheduled(s)' => Scheduled(s)
    BY <1>32, MarkAllAsStoppedStep DEF Scheduled
  <2>2. task'[r].pc \notin {"pauseSchedule", "insertSchedule", "describe", "update"}
    BY <1>32, MarkAllAsStoppedStep DEF Idle, Scheduled
  <2>3. Carried(task[r])'
    BY <2>2 DEF Carried
  <2>4. \A q \in Requests : task[q].pc \in {"describe", "update"} => task[q].sync \in Syncs
    BY DEF SyncsFit, SyncFits, Commanding, Inserted
  <2>5. ASSUME NEW q \in Requests \ {r} PROVE Carried(task[q])'
    BY <1>0, <2>1, <2>4 DEF FrequenciesCarried, Carried, Others, Exists
  <2> QED
    BY <2>3, <2>5 DEF FrequenciesCarried
<1>33. ASSUME NEW r \in Requests, CallFails(r) PROVE FrequenciesCarried'
  <2>1. /\ Others(r) /\ Still
    BY <1>33, CallFailsStep
  <2>2. task'[r].pc \notin {"pauseSchedule", "insertSchedule", "describe", "update"}
    BY <1>33, CallFailsStep, LoopGoes, UpdateGoes DEF TypeOK
  <2>3. Carried(task[r])'
    BY <2>2 DEF Carried
  <2>4. ASSUME NEW q \in Requests \ {r} PROVE Carried(task[q])'
    BY <1>0, <2>1 DEF FrequenciesCarried, Carried, Others, Still, Scheduled, Exists
  <2> QED
    BY <2>3, <2>4 DEF FrequenciesCarried
<1>34. ASSUME NEW r \in Requests, CutShort(r) PROVE FrequenciesCarried'
  BY <1>0, <1>34, CutShortStep DEF Idle, Others, Still, PcOnly, Same, Alike,
     FrequenciesCarried, Carried, Scheduled, Exists
<1>35. ASSUME NEW s \in Syncs, NEW outcome \in {"SUCCESS", "STOPPED"}, JobEnds(s, outcome)
      PROVE FrequenciesCarried'
  BY <1>0, <1>35 DEF JobEnds, syncVars, jobVars, temporalVars, scheduleVars, envVars,
     FrequenciesCarried, Carried, Scheduled, Exists
<1>36. CASE UNCHANGED vars
  BY <1>0, <1>36 DEF vars, syncVars, jobVars, temporalVars, scheduleVars, envVars,
     FrequenciesCarried, Carried, Scheduled, Exists
<1> QED
  BY <1>1, <1>2, <1>3, <1>4, <1>5, <1>6, <1>7, <1>8, <1>9, <1>10, <1>11, <1>12, <1>13, <1>14,
     <1>15, <1>16, <1>17, <1>18, <1>19, <1>20, <1>21, <1>22, <1>23, <1>24, <1>25, <1>26, <1>27,
     <1>28, <1>29, <1>30, <1>31, <1>32, <1>33, <1>34, <1>35, <1>36, Cases DEF Acts

TemporalInv == CoreInv /\ TemporalKept

LEMMA TemporalInvAlways == Spec => []TemporalInv
<1>1. Init => TemporalInv
  <2>1. Init => IntervalsAgree /\ FrequenciesCarried
    BY DEF Init, IntervalsAgree, FrequenciesCarried, Carried, Scheduled, Idle
  <2> QED
    BY <2>1, InitCore DEF TemporalInv, TemporalKept
<1>2. TemporalInv /\ [Next]_vars => TemporalInv'
  <2> SUFFICES ASSUME TemporalInv, [Next]_vars PROVE TemporalInv'
    OBVIOUS
  <2>1. CoreInv'
    BY NextCore DEF TemporalInv
  <2>2. ASSUME TemporalAlone' PROVE IntervalsAgree' /\ FrequenciesCarried'
    BY <2>2, NextIntervalsAgree, NextFrequenciesCarried DEF TemporalInv, CoreInv
  <2> QED
    BY <2>1, <2>2 DEF TemporalInv, TemporalKept
<1> QED
  BY <1>1, <1>2, PTL DEF Spec

(***************************************************************************)
(* What the rows have of a deploy.                                         *)
(***************************************************************************)

LEMMA RowsApart ==
    ASSUME NEW met, met \intersect RowOverlaps = {}, NEW p, NEW o,
           {p, o} \in Harmful => {p, o} \in met
    PROVE  /\ o = "deploy" => p \notin {"create", "delete", "deploy"}
           /\ o = "create" => p \notin {"delete", "deploy"}
<1>1. {p, o} \notin RowOverlaps
  BY DEF Harmful, RowOverlaps
<1>2. ASSUME o = "deploy", p = "create" PROVE FALSE
  BY <1>1, <1>2 DEF RowOverlaps
<1>3. ASSUME o = "deploy", p = "delete" PROVE FALSE
  BY <1>1, <1>3 DEF RowOverlaps
<1>4. ASSUME o = "deploy", p = "deploy" PROVE FALSE
  BY <1>1, <1>4 DEF RowOverlaps
<1>5. ASSUME o = "create", p = "delete" PROVE FALSE
  BY <1>1, <1>5 DEF RowOverlaps
<1>6. ASSUME o = "create", p = "deploy" PROVE FALSE
  BY <1>1, <1>6 DEF RowOverlaps
<1> QED
  BY <1>2, <1>3, <1>4, <1>5, <1>6

LEMMA RowsAloneBefore ==
    ASSUME TypeOK, HandlersFit, SyncsFit, RowsFit, RowsAlone', Next \/ UNCHANGED vars
    PROVE  RowsAlone
  BY Monotone, FailedGrows DEF RowsAlone

\* A step that writes neither a frequency nor the config, and is not a deploy's.
Quiet(r) ==
    /\ Others(r) /\ frequency' = frequency /\ config' = config
    /\ \A s \in Syncs : (Live(s)' /\ Scheduled(s)') => Live(s) /\ Scheduled(s)
    /\ task[r].op # "deploy" /\ task'[r].op # "deploy"
    /\ task'[r].op = "create" => task[r].op = "create" /\ task'[r].freq = task[r].freq

LEMMA QuietKeeps ==
    ASSUME RowsAsDeployed, CreationsAsDeployed, DeploysReach, NEW r \in Requests, Quiet(r)
    PROVE  RowsAsDeployed' /\ CreationsAsDeployed' /\ DeploysReach'
<1>1. \A q \in Requests : task'[q] = task[q] \/ (q = r /\ task'[q].op # "deploy")
  BY DEF Quiet, Others
<1>2. No("deploy")' => No("deploy")
  BY DEF Quiet, Others, No
<1>3. RowsAsDeployed'
  BY <1>2 DEF Quiet, RowsAsDeployed
<1>4. CreationsAsDeployed'
  BY DEF Quiet, Others, CreationsAsDeployed
<1>5. ASSUME NEW q \in Requests, task'[q].op = "deploy"
      PROVE  /\ At(q, "reconcile")' => config' = task'[q].freq
             /\ \A s \in Syncs : (Live(s)' /\ Scheduled(s)') => Reached(q, s)'
  <2>1. task'[q] = task[q]
    BY <1>1, <1>5
  <2> QED
    BY <1>5, <2>1 DEF Quiet, DeploysReach, At, Reached, On
<1> QED
  BY <1>3, <1>4, <1>5 DEF DeploysReach

\* A deploy that goes on with its loop has left no row behind.
LEMMA LoopReaches ==
    ASSUME NEW r \in Requests, task[r].op = "deploy", Loops(task[r], task'[r], "compare"),
           HandlersFit, frequency' = frequency,
           \A s \in Syncs : (Live(s)' /\ Scheduled(s)') =>
               frequency[s] = task[r].freq \/ s \in task[r].todo
    PROVE  /\ task'[r].op = "deploy" /\ task'[r].pc \in {"writeConfig", "compare"}
           /\ \A s \in Syncs : (Live(s)' /\ Scheduled(s)') => Reached(r, s)'
<1>1. task[r].then = "writeConfig"
  BY DEF HandlersFit, LoopFits
<1>2. CASE /\ Same(task[r], task'[r]) /\ task'[r].freq = task[r].freq
           /\ task[r].todo = {} /\ task'[r].pc = task[r].then
  BY <1>1, <1>2 DEF Same, Alike, Reached
<1>3. CASE /\ Alike(task[r], task'[r]) /\ task'[r].freq = task[r].freq
                 /\ task'[r].pc = "compare"
           /\ task'[r].sync \in task[r].todo /\ task'[r].todo = task[r].todo \ {task'[r].sync}
  BY <1>1, <1>3 DEF Alike, Reached, On
<1> QED
  BY <1>1, <1>2, <1>3 DEF Loops

LEMMA NextRowsReach ==
    ASSUME TypeOK, HandlersFit, SyncsFit, RowsFit, MeetingsKnown, ConnectionsCovered,
           FlowCovered, RowsKept, RowsAlone', Next \/ UNCHANGED vars
    PROVE  RowsAsDeployed' /\ CreationsAsDeployed' /\ DeploysReach'
<1>0. /\ RowsAlone /\ RowsAsDeployed /\ CreationsAsDeployed /\ DeploysReach
      /\ \A q, r \in Requests : q # r =>
            /\ task[r].op = "deploy" => task[q].op \notin {"create", "delete", "deploy"}
            /\ task[r].op = "create" => task[q].op \notin {"delete", "deploy"}
      /\ \A q, r \in Requests :
            (q # r /\ task'[r].op = "deploy")
               => task'[q].op \notin {"create", "delete", "deploy"}
  <2>1. RowsAlone /\ MeetingsKnown'
    BY RowsAloneBefore, NextMeetingsKnown
  <2>2. overlaps \intersect RowOverlaps = {} /\ overlaps' \intersect RowOverlaps = {}
    BY <2>1 DEF RowsAlone, RowOverlaps
  <2>3. ASSUME NEW q \in Requests, NEW r \in Requests, q # r
        PROVE  /\ task[r].op = "deploy" => task[q].op \notin {"create", "delete", "deploy"}
               /\ task[r].op = "create" => task[q].op \notin {"delete", "deploy"}
               /\ task'[r].op = "deploy" => task'[q].op \notin {"create", "delete", "deploy"}
    <3>1. /\ {task[q].op, task[r].op} \in Harmful => {task[q].op, task[r].op} \in overlaps
          /\ {task'[q].op, task'[r].op} \in Harmful => {task'[q].op, task'[r].op} \in overlaps'
      BY <2>1, <2>3 DEF MeetingsKnown
    <3> QED
      BY <2>2, <3>1, RowsApart
  <2> QED
    BY <2>1, <2>3 DEF RowsKept
<1>1. ASSUME NEW r \in Requests, NEW c \in Connections, NEW auto \in BOOLEAN,
             Initiate(r, c, auto)
      PROVE RowsAsDeployed' /\ CreationsAsDeployed' /\ DeploysReach'
  <2>1. Others(r) /\ Still /\ task[r] = Idle /\ task'[r].op = "create" /\ task'[r].freq = config
    BY <1>1, InitiateStep
  <2>2. /\ \A s \in Syncs : (Live(s)' <=> Live(s)) /\ (Scheduled(s)' <=> Scheduled(s))
        /\ frequency' = frequency /\ config' = config
    BY <2>1 DEF Still, Live, Scheduled
  <2>3. No("deploy")' => No("deploy")
    BY <2>1 DEF Others, No, Idle
  <2>4. RowsAsDeployed'
    BY <1>0, <2>2, <2>3 DEF RowsAsDeployed
  <2>5. CreationsAsDeployed'
    BY <1>0, <2>1, <2>2 DEF Others, CreationsAsDeployed
  <2>6. DeploysReach'
    BY <1>0, <2>1, <2>2 DEF Others, DeploysReach, At, Reached, On
  <2> QED
    BY <2>4, <2>5, <2>6
<1>2. ASSUME NEW r \in Requests, NEW c \in Connections, DeleteConnection(r, c)
      PROVE RowsAsDeployed' /\ CreationsAsDeployed' /\ DeploysReach'
  <2>1. Others(r) /\ Still /\ task[r] = Idle /\ task'[r].op = "delete"
    BY <1>2, DeleteConnectionStep
  <2>2. Quiet(r)
    BY <2>1 DEF Idle, Quiet, Others, Still, Live, Scheduled
  <2> QED
    BY <1>0, <2>2, QuietKeeps
<1>3. ASSUME NEW r \in Requests, DeleteFlow(r)
      PROVE RowsAsDeployed' /\ CreationsAsDeployed' /\ DeploysReach'
  <2>1. Quiet(r)
    BY <1>3, DeleteFlowStep DEF Quiet, Others, Still, Live, Scheduled, Idle
  <2> QED
    BY <1>0, <2>1, QuietKeeps
<1>4. ASSUME NEW r \in Requests, ReconcileDeletion(r)
      PROVE RowsAsDeployed' /\ CreationsAsDeployed' /\ DeploysReach'
  <2>1. Quiet(r)
    BY <1>4, ReconcileDeletionStep DEF Quiet, Others, Still, Live, Scheduled, Idle
  <2> QED
    BY <1>0, <2>1, QuietKeeps
<1>5. ASSUME NEW r \in Requests, NEW command \in {"pause", "unpause"},
             NEW syncs \in SUBSET SyncsOf(connected), Command(r, command, syncs)
      PROVE RowsAsDeployed' /\ CreationsAsDeployed' /\ DeploysReach'
  <2>1. Quiet(r)
    BY <1>5, CommandStep DEF Quiet, Others, Still, Live, Scheduled, Idle
  <2> QED
    BY <1>0, <2>1, QuietKeeps
<1>6. ASSUME NEW r \in Requests, NEW command \in {"pause", "unpause"}, NEW s \in Syncs,
             CommandById(r, command, s)
      PROVE RowsAsDeployed' /\ CreationsAsDeployed' /\ DeploysReach'
  <2>1. Quiet(r)
    BY <1>6, CommandByIdStep DEF Quiet, Others, Still, Live, Scheduled, Idle
  <2> QED
    BY <1>0, <2>1, QuietKeeps
<1>7. ASSUME NEW r \in Requests, NEW f \in Frequencies, Deploy(r, f)
      PROVE RowsAsDeployed' /\ CreationsAsDeployed' /\ DeploysReach'
  <2>1. /\ Others(r) /\ Still /\ task[r] = Idle /\ task'[r].op = "deploy"
              /\ task'[r].pc # "reconcile"
        /\ \/ task'[r].pc = "compare" /\ config # NoFrequency
              /\ SyncsOf(connected) = task'[r].todo \union {task'[r].sync}
           \/ config = NoFrequency \/ SyncsOf(connected) = {}
    BY <1>7, DeployStep DEF RowsAlone
  <2>2. /\ \A s \in Syncs : (Live(s)' <=> Live(s)) /\ (Scheduled(s)' <=> Scheduled(s))
        /\ frequency' = frequency /\ config' = config
    BY <2>1 DEF Still, Live, Scheduled
  <2>3. RowsAsDeployed'
    BY <2>1 DEF RowsAsDeployed, No
  <2>4. CreationsAsDeployed'
    BY <1>0, <2>1, <2>2 DEF Others, CreationsAsDeployed
  <2>5. \A s \in Syncs : Live(s) => s \in SyncsOf(connected)
    BY <1>0 DEF ConnectionsCovered, SyncsOf, RowsAlone, RowOverlaps
  <2>6. ASSUME NEW s \in Syncs, Live(s) PROVE config # NoFrequency
    <3> SUFFICES ASSUME config = NoFrequency PROVE FALSE
      OBVIOUS
    <3>1. PICK q \in Requests : task[q].op = "delete"
      BY <1>0, <2>6 DEF FlowCovered, FlowOverlaps, RowsAlone, RowOverlaps, Deleting
    <3>2. q # r /\ task'[q].op = "delete"
      BY <2>1, <3>1 DEF Others, Idle
    <3> QED
      BY <1>0, <2>1, <3>2
  <2>7. \A s \in Syncs : Live(s) => Reached(r, s)'
    BY <2>1, <2>5, <2>6 DEF Reached, On
  <2>8. ASSUME NEW q \in Requests \ {r} PROVE task'[q].op # "deploy"
    BY <1>0, <2>1
  <2>9. DeploysReach'
    BY <2>1, <2>2, <2>7, <2>8 DEF DeploysReach, At
  <2> QED
    BY <2>3, <2>4, <2>9
<1>8. ASSUME NEW r \in Requests, ListSchedules(r)
      PROVE RowsAsDeployed' /\ CreationsAsDeployed' /\ DeploysReach'
  <2>1. Quiet(r)
    BY <1>8, ListSchedulesStep DEF Quiet, Others, Still, Live, Scheduled, Idle
  <2> QED
    BY <1>0, <2>1, QuietKeeps
<1>9. ASSUME NEW r \in Requests, Look(r)
      PROVE RowsAsDeployed' /\ CreationsAsDeployed' /\ DeploysReach'
  <2>1. /\ Others(r) /\ Still /\ task[r].op = "create"
        /\ task'[r] = Idle \/ (task'[r].op = "create" /\ task'[r].freq = task[r].freq)
    BY <1>9, LookStep DEF LoopsOver, PcOnly, Same, Alike, HandlersFit, OpFits, LoopFits,
       CreateLocations, DeleteLocations, Dropping, Creating
  <2>2. Quiet(r)
    BY <2>1 DEF Idle, Quiet, Others, Still, Live, Scheduled
  <2> QED
    BY <1>0, <2>2, QuietKeeps
<1>10. ASSUME NEW r \in Requests, FindExisting(r)
      PROVE RowsAsDeployed' /\ CreationsAsDeployed' /\ DeploysReach'
  <2>1. /\ Others(r) /\ Still /\ task[r].op = "create"
        /\ task'[r] = Idle \/ (task'[r].op = "create" /\ task'[r].freq = task[r].freq)
    BY <1>10, FindExistingStep DEF PcOnly, Same, Alike, HandlersFit, OpFits, LoopFits,
       CreateLocations, DeleteLocations, Dropping, Creating
  <2>2. Quiet(r)
    BY <2>1 DEF Idle, Quiet, Others, Still, Live, Scheduled
  <2> QED
    BY <1>0, <2>2, QuietKeeps
<1>11. ASSUME NEW r \in Requests, NEW i \in Syncs, InsertSync(r, i)
      PROVE RowsAsDeployed' /\ CreationsAsDeployed' /\ DeploysReach'
  <2>1. Quiet(r)
    BY <1>11, InsertSyncStep DEF Quiet, Others, Still, Live, Scheduled, RowsFit, Same, Alike,
       HandlersFit, OpFits, LoopFits, CreateLocations, DeleteLocations, Dropping, Creating
  <2> QED
    BY <1>0, <2>1, QuietKeeps
<1>12. ASSUME NEW r \in Requests, InsertJob(r)
      PROVE RowsAsDeployed' /\ CreationsAsDeployed' /\ DeploysReach'
  <2>1. Quiet(r)
    BY <1>12, InsertJobStep DEF Quiet, Others, Still, Live, Scheduled, PcOnly, Same, Alike,
       HandlersFit, OpFits, LoopFits, CreateLocations, DeleteLocations, Dropping, Creating
  <2> QED
    BY <1>0, <2>1, QuietKeeps
<1>13. ASSUME NEW r \in Requests, InsertJobFails(r)
      PROVE RowsAsDeployed' /\ CreationsAsDeployed' /\ DeploysReach'
  <2>1. Quiet(r)
    BY <1>13, InsertJobFailsStep DEF Quiet, Others, Still, Live, Scheduled, PcOnly, Same,
       Alike, HandlersFit, OpFits, LoopFits, CreateLocations, DeleteLocations, Dropping,
       Creating
  <2> QED
    BY <1>0, <2>1, QuietKeeps
<1>14. ASSUME NEW r \in Requests, StartWorkflow(r)
      PROVE RowsAsDeployed' /\ CreationsAsDeployed' /\ DeploysReach'
  <2>1. Quiet(r)
    BY <1>14, StartWorkflowStep DEF Quiet, Others, Still, Live, Scheduled, PcOnly, Same, Alike,
       HandlersFit, OpFits, LoopFits, CreateLocations, DeleteLocations, Dropping, Creating
  <2> QED
    BY <1>0, <2>1, QuietKeeps
<1>15. ASSUME NEW r \in Requests, CreateSchedule(r)
      PROVE RowsAsDeployed' /\ CreationsAsDeployed' /\ DeploysReach'
  <2>1. Quiet(r)
    BY <1>15, CreateScheduleStep DEF Quiet, Others, Still, Live, Scheduled, PcOnly, Same,
       Alike, HandlersFit, OpFits, LoopFits, CreateLocations, DeleteLocations, Dropping,
       Creating
  <2> QED
    BY <1>0, <2>1, QuietKeeps
<1>16. ASSUME NEW r \in Requests, PauseSchedule(r)
      PROVE RowsAsDeployed' /\ CreationsAsDeployed' /\ DeploysReach'
  <2>1. Quiet(r)
    BY <1>16, PauseScheduleStep DEF Quiet, Others, Still, Live, Scheduled, PcOnly, Same, Alike,
       HandlersFit, OpFits, LoopFits, CreateLocations, DeleteLocations, Dropping, Creating
  <2> QED
    BY <1>0, <2>1, QuietKeeps
<1>17. ASSUME NEW r \in Requests, InsertSchedule(r)
      PROVE RowsAsDeployed' /\ CreationsAsDeployed' /\ DeploysReach'
  <2>1. /\ Others(r) /\ row' = row /\ config' = config /\ task[r].op = "create"
              /\ task[r].sync \in Syncs
        /\ \A s \in Syncs : s # task[r].sync
              => status'[s] = status[s] /\ frequency'[s] = frequency[s]
        /\ frequency'[task[r].sync] = task[r].freq
    BY <1>17, InsertScheduleStep DEF SyncsFit, SyncFits, Inserted, HandlersFit, OpFits,
       LoopFits, CreateLocations, DeleteLocations, Dropping, Creating
  <2>2. task'[r] = Idle \/ (task'[r].op = "create" /\ task'[r].freq = task[r].freq)
    BY <1>17, InsertScheduleStep DEF LoopsOver, Alike, HandlersFit, OpFits, LoopFits,
       CreateLocations, DeleteLocations, Dropping, Creating
  <2>3. task'[r].op # "deploy" /\ (task'[r].op = "create" => task'[r].freq = task[r].freq)
    BY <2>2 DEF Idle
  <2>4. No("deploy")' => No("deploy")
    BY <2>1 DEF Others, No
  <2>5. task[r].freq = config
    BY <1>0, <2>1 DEF CreationsAsDeployed
  <2>6. RowsAsDeployed'
    BY <1>0, <2>1, <2>4, <2>5 DEF RowsAsDeployed, Live, Scheduled
  <2>7. CreationsAsDeployed'
    BY <1>0, <2>1, <2>3 DEF Others, CreationsAsDeployed
  <2>8. ASSUME NEW q \in Requests PROVE task'[q].op # "deploy"
    BY <1>0, <2>1, <2>3 DEF Others
  <2>9. DeploysReach'
    BY <2>8 DEF DeploysReach
  <2> QED
    BY <2>6, <2>7, <2>9
<1>18. ASSUME NEW r \in Requests, StartFails(r)
      PROVE RowsAsDeployed' /\ CreationsAsDeployed' /\ DeploysReach'
  <2>1. /\ Others(r) /\ Still /\ task[r].op = "create"
        /\ task'[r] = Idle \/ (task'[r].op = "create" /\ task'[r].freq = task[r].freq)
    BY <1>18, StartFailsStep DEF LoopsOver, Alike, HandlersFit, OpFits, LoopFits,
       CreateLocations, DeleteLocations, Dropping, Creating
  <2>2. Quiet(r)
    BY <2>1 DEF Idle, Quiet, Others, Still, Live, Scheduled
  <2> QED
    BY <1>0, <2>2, QuietKeeps
<1>19. ASSUME NEW r \in Requests, DropFlow(r)
      PROVE RowsAsDeployed' /\ CreationsAsDeployed' /\ DeploysReach'
  <2>1. /\ Others(r) /\ config' = NoFrequency /\ task[r].op = "delete"
        /\ task'[r].op = "delete" \/ task'[r] = Idle
    BY <1>19, DropFlowStep DEF PcOnly, Same, Alike, HandlersFit, OpFits, LoopFits,
       CreateLocations, DeleteLocations, Dropping, Creating
  <2>2. RowsAsDeployed'
    BY <2>1 DEF RowsAsDeployed
  <2>3. ASSUME NEW q \in Requests PROVE task'[q].op \notin {"create", "deploy"}
    BY <1>0, <2>1 DEF Others, Idle
  <2>4. CreationsAsDeployed' /\ DeploysReach'
    BY <2>3 DEF CreationsAsDeployed, DeploysReach
  <2> QED
    BY <2>2, <2>4
<1>20. ASSUME NEW r \in Requests, FindSync(r)
      PROVE RowsAsDeployed' /\ CreationsAsDeployed' /\ DeploysReach'
  <2>1. /\ Others(r) /\ Still /\ task[r].op = "delete"
        /\ task'[r] = Idle \/ task'[r].op = "delete"
    BY ZenonT(60), <1>20, FindSyncStep DEF Alike, HandlersFit, OpFits, LoopFits,
       CreateLocations,
       DeleteLocations, Dropping, Creating
  <2>2. Quiet(r)
    BY <2>1 DEF Idle, Quiet, Others, Still, Live, Scheduled
  <2> QED
    BY <1>0, <2>2, QuietKeeps
<1>21. ASSUME NEW r \in Requests, GetSchedule(r)
      PROVE RowsAsDeployed' /\ CreationsAsDeployed' /\ DeploysReach'
  <2>1. Quiet(r)
    BY <1>21, GetScheduleStep DEF Quiet, Others, Still, Live, Scheduled, PcOnly, Same, Alike,
       HandlersFit, OpFits, LoopFits, CreateLocations, DeleteLocations, Dropping, Creating
  <2> QED
    BY <1>0, <2>1, QuietKeeps
<1>22. ASSUME NEW r \in Requests, DropSchedule(r)
      PROVE RowsAsDeployed' /\ CreationsAsDeployed' /\ DeploysReach'
  <2>1. Quiet(r)
    BY <1>22, DropScheduleStep DEF Quiet, Others, Still, Live, Scheduled, PcOnly, Same, Alike,
       HandlersFit, OpFits, LoopFits, CreateLocations, DeleteLocations, Dropping, Creating
  <2> QED
    BY <1>0, <2>1, QuietKeeps
<1>23. ASSUME NEW r \in Requests, DropSync(r)
      PROVE RowsAsDeployed' /\ CreationsAsDeployed' /\ DeploysReach'
  <2>1. Quiet(r)
    BY <1>23, DropSyncStep DEF Quiet, Others, Still, Live, Scheduled, PcOnly, Same, Alike,
       HandlersFit, OpFits, LoopFits, CreateLocations, DeleteLocations, Dropping, Creating
  <2> QED
    BY <1>0, <2>1, QuietKeeps
<1>24. ASSUME NEW r \in Requests, DropJobs(r)
      PROVE RowsAsDeployed' /\ CreationsAsDeployed' /\ DeploysReach'
  <2>1. Quiet(r)
    BY <1>24, DropJobsStep DEF Quiet, Others, Still, Live, Scheduled, PcOnly, Same, Alike,
       HandlersFit, OpFits, LoopFits, CreateLocations, DeleteLocations, Dropping, Creating
  <2> QED
    BY <1>0, <2>1, QuietKeeps
<1>25. ASSUME NEW r \in Requests, DropScheduleRow(r)
      PROVE RowsAsDeployed' /\ CreationsAsDeployed' /\ DeploysReach'
  <2>1. Quiet(r)
    BY <1>25, DropScheduleRowStep, LoopGoes DEF Quiet, Others, Still, Live, Scheduled, TypeOK,
       HandlersFit, OpFits, LoopFits, CreateLocations, DeleteLocations, Dropping, Creating
  <2> QED
    BY <1>0, <2>1, QuietKeeps
<1>26. ASSUME NEW r \in Requests, DropConnection(r)
      PROVE RowsAsDeployed' /\ CreationsAsDeployed' /\ DeploysReach'
  <2>1. /\ Others(r) /\ task'[r] = Idle /\ task[r].op = "delete"
        /\ UNCHANGED <<row, status, frequency, config>>
    BY <1>26, DropConnectionStep DEF HandlersFit, OpFits, LoopFits, CreateLocations,
       DeleteLocations, Dropping, Creating
  <2>2. Quiet(r)
    BY <2>1 DEF Idle, Quiet, Others, Still, Live, Scheduled
  <2> QED
    BY <1>0, <2>2, QuietKeeps
<1>27. ASSUME NEW r \in Requests, DropConfig(r)
      PROVE RowsAsDeployed' /\ CreationsAsDeployed' /\ DeploysReach'
  <2>1. /\ Others(r) /\ config' = NoFrequency /\ task[r].op = "delete"
        /\ task'[r].op = "delete" \/ task'[r] = Idle
    BY <1>27, DropConfigStep DEF HandlersFit, OpFits, LoopFits, CreateLocations,
       DeleteLocations, Dropping, Creating
  <2>2. RowsAsDeployed'
    BY <2>1 DEF RowsAsDeployed
  <2>3. ASSUME NEW q \in Requests PROVE task'[q].op \notin {"create", "deploy"}
    BY <1>0, <2>1 DEF Others, Idle
  <2>4. CreationsAsDeployed' /\ DeploysReach'
    BY <2>3 DEF CreationsAsDeployed, DeploysReach
  <2> QED
    BY <2>2, <2>4
<1>28. ASSUME NEW r \in Requests, ReadSchedule(r)
      PROVE RowsAsDeployed' /\ CreationsAsDeployed' /\ DeploysReach'
  <2>1. Quiet(r)
    BY <1>28, ReadScheduleStep, Operates, LoopGoes DEF Quiet, Others, Still, Live, Scheduled,
       TypeOK, PcOnly, Same, Alike, HandlersFit, OpFits, LoopFits, CreateLocations,
       DeleteLocations, Dropping, Creating
  <2> QED
    BY <1>0, <2>1, QuietKeeps
<1>29. ASSUME NEW r \in Requests, Pause(r)
      PROVE RowsAsDeployed' /\ CreationsAsDeployed' /\ DeploysReach'
  <2>1. Quiet(r)
    BY <1>29, PauseStep DEF Quiet, Others, Still, Live, Scheduled, PcOnly, Same, Alike,
       HandlersFit, OpFits, LoopFits, CreateLocations, DeleteLocations, Dropping, Creating
  <2> QED
    BY <1>0, <2>1, QuietKeeps
<1>30. ASSUME NEW r \in Requests, Unpause(r)
      PROVE RowsAsDeployed' /\ CreationsAsDeployed' /\ DeploysReach'
  <2>1. Quiet(r)
    BY <1>30, UnpauseStep DEF Quiet, Others, Still, Live, Scheduled, PcOnly, Same, Alike,
       HandlersFit, OpFits, LoopFits, CreateLocations, DeleteLocations, Dropping, Creating
  <2> QED
    BY <1>0, <2>1, QuietKeeps
<1>31. ASSUME NEW r \in Requests, TriggerAndReadFrequency(r)
      PROVE RowsAsDeployed' /\ CreationsAsDeployed' /\ DeploysReach'
  <2>1. Quiet(r)
    BY <1>31, TriggerAndReadFrequencyStep DEF Quiet, Others, Still, Live, Scheduled, PcOnly,
       Same, Alike, HandlersFit, OpFits, LoopFits, CreateLocations, DeleteLocations, Dropping,
       Creating
  <2> QED
    BY <1>0, <2>1, QuietKeeps
<1>32. ASSUME NEW r \in Requests, SetStatus(r)
      PROVE RowsAsDeployed' /\ CreationsAsDeployed' /\ DeploysReach'
  <2>1. Quiet(r)
    BY <1>32, SetStatusStep, LoopGoes DEF Quiet, Others, Still, Live, Scheduled, TypeOK,
       HandlersFit, OpFits, LoopFits, CreateLocations, DeleteLocations, Dropping, Creating
  <2> QED
    BY <1>0, <2>1, QuietKeeps
<1>33. ASSUME NEW r \in Requests, Describe(r)
      PROVE RowsAsDeployed' /\ CreationsAsDeployed' /\ DeploysReach'
  <2>1. Others(r) /\ UNCHANGED <<row, status, frequency, config>>
    BY <1>33, DescribeStep DEF Still
  <2>2. CASE task[r].op # "deploy"
    <3>1. task[r].op = "unpause" /\ task'[r].op \in {"unpause", "idle"}
      BY <1>33, DescribeStep, Operates, <2>2 DEF HandlersFit, OpFits
    <3>2. Quiet(r)
      BY <2>1, <3>1 DEF Quiet, Live, Scheduled
    <3> QED
      BY <1>0, <3>2, QuietKeeps
  <2>3. CASE task[r].op = "deploy"
    <3>1. \A s \in Syncs : (Live(s)' <=> Live(s)) /\ (Scheduled(s)' <=> Scheduled(s))
      BY <2>1 DEF Live, Scheduled
    <3>2. \A s \in Syncs : (Live(s) /\ Scheduled(s)) => Reached(r, s)
      BY <1>0, <2>3 DEF DeploysReach
    <3>3. /\ task'[r].op = "deploy" /\ task'[r].pc # "reconcile"
          /\ \A s \in Syncs : (Live(s)' /\ Scheduled(s)') => Reached(r, s)'
      <4>1. CASE GoesOn(task[r], task'[r])
        <5>1. Loops(task[r], task'[r], "compare") /\ task[r].pc \in {"describe", "update"}
          BY <1>33, DescribeStep, <2>3, <4>1 DEF GoesOn
        <5>2. \A s \in Syncs : (Live(s)' /\ Scheduled(s)') =>
                 frequency[s] = task[r].freq \/ s \in task[r].todo
          BY <3>1, <3>2, <5>1 DEF Reached, On
        <5>3. /\ task'[r].op = "deploy" /\ task'[r].pc \in {"writeConfig", "compare"}
              /\ \A s \in Syncs : (Live(s)' /\ Scheduled(s)') => Reached(r, s)'
          BY <2>1, <2>3, <5>1, <5>2, LoopReaches
        <5> QED
          BY <5>3
      <4>2. CASE /\ Same(task[r], task'[r]) /\ task'[r].freq = task[r].freq
                 /\ task'[r].pc = "update"
        <5>1. task[r].pc = "describe"
          BY <1>33, DescribeStep
        <5> QED
          BY <2>1, <2>3, <3>1, <3>2, <4>2, <5>1 DEF Same, Alike, Reached, On
      <4> QED
        BY <1>33, DescribeStep, <4>1, <4>2
    <3>4. \A q \in Requests \ {r} : task'[q] = task[q] /\ task[q].op # "deploy"
      BY <1>0, <2>1, <2>3 DEF Others
    <3>5. RowsAsDeployed'
      BY <3>3 DEF RowsAsDeployed, No
    <3>6. CreationsAsDeployed'
      BY <1>0, <2>1, <3>3, <3>4 DEF CreationsAsDeployed
    <3>7. DeploysReach'
      BY <3>3, <3>4 DEF DeploysReach, At
    <3> QED
      BY <3>5, <3>6, <3>7
  <2> QED
    BY <2>2, <2>3
<1>34. ASSUME NEW r \in Requests, UpdateSchedule(r)
      PROVE RowsAsDeployed' /\ CreationsAsDeployed' /\ DeploysReach'
  <2>1. Others(r) /\ UNCHANGED <<row, status, frequency, config>>
    BY <1>34, UpdateScheduleStep DEF Still
  <2>2. CASE task[r].op # "deploy"
    <3>1. task[r].op = "unpause" /\ task'[r].op \in {"unpause", "idle"}
      BY <1>34, UpdateScheduleStep, Operates, <2>2 DEF HandlersFit, OpFits
    <3>2. Quiet(r)
      BY <2>1, <3>1 DEF Quiet, Live, Scheduled
    <3> QED
      BY <1>0, <3>2, QuietKeeps
  <2>3. CASE task[r].op = "deploy"
    <3>1. \A s \in Syncs : (Live(s)' <=> Live(s)) /\ (Scheduled(s)' <=> Scheduled(s))
      BY <2>1 DEF Live, Scheduled
    <3>2. \A s \in Syncs : (Live(s) /\ Scheduled(s)) => Reached(r, s)
      BY <1>0, <2>3 DEF DeploysReach
    <3>3. /\ task'[r].op = "deploy" /\ task'[r].pc # "reconcile"
          /\ \A s \in Syncs : (Live(s)' /\ Scheduled(s)') => Reached(r, s)'
      <4>1. CASE GoesOn(task[r], task'[r])
        <5>1. Loops(task[r], task'[r], "compare") /\ task[r].pc \in {"describe", "update"}
          BY <1>34, UpdateScheduleStep, <2>3, <4>1 DEF GoesOn
        <5>2. \A s \in Syncs : (Live(s)' /\ Scheduled(s)') =>
                 frequency[s] = task[r].freq \/ s \in task[r].todo
          BY <3>1, <3>2, <5>1 DEF Reached, On
        <5>3. /\ task'[r].op = "deploy" /\ task'[r].pc \in {"writeConfig", "compare"}
              /\ \A s \in Syncs : (Live(s)' /\ Scheduled(s)') => Reached(r, s)'
          BY <2>1, <2>3, <5>1, <5>2, LoopReaches
        <5> QED
          BY <5>3
      <4> QED
        BY <1>34, UpdateScheduleStep, <4>1
    <3>4. \A q \in Requests \ {r} : task'[q] = task[q] /\ task[q].op # "deploy"
      BY <1>0, <2>1, <2>3 DEF Others
    <3>5. RowsAsDeployed'
      BY <3>3 DEF RowsAsDeployed, No
    <3>6. CreationsAsDeployed'
      BY <1>0, <2>1, <3>3, <3>4 DEF CreationsAsDeployed
    <3>7. DeploysReach'
      BY <3>3, <3>4 DEF DeploysReach, At
    <3> QED
      BY <3>5, <3>6, <3>7
  <2> QED
    BY <2>2, <2>3
<1>35. ASSUME NEW r \in Requests, Compare(r)
      PROVE RowsAsDeployed' /\ CreationsAsDeployed' /\ DeploysReach'
  <2>1. Others(r) /\ UNCHANGED <<row, status, frequency, config>>
    BY <1>35, CompareStep DEF Still
  <2>2. CASE task[r].op # "deploy"
    BY <1>35, CompareStep, <2>2 DEF HandlersFit, OpFits
  <2>3. CASE task[r].op = "deploy"
    <3>1. \A s \in Syncs : (Live(s)' <=> Live(s)) /\ (Scheduled(s)' <=> Scheduled(s))
      BY <2>1 DEF Live, Scheduled
    <3>2. \A s \in Syncs : (Live(s) /\ Scheduled(s)) => Reached(r, s)
      BY <1>0, <2>3 DEF DeploysReach
    <3>3. /\ task'[r].op = "deploy" /\ task'[r].pc # "reconcile"
          /\ \A s \in Syncs : (Live(s)' /\ Scheduled(s)') => Reached(r, s)'
      <4>1. CASE /\ ~ Scheduled(task[r].sync) \/ frequency[task[r].sync] = task[r].freq
                 /\ Loops(task[r], task'[r], "compare")
        <5>1. \A s \in Syncs : (Live(s)' /\ Scheduled(s)') =>
                 frequency[s] = task[r].freq \/ s \in task[r].todo
          BY <3>1, <3>2, <4>1 DEF Reached, On
        <5>2. /\ task'[r].op = "deploy" /\ task'[r].pc \in {"writeConfig", "compare"}
              /\ \A s \in Syncs : (Live(s)' /\ Scheduled(s)') => Reached(r, s)'
          BY <2>1, <2>3, <4>1, <5>1, LoopReaches
        <5> QED
          BY <5>2
      <4>2. CASE PcOnly(task[r], task'[r]) /\ task'[r].pc = "writeFrequency"
        BY <2>1, <2>3, <3>1, <3>2, <4>2 DEF PcOnly, Same, Alike, Reached, On
      <4> QED
        BY <1>35, CompareStep, <4>1, <4>2
    <3>4. \A q \in Requests \ {r} : task'[q] = task[q] /\ task[q].op # "deploy"
      BY <1>0, <2>1, <2>3 DEF Others
    <3>5. RowsAsDeployed'
      BY <3>3 DEF RowsAsDeployed, No
    <3>6. CreationsAsDeployed'
      BY <1>0, <2>1, <3>3, <3>4 DEF CreationsAsDeployed
    <3>7. DeploysReach'
      BY <3>3, <3>4 DEF DeploysReach, At
    <3> QED
      BY <3>5, <3>6, <3>7
  <2> QED
    BY <2>2, <2>3
<1>36. ASSUME NEW r \in Requests, WriteFrequency(r)
      PROVE RowsAsDeployed' /\ CreationsAsDeployed' /\ DeploysReach'
  <2>1. /\ Others(r) /\ config' = config /\ row' = row /\ status' = status
        /\ task[r].op = "deploy" /\ task[r].sync \in Syncs /\ task[r].pc = "writeFrequency"
        /\ PcOnly(task[r], task'[r]) /\ task'[r].pc = "describe"
        /\ \A s \in Syncs : s # task[r].sync => frequency'[s] = frequency[s]
        /\ Scheduled(task[r].sync) => frequency'[task[r].sync] = task[r].freq
    BY <1>36, WriteFrequencyStep DEF SyncsFit, SyncFits, Inserted, Commanding, HandlersFit,
       OpFits, LoopFits, CreateLocations, DeleteLocations, Dropping, Creating
  <2>2. task'[r].op = "deploy" /\ task'[r].freq = task[r].freq /\ task'[r].todo = task[r].todo
    BY <2>1 DEF PcOnly, Same, Alike
  <2>3. RowsAsDeployed'
    BY <2>2 DEF RowsAsDeployed, No
  <2>4. \A q \in Requests \ {r} : task'[q] = task[q] /\ task[q].op # "deploy"
    BY <1>0, <2>1 DEF Others
  <2>5. CreationsAsDeployed'
    BY <1>0, <2>1, <2>2, <2>4 DEF CreationsAsDeployed
  <2>6. \A s \in Syncs : (Live(s) /\ Scheduled(s)) => Reached(r, s)
    BY <1>0, <2>1 DEF DeploysReach
  <2>7. \A s \in Syncs : (Live(s)' /\ Scheduled(s)') => Reached(r, s)'
    BY <2>1, <2>2, <2>6 DEF Reached, On, Live, Scheduled
  <2>8. DeploysReach'
    BY <2>1, <2>4, <2>7 DEF DeploysReach, At
  <2> QED
    BY <2>3, <2>5, <2>8
<1>37. ASSUME NEW r \in Requests, WriteConfig(r)
      PROVE RowsAsDeployed' /\ CreationsAsDeployed' /\ DeploysReach'
  <2>1. /\ Others(r) /\ UNCHANGED <<row, status, frequency>> /\ task[r].op = "deploy"
        /\ config' = task[r].freq /\ PcOnly(task[r], task'[r]) /\ task[r].pc = "writeConfig"
    BY <1>37, WriteConfigStep DEF HandlersFit, OpFits, LoopFits, CreateLocations,
       DeleteLocations, Dropping, Creating
  <2>2. task'[r].op = "deploy" /\ task'[r].freq = task[r].freq /\ task'[r].todo = task[r].todo
    BY <2>1 DEF PcOnly, Same, Alike
  <2>3. RowsAsDeployed'
    BY <2>2 DEF RowsAsDeployed, No
  <2>4. \A q \in Requests \ {r} : task'[q] = task[q] /\ task[q].op \notin {"deploy", "create"}
    BY <1>0, <2>1 DEF Others
  <2>5. CreationsAsDeployed'
    BY <2>2, <2>4 DEF CreationsAsDeployed
  <2>6. \A s \in Syncs : (Live(s) /\ Scheduled(s)) => Reached(r, s)
    BY <1>0, <2>1 DEF DeploysReach
  <2>7. \A s \in Syncs : (Live(s)' /\ Scheduled(s)') => Reached(r, s)'
    BY <2>1, <2>2, <2>6 DEF Reached, On, Live, Scheduled
  <2>8. DeploysReach'
    BY <2>1, <2>2, <2>4, <2>7 DEF DeploysReach, At
  <2> QED
    BY <2>3, <2>5, <2>8
<1>38. ASSUME NEW r \in Requests, NEW preBuilt \in BOOLEAN, NEW auto \in BOOLEAN,
              Reconcile(r, preBuilt, auto)
      PROVE RowsAsDeployed' /\ CreationsAsDeployed' /\ DeploysReach'
  <2>1. /\ Others(r) /\ Still /\ task[r].op = "deploy" /\ task[r].pc = "reconcile"
              /\ task[r].todo = {}
        /\ task'[r] = Idle \/ (task'[r].op = "create" /\ task'[r].freq = task[r].freq)
    BY <1>38, ReconcileStep DEF HandlersFit, OpFits, LoopFits, CreateLocations,
       DeleteLocations, Dropping, Creating
  <2>2. task'[r].op # "deploy" /\ (task'[r].op = "create" => task'[r].freq = task[r].freq)
    BY <2>1 DEF Idle
  <2>3. config = task[r].freq
    BY <1>0, <2>1 DEF DeploysReach, At
  <2>4. \A s \in Syncs : (Live(s) /\ Scheduled(s)) => frequency[s] = config
    BY <1>0, <2>1, <2>3 DEF DeploysReach, Reached, On
  <2>5. RowsAsDeployed'
    BY <2>1, <2>4 DEF RowsAsDeployed, Still, Live, Scheduled
  <2>6. CreationsAsDeployed'
    BY <1>0, <2>1, <2>2, <2>3 DEF CreationsAsDeployed, Others, Still
  <2>7. \A q \in Requests : task'[q].op # "deploy"
    BY <1>0, <2>1, <2>2 DEF Others
  <2>8. DeploysReach'
    BY <2>7 DEF DeploysReach
  <2> QED
    BY <2>5, <2>6, <2>8
<1>39. ASSUME NEW r \in Requests, MarkAllAsStopped(r)
      PROVE RowsAsDeployed' /\ CreationsAsDeployed' /\ DeploysReach'
  <2>1. /\ Others(r) /\ UNCHANGED <<row, frequency, config>> /\ task[r].op = "list"
              /\ task'[r] = Idle
        /\ \A s \in Syncs : Scheduled(s)' => Scheduled(s)
    BY <1>39, MarkAllAsStoppedStep DEF Scheduled, HandlersFit, OpFits
  <2>2. Quiet(r)
    BY <2>1 DEF Idle, Quiet, Others, Still, Live, Scheduled
  <2> QED
    BY <1>0, <2>2, QuietKeeps
<1>40. ASSUME NEW r \in Requests, CallFails(r)
      PROVE RowsAsDeployed' /\ CreationsAsDeployed' /\ DeploysReach'
  <2>1. Others(r) /\ Still /\ task[r].op \notin {"deploy", "delete"}
    BY <1>40, CallFailsStep DEF RowsAlone
  <2>2. task'[r].op \in {task[r].op, "idle"} /\ task[r].op # "create"
    BY <1>40, CallFailsStep, LoopGoes, UpdateGoes DEF TypeOK, PcOnly, Same, Alike, HandlersFit,
       OpFits, LoopFits, CreateLocations, DeleteLocations, Dropping, Creating
  <2>3. Quiet(r)
    BY <2>1, <2>2 DEF Quiet, Others, Still, Live, Scheduled
  <2> QED
    BY <1>0, <2>3, QuietKeeps
<1>41. ASSUME NEW r \in Requests, CutShort(r)
      PROVE RowsAsDeployed' /\ CreationsAsDeployed' /\ DeploysReach'
  <2>1. Others(r) /\ Still /\ task'[r] = Idle /\ task[r].op \notin {"deploy", "delete"}
    BY <1>41, CutShortStep DEF RowsAlone
  <2>2. Quiet(r)
    BY <2>1 DEF Idle, Quiet, Others, Still, Live, Scheduled
  <2> QED
    BY <1>0, <2>2, QuietKeeps
<1>42. ASSUME NEW s \in Syncs, NEW outcome \in {"SUCCESS", "STOPPED"}, JobEnds(s, outcome)
      PROVE RowsAsDeployed' /\ CreationsAsDeployed' /\ DeploysReach'
  <2>1. UNCHANGED <<task, row, status, frequency, config>>
    BY <1>42 DEF JobEnds, syncVars, jobVars, temporalVars, scheduleVars, envVars
  <2> QED
    BY <1>0, <2>1 DEF RowsAsDeployed, CreationsAsDeployed, DeploysReach, At, Reached, On, No,
       Live, Scheduled
<1>43. CASE UNCHANGED vars
  <2>1. UNCHANGED <<task, row, status, frequency, config>>
    BY <1>43 DEF vars, syncVars, jobVars, temporalVars, scheduleVars, envVars
  <2> QED
    BY <1>0, <2>1 DEF RowsAsDeployed, CreationsAsDeployed, DeploysReach, At, Reached, On, No,
       Live, Scheduled
<1> QED
  BY <1>1, <1>2, <1>3, <1>4, <1>5, <1>6, <1>7, <1>8, <1>9, <1>10, <1>11, <1>12, <1>13, <1>14,
     <1>15, <1>16, <1>17, <1>18, <1>19, <1>20, <1>21, <1>22, <1>23, <1>24, <1>25, <1>26, <1>27,
     <1>28, <1>29, <1>30, <1>31, <1>32, <1>33, <1>34, <1>35, <1>36, <1>37, <1>38, <1>39, <1>40,
     <1>41, <1>42, <1>43, Cases DEF Acts, Arrivals

RowsInv == DeletionInv /\ RowsKept

LEMMA RowsInvAlways == Spec => []RowsInv
<1>1. Init => RowsKept
  BY DEF Init, RowsKept, RowsAsDeployed, CreationsAsDeployed, DeploysReach, Live, Idle
<1>2. DeletionInv /\ RowsKept /\ [Next]_vars => RowsKept'
  <2> SUFFICES ASSUME DeletionInv, RowsKept, Next \/ UNCHANGED vars PROVE RowsKept'
    OBVIOUS
  <2>1. ASSUME RowsAlone' PROVE RowsAsDeployed' /\ CreationsAsDeployed' /\ DeploysReach'
    BY <2>1, NextRowsReach DEF DeletionInv, CoreInv
  <2> QED
    BY <2>1 DEF RowsKept
<1> QED
  BY <1>1, <1>2, DeletionInvAlways, PTL DEF Spec, RowsInv

\* A deploy reaches every sync: where the failures and meetings that DeployReachesAll names
\* did not happen, Temporal runs a sync that no handler is at as often as its row says, and
\* with no deploy under way every row of a live sync says what the deployed flow does.
THEOREM DeploysReachAll == Spec => []DeployReachesAll
<1>1. TemporalInv => TemporalHasFrequency
  <2> SUFFICES ASSUME TemporalInv, TemporalAlone, NEW s \in Syncs, Scheduled(s), Exists(s), Untouched(s)
               PROVE  every[s] = frequency[s]
    BY DEF TemporalHasFrequency, TemporalAlone
  <2>1. \A r \in Requests : ~ Telling(r, s)
    BY DEF Untouched, Telling, On
  <2> QED
    BY <2>1 DEF TemporalInv, TemporalKept, IntervalsAgree
<1>2. RowsInv => RowHasFrequency
  BY DEF RowsInv, RowsKept, RowsAlone, RowOverlaps, RowsAsDeployed, RowHasFrequency, SyncsOf
<1> QED
  BY <1>1, <1>2, TemporalInvAlways, RowsInvAlways, PTL DEF DeployReachesAll

=============================================================================
