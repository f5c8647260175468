------------------------------- MODULE Deploy -------------------------------
(***************************************************************************)
(* The versions of the flows (syncs and actions) of one environment of the *)
(* cloud: deployed from the CLI or as a template, reconciled with what the *)
(* customer's folder holds, and deleted.                                   *)
(*                                                                         *)
(*   shared/lib/services/sync/config/deploy.service.ts    the deploys      *)
(*   shared/lib/services/sync/config/config.service.ts    _nango_sync_configs *)
(*   shared/lib/services/file/remote.service.ts           S3               *)
(*   server/lib/controllers/sync.controller.ts, flow.controller.ts         *)
(*   cli/lib/sync.ts                                      the customer     *)
(*                                                                         *)
(* Each action is one statement or one call of S3, with the code up to the *)
(* next.  What a deploy does to the syncs of a flow is SyncLifecycle's.    *)
(***************************************************************************)
EXTENDS Integers, FiniteSets, FiniteSetsExt

CONSTANTS
    NumFlows,       \* the flows, each of a provider config of its own
    MaxRequests,    \* bound: the requests made, two of them at a time
    MaxMishaps      \* bound: the requests that begin while another is under way, and
                    \* the statements and calls that fail

ASSUME FlowsAssumption == NumFlows \in Nat
ASSUME RequestsAssumption == MaxRequests \in Nat
ASSUME MishapsAssumption == MaxMishaps \in Nat

\* A flow is named by the id of its provider config; a file by the request that
\* brought it.
Flows == 1..NumFlows
Requests == 1..MaxRequests
Rows == 1..NumFlows * MaxRequests
NoRow == 0
NoFlow == 0
NoFile == 0
\* 1, 2, ... of a deploy and 0.0.1, 0.0.2, ... of a template.
Versions == {"int", "semver"} \X (1..MaxRequests)
NoVersion == <<"none", 0>>

VARIABLES
    row,        \* row -> its content in _nango_sync_configs
    file,       \* flow, version -> what S3 holds under its name
    source,     \* flow -> the TypeScript source beside it, whose name has no version
    configs,    \* the provider configs that are not deleted
    task,       \* request -> its local state
    begun,      \* bound: the requests so far
    mishaps,    \* bound: the overlaps and failures so far
    muddle      \* history: flow -> what has happened to it since it was deployed in order

vars == <<row, file, source, configs, task, begun, mishaps, muddle>>

\* What may set a flow's rows and files at odds: two requests at a time, a deploy
\* that ends between its two statements, a read whose error is swallowed, a version
\* that the customer chooses, the deletion of the files of a provider config, a deploy
\* that ends after it has uploaded the source, a source that could not be uploaded.
Reasons == {"overlap", "partial", "unread", "versionUnread", "given", "dropped", "ahead", "behind"}
Kinds == {"none", "deploy", "preBuilt", "deleteFlow", "deleteConfig"}
Locations == {"idle", "confirm", "flow", "upload", "source", "lastSource", "old", "insert", "deactivate",
              "reconcile", "files", "row", "configFiles", "configRows", "config"}

NewRow == [flow |-> NoFlow, version |-> NoVersion, code |-> NoFile, state |-> "none",
           custom |-> FALSE]

\* The locals of a request: the flows it deploys and those still to do, the versions
\* to insert, the rows to deactivate (old), those to delete (targets); and, for the
\* properties, the flows it may touch, those it was alone on, those the user was
\* told would be deleted.
Idle == [kind |-> "none", pc |-> "idle", flows |-> {}, todo |-> {}, given |-> NoVersion,
         single |-> FALSE, flow |-> NoFlow, insert |-> [f \in Flows |-> NoVersion],
         old |-> {}, targets |-> {}, shown |-> {}, alone |-> {}]

IsActive(x, f) == row[x].flow = f /\ row[x].state = "active"
ActiveRows(f) == {x \in Rows : IsActive(x, f)}
Used == {x \in Rows : row[x].state # "none"}

\* orderBy created_at desc, first
Newest(f) == Max(ActiveRows(f))

\* getActiveCustomSyncConfigsByEnvironmentId: a template is not custom.
CustomRows == {x \in Rows : row[x].state = "active" /\ row[x].custom /\ row[x].flow \in configs}
Missing(flows, single) == IF single THEN {} ELSE {x \in CustomRows : row[x].flow \notin flows}

At(r, pc) == task[r].pc = pc
Become(r, t) == task' = [task EXCEPT ![r] = t]
Goto(r, pc) == Become(r, [task[r] EXCEPT !.pc = pc])
End(r) == Become(r, Idle)
Fault == mishaps < MaxMishaps /\ mishaps' = mishaps + 1
Mark(fs, reason) == [f \in Flows |-> IF f \in fs THEN muddle[f] \cup {reason} ELSE muddle[f]]

Init ==
    /\ row = [x \in Rows |-> NewRow]
    /\ file = [fv \in Flows \X Versions |-> NoFile] /\ source = [f \in Flows |-> NoFile]
    /\ configs = Flows
    /\ task = [r \in Requests |-> Idle]
    /\ begun = 0 /\ mishaps = 0
    /\ muddle = [f \in Flows |-> {}]
-----------------------------------------------------------------------------
(* The requests.                                                           *)

Running == {r \in Requests : task[r] # Idle}

\* The flows a request may change: its reconciliation goes over all of them.
Touches(t) ==
    CASE t.kind = "deploy" -> IF t.single THEN t.flows ELSE Flows
      [] t.kind = "preBuilt" -> t.flows
      [] t.kind = "deleteFlow" -> {row[x].flow : x \in t.targets}
      [] t.kind = "deleteConfig" -> {t.flow}

\* The next request, t, sharing flows with the one under way, if any.
Begin(t, marked) ==
    LET r == begun + 1
        Shared(q) == Touches(t) \cap Touches(task[q])
        shared == UNION {Shared(q) : q \in Running}
    IN  /\ r \in Requests /\ Cardinality(Running) < 2
        /\ mishaps' = mishaps + Cardinality(Running) /\ mishaps' <= MaxMishaps
        /\ begun' = r
        /\ task' = [q \in Requests |->
                      IF q = r THEN [t EXCEPT !.alone = Touches(t) \ shared]
                      ELSE IF q \in Running THEN [task[q] EXCEPT !.alone = @ \ Shared(q)]
                      ELSE task[q]]
        /\ muddle' = [f \in Flows |-> muddle[f]
                        \cup (IF f \in shared THEN {"overlap"} ELSE {})
                        \cup (IF f \in marked THEN {"given"} ELSE {})]
        /\ UNCHANGED <<row, file, source, configs>>


\* sync.ts deploy: the folder's flows, or the one named by --sync; the confirmation
\* lists what the reconciliation would delete (--auto-confirm is a customer who
\* confirms at once).  A folder may be empty.
StartDeploy(flows, single, given) ==
    /\ single => Cardinality(flows) = 1
    /\ Begin([Idle EXCEPT !.kind = "deploy", !.flows = flows, !.todo = flows,
                          !.given = given, !.single = single, !.pc = "confirm",
                          !.shown = {row[x].flow : x \in Missing(flows, single)}],
             IF given = NoVersion THEN {} ELSE flows)

Confirmed(r) ==
    /\ At(r, "confirm") /\ Goto(r, "flow")
    /\ UNCHANGED <<row, file, source, configs, begun, mishaps, muddle>>

Declined(r) ==
    /\ At(r, "confirm") /\ End(r)
    /\ UNCHANGED <<row, file, source, configs, begun, mishaps, muddle>>

\* A template of the catalogue, or a private one that an administrator deploys.
DeployPreBuilt(f) ==
    /\ f \in configs
    /\ Begin([Idle EXCEPT !.kind = "preBuilt", !.flows = {f}, !.todo = {f},
                          !.pc = "flow"], {})

\* The row is one that the flows page lists.
DeleteFlow(x) ==
    /\ row[x].state = "active"
    /\ Begin([Idle EXCEPT !.kind = "deleteFlow", !.targets = {x}, !.pc = "files"], {})

DeleteProviderConfig(f) ==
    /\ f \in configs
    /\ Begin([Idle EXCEPT !.kind = "deleteConfig", !.flow = f, !.pc = "configFiles"], {})
-----------------------------------------------------------------------------
(* deploy and deployPreBuilt: the loop over the flows.                     *)

Rest == <<configs, begun>>
NoFault == UNCHANGED <<mishaps, muddle>>

Increment(v) == <<v[1], v[2] + 1>>

\* Mutant: the version is not bumped.
SameVersion(r, f) ==
    IF task[r].given # NoVersion THEN task[r].given
    ELSE IF ActiveRows(f) # {} THEN row[Newest(f)].version
    ELSE <<IF task[r].kind = "preBuilt" THEN "semver" ELSE "int", 1>>

\* version = optionalVersion || bumpedVersion || '1'
NextVersion(r, f) ==
    IF task[r].given # NoVersion THEN task[r].given
    ELSE IF ActiveRows(f) # {} THEN Increment(row[Newest(f)].version)
    ELSE <<IF task[r].kind = "preBuilt" THEN "semver" ELSE "int", 1>>

ChooseVersion(r, f, v) ==
    /\ At(r, "flow") /\ task[r].todo # {} /\ f = Min(task[r].todo) /\ f \in configs
    /\ Become(r, [task[r] EXCEPT !.pc = "upload", !.flow = f, !.insert[f] = v])

ReadPrevious(r, f) ==
    /\ ChooseVersion(r, f, NextVersion(r, f))
    /\ UNCHANGED <<row, file, source>> /\ UNCHANGED Rest /\ NoFault

\* getSyncAndActionConfigByParams swallows the error: as if the flow were new.
PreviousUnread(r, f) ==
    /\ task[r].given = NoVersion /\ Fault
    /\ ChooseVersion(r, f, <<IF task[r].kind = "preBuilt" THEN "semver" ELSE "int", 1>>)
    /\ muddle' = Mark({f}, "versionUnread")
    /\ UNCHANGED <<row, file, source>> /\ UNCHANGED Rest

\* The flows whose source is that of the request while no row says so.
Ahead(r) ==
    IF task[r].pc \in {"flow", "upload", "source", "lastSource", "old", "insert"}
    THEN (task[r].flows \ task[r].todo) \cup (IF At(r, "old") THEN {task[r].flow} ELSE {})
    ELSE {}

UnknownConfig(r, f) ==
    /\ At(r, "flow") /\ task[r].todo # {} /\ f = Min(task[r].todo) /\ f \notin configs
    /\ End(r)
    /\ muddle' = Mark(Ahead(r), "ahead")
    /\ UNCHANGED <<row, file, source, mishaps>> /\ UNCHANGED Rest

Upload(r) ==
    /\ At(r, "upload")
    /\ file' = [file EXCEPT ![<<task[r].flow, task[r].insert[task[r].flow]>>] = r]
    /\ Goto(r, "source")
    /\ UNCHANGED <<row, source>> /\ UNCHANGED Rest /\ NoFault

\* upload swallows the error; deploy looks at it only after the upload of the source.
UploadFails(r) ==
    /\ At(r, "upload") /\ task[r].kind = "deploy" /\ Fault
    /\ Goto(r, "lastSource")
    /\ UNCHANGED <<row, file, source, muddle>> /\ UNCHANGED Rest

\* upload, or copy for a template of the catalogue.
PutSource(r) == source' = [source EXCEPT ![task[r].flow] = r]

UploadSource(r) ==
    /\ At(r, "source") /\ Goto(r, "old")
    /\ PutSource(r)
    /\ UNCHANGED <<row, file>> /\ UNCHANGED Rest /\ NoFault

\* Whether this upload succeeds is never looked at.
SourceUploadFails(r) ==
    /\ At(r, "source") /\ Fault
    /\ Become(r, [task[r] EXCEPT !.pc = "old", !.alone = @ \ {task[r].flow}])
    /\ muddle' = Mark({task[r].flow}, "behind")
    /\ UNCHANGED <<row, file, source>> /\ UNCHANGED Rest

UploadLastSource(r) ==
    /\ At(r, "lastSource") /\ End(r)
    /\ PutSource(r)
    /\ muddle' = Mark((task[r].flows \ task[r].todo) \cup {task[r].flow}, "ahead")
    /\ UNCHANGED <<row, file, mishaps>> /\ UNCHANGED Rest

Found(r, old, alone) ==
    /\ At(r, "old")
    /\ LET todo == task[r].todo \ {task[r].flow}
       IN  Become(r, [task[r] EXCEPT !.pc = IF todo = {} THEN "insert" ELSE "flow",
                                     !.todo = todo, !.old = @ \cup old, !.alone = alone,
                                     !.flow = NoFlow])

ReadOld(r) ==
    /\ Found(r, ActiveRows(task[r].flow), task[r].alone)
    /\ UNCHANGED <<row, file, source>> /\ UNCHANGED Rest /\ NoFault

\* getSyncAndActionConfigsBySyncNameAndConfigId swallows the error.
OldUnread(r) ==
    /\ Found(r, {}, task[r].alone \ {task[r].flow}) /\ Fault
    /\ muddle' = Mark({task[r].flow}, "unread")
    /\ UNCHANGED <<row, file, source>> /\ UNCHANGED Rest
-----------------------------------------------------------------------------
(* The two statements on the rows.                                         *)

\* One insert of all the flows.
Insert(r) ==
    /\ At(r, "insert")
    /\ LET Id(f) == Cardinality(Used) + Cardinality({g \in task[r].flows : g <= f})
       IN  row' = [x \in Rows |->
                     IF \E f \in task[r].flows : Id(f) = x
                     THEN LET f == CHOOSE f \in task[r].flows : Id(f) = x
                          IN  [flow |-> f, version |-> task[r].insert[f], code |-> r,
                               state |-> "active", custom |-> task[r].kind = "deploy"]
                     ELSE row[x]]
    /\ Goto(r, "deactivate")
    /\ UNCHANGED <<file, source>> /\ UNCHANGED Rest /\ NoFault

Deactivated(old) ==
    [x \in Rows |-> IF x \in old /\ row[x].state = "active"
                    THEN [row[x] EXCEPT !.state = "inactive"] ELSE row[x]]

\* The locals that are not used any more are forgotten.
Deployed(r) ==
    IF task[r].kind = "deploy"
    THEN Become(r, [task[r] EXCEPT !.pc = "reconcile", !.old = {}, !.insert = Idle.insert])
    ELSE End(r)

\* The deploy is over: a flow it was alone on is in order again.
Deactivate(r) ==
    /\ At(r, "deactivate")
    /\ row' = Deactivated(task[r].old)
    /\ Deployed(r)
    /\ muddle' = [f \in Flows |-> IF f \in task[r].flows \cap task[r].alone THEN {}
                                  ELSE muddle[f]]
    /\ UNCHANGED <<file, source, mishaps>> /\ UNCHANGED Rest
-----------------------------------------------------------------------------
(* getAndReconcileDifferences and the deletions.                           *)

NextTarget(r, targets) ==
    IF targets = {} THEN End(r)
    ELSE Become(r, [task[r] EXCEPT !.pc = "files", !.targets = targets])

\* Mutant: --sync does not keep the others.
ReconcileAlways(r) ==
    /\ At(r, "reconcile") \/ (At(r, "flow") /\ task[r].flows = {})
    /\ NextTarget(r, Missing(task[r].flows, FALSE))
    /\ UNCHANGED <<row, file, source>> /\ UNCHANGED Rest /\ NoFault

\* A deploy of no flow at all inserts nothing and goes straight here.
ReconcileDifferences(r) ==
    /\ At(r, "reconcile") \/ (At(r, "flow") /\ task[r].flows = {})
    /\ NextTarget(r, Missing(task[r].flows, task[r].single))
    /\ UNCHANGED <<row, file, source>> /\ UNCHANGED Rest /\ NoFault

\* The files of the live rows of a provider config, whatever their flow; the sources
\* stay.
DeleteSyncFilesForConfig(id) ==
    /\ file' = [fv \in DOMAIN file |->
                  IF \E x \in Rows : /\ row[x].flow = id /\ row[x].flow = fv[1]
                                     /\ row[x].version = fv[2]
                                     /\ row[x].state \in {"active", "inactive"}
                  THEN NoFile ELSE file[fv]]
    /\ muddle' = Mark({id} \cap Flows, "dropped")

\* The other requests are not alone on the flow of these files.
Dropping(r, id, t) ==
    task' = [q \in Requests |-> IF q = r THEN t
                                ELSE [task[q] EXCEPT !.alone = @ \ {id}]]

\* deleteConfig passes the id of the row where that of a provider config is expected.
DropFiles(r, x) ==
    /\ At(r, "files") /\ x \in task[r].targets
    /\ DeleteSyncFilesForConfig(x)
    /\ Dropping(r, x, [task[r] EXCEPT !.pc = "row", !.old = {x}])
    /\ UNCHANGED <<row, source, mishaps>> /\ UNCHANGED Rest

FilesKept(r, x) ==
    /\ At(r, "files") /\ x \in task[r].targets /\ Fault
    /\ Become(r, [task[r] EXCEPT !.pc = "row", !.old = {x}])
    /\ UNCHANGED <<row, file, source, muddle>> /\ UNCHANGED Rest

DropRow(r) ==
    /\ At(r, "row")
    /\ row' = [x \in Rows |-> IF x \in task[r].old THEN [row[x] EXCEPT !.state = "deleted"]
                              ELSE row[x]]
    /\ NextTarget(r, task[r].targets \ task[r].old)
    /\ UNCHANGED <<file, source>> /\ UNCHANGED Rest /\ NoFault

DropConfigFiles(r) ==
    /\ At(r, "configFiles")
    /\ DeleteSyncFilesForConfig(task[r].flow)
    /\ Dropping(r, task[r].flow, [task[r] EXCEPT !.pc = "configRows"])
    /\ UNCHANGED <<row, source, mishaps>> /\ UNCHANGED Rest

ConfigFilesKept(r) ==
    /\ At(r, "configFiles") /\ Fault
    /\ Goto(r, "configRows")
    /\ UNCHANGED <<row, file, source, muddle>> /\ UNCHANGED Rest

\* Mutant: the update has no where clause.
DropEveryRow(r) ==
    /\ At(r, "configRows")
    /\ row' = [x \in Rows |-> [row[x] EXCEPT !.state = "deleted"]]
    /\ Goto(r, "config")
    /\ UNCHANGED <<file, source>> /\ UNCHANGED Rest /\ NoFault

DropConfigRows(r) ==
    /\ At(r, "configRows")
    /\ row' = [x \in Rows |-> IF row[x].flow = task[r].flow
                              THEN [row[x] EXCEPT !.state = "deleted"] ELSE row[x]]
    /\ Goto(r, "config")
    /\ UNCHANGED <<file, source>> /\ UNCHANGED Rest /\ NoFault

DropConfig(r) ==
    /\ At(r, "config")
    /\ configs' = configs \ {task[r].flow}
    /\ End(r)
    /\ UNCHANGED <<row, file, source, begun>> /\ NoFault

\* A statement or a call that is not swallowed fails, or the server stops.
Fails(r) ==
    /\ task[r] # Idle /\ ~At(r, "confirm") /\ Fault
    /\ End(r)
    /\ muddle' = IF At(r, "deactivate") THEN Mark(task[r].flows, "partial")
                 ELSE Mark(Ahead(r), "ahead")
    /\ UNCHANGED <<row, file, source>> /\ UNCHANGED Rest

Requested ==
    \/ \E flows \in SUBSET Flows, single \in BOOLEAN, given \in {NoVersion, <<"int", 1>>} :
          StartDeploy(flows, single, given)
    \/ \E f \in Flows : DeployPreBuilt(f)
    \/ \E x \in Rows : DeleteFlow(x)
    \/ \E f \in Flows : DeleteProviderConfig(f)

Step(r) ==
    \/ Confirmed(r)
    \/ Declined(r)
    \/ \E f \in Flows : ReadPrevious(r, f)
    \/ \E f \in Flows : PreviousUnread(r, f)
    \/ \E f \in Flows : UnknownConfig(r, f)
    \/ Upload(r)
    \/ UploadFails(r)
    \/ UploadSource(r)
    \/ SourceUploadFails(r)
    \/ UploadLastSource(r)
    \/ ReadOld(r)
    \/ OldUnread(r)
    \/ Insert(r)
    \/ Deactivate(r)
    \/ ReconcileDifferences(r)
    \/ \E x \in Rows : DropFiles(r, x)
    \/ \E x \in Rows : FilesKept(r, x)
    \/ DropRow(r)
    \/ DropConfigFiles(r)
    \/ ConfigFilesKept(r)
    \/ DropConfigRows(r)
    \/ DropConfig(r)
    \/ Fails(r)

Next == Requested \/ \E r \in Requests : Step(r)

Spec == Init /\ [][Next]_vars
-----------------------------------------------------------------------------
(* The properties.                                                         *)

TaskType ==
    [kind : Kinds, pc : Locations, flows : SUBSET Flows, todo : SUBSET Flows,
     given : Versions \cup {NoVersion}, single : BOOLEAN, flow : Flows \cup {NoFlow},
     insert : [Flows -> Versions \cup {NoVersion}], old : SUBSET Rows,
     targets : SUBSET Rows, shown : SUBSET Flows,
     alone : SUBSET Flows]

RowType ==
    [flow : Flows \cup {NoFlow}, version : Versions \cup {NoVersion},
     code : Requests \cup {NoFile}, state : {"none", "active", "inactive", "deleted"},
     custom : BOOLEAN]

\* The type of every variable; the two halves of a row agree.
TypeOK ==
    /\ \A x \in Rows : row[x] \in RowType /\ (row[x].state = "none" <=> row[x].flow = NoFlow)
    /\ file \in [Flows \X Versions -> Requests \cup {NoFile}]
    /\ source \in [Flows -> Requests \cup {NoFile}]
    /\ configs \subseteq Flows
    /\ \A r \in Requests : task[r] \in TaskType
    /\ begun \in 0..MaxRequests /\ mishaps \in 0..MaxMishaps
    /\ muddle \in [Flows -> SUBSET Reasons]

Inserting(f) == \E r \in Requests : At(r, "deactivate") /\ f \in task[r].flows

\* A flow has one active version, except within a deploy's two statements and after
\* two requests at a time, a deploy that ended between them, or a list of old rows
\* that could not be read; and the next deploy that nothing disturbs ends that.
OneActiveVersion ==
    \A f \in Flows : muddle[f] \cap {"overlap", "partial", "unread"} = {} =>
        Inserting(f) \/ Cardinality(ActiveRows(f)) <= 1

\* What runs for a flow is the code that was deployed as its active version, unless
\* the name of the file was given twice or the files were deleted with another flow.
ActiveVersionRunsItsCode ==
    \A f \in Flows :
        ActiveRows(f) # {} /\ muddle[f] \cap {"overlap", "versionUnread", "given", "dropped"} = {}
            => file[f, row[Newest(f)].version] = row[Newest(f)].code

\* getNangoConfigIdAndLocationFromId: the id is that of a row of the flows page.
Location(x) == IF row[x].state \in {"active", "inactive"} THEN row[x].flow ELSE NoFlow

\* zipAndSendFiles: the source that lies beside the file of the row.
ZipAndSendFiles(f) == IF f = NoFlow THEN NoFile ELSE source[f]

\* What the customer gets; the request only reads.
DownloadFlow(x) == ZipAndSendFiles(Location(x))

Deploying(f) ==
    \E r \in Requests : /\ f \in task[r].flows
                        /\ task[r].pc \in {"flow", "upload", "source", "lastSource", "old", "insert"}

\* The source that is sent for a flow is that of the version that runs, unless a deploy
\* of it is under way, or it ended after the upload of the source, or that upload failed,
\* or an older version is active again since one that was active with it was deleted.
SourceOfActiveVersion ==
    \A f \in Flows :
        (/\ ActiveRows(f) # {} /\ ~Deploying(f)
         /\ muddle[f] \cap {"overlap", "partial", "unread", "ahead", "behind"} = {})
            => DownloadFlow(Newest(f)) = row[Newest(f)].code

\* A flow that is active is one of a provider config that exists: a deletion leaves
\* none behind, whatever fails in it, unless a deploy was under way.
ActiveFlowHasConfig ==
    \A f \in Flows : ActiveRows(f) # {} /\ "overlap" \notin muddle[f] => f \in configs

\* The reconciliation deletes only what the customer was shown before he confirmed,
\* if nobody else changed the flow meanwhile.
DeletesWhatWasShown ==
    \A r \in Requests : task[r].kind = "deploy" /\ task[r].pc \in {"files", "row"} =>
        \A x \in task[r].targets :
            row[x].flow \in task[r].shown \cup (Touches(task[r]) \ task[r].alone)

\* What runs for a flow is one version, with the code of it, and the source sent for it
\* is the source of that code.
ActiveVersion == OneActiveVersion /\ ActiveVersionRunsItsCode /\ SourceOfActiveVersion

\* What is deleted is all that should be, and only what the customer confirmed.
DeletionsAreRight == ActiveFlowHasConfig /\ DeletesWhatWasShown
=============================================================================
