---------------------------- MODULE Integrations ----------------------------
(***************************************************************************)
(* The life of an integration, that is of the provider configs of one key: *)
(* created, edited, read, deleted, and created again, while customers      *)
(* authorise, deploy to it and delete connections.                         *)
(*                                                                         *)
(*   server/lib/controllers/config.controller.ts, onboarding.controller.ts *)
(*   shared/lib/services/config.service.ts                                 *)
(*                                                                         *)
(* Its rows hang together in two ways: a flow points at the id of a config *)
(* and a sync at that of a connection, whereas a connection names only the *)
(* key.  Each action is one statement with the code up to the next.  The   *)
(* flow is one sync; its files, versions and schedules are in Deploy and   *)
(* SyncLifecycle, the credentials in Connections.                          *)
(***************************************************************************)
EXTENDS Integers, FiniteSets

CONSTANTS
    Requests,           \* the requests that can be under way at once
    NumConfigs,         \* bound: the configs ever inserted
    NumConnections,     \* bound: the connections ever inserted
    NumSyncs,           \* bound: the syncs ever inserted
    MaxEvents           \* bound: the requests made, and the statements that fail

ASSUME RowsAssumption ==
    /\ NumConfigs \in Nat \ {0} /\ NumConnections \in Nat \ {0} /\ NumSyncs \in Nat \ {0}
ASSUME EventsAssumption == MaxEvents \in Nat

NoRow == 0
Configs == 1..NumConfigs
Connections == 1..NumConnections
Syncs == 1..NumSyncs

VARIABLES
    config,     \* id -> the state of the row in _nango_configs
    flows,      \* the configs with an active row in _nango_sync_configs
    conn,       \* id -> the state of the row in _nango_connections
    sync,       \* id -> the connection of the row in _nango_syncs
    dropped,    \* the syncs that are deleted
    task,       \* request -> its local state
    begun,      \* bound: the requests so far
    edited,     \* history: config -> the config its last editor had found
    under,      \* history: connection -> the config it was authorised with
    removed,    \* history: connection -> the config whose deletion took it along
    answers,    \* history: what reads have answered
    failed,     \* history: the places at which a statement failed
    overlaps    \* history: the kinds of requests that were under way together

rows == <<config, flows, conn, sync, dropped>>
history == <<edited, under, removed, answers, overlaps>>
vars == <<rows, task, begun, edited, under, removed, answers, failed, overlaps>>

Operations == {"create", "verify", "edit", "delete", "authorize", "disconnect", "deploy",
               "read", "list"}
Locations == {"idle", "check", "insert", "find", "update", "listSyncs", "dropSyncs",
              "dropFlows", "dropConfig", "dropConnections", "exchange", "connect",
              "initiate", "provider", "createSyncs", "findConnection", "disconnect",
              "target", "insertFlow", "listConnections", "config", "flowId", "flow",
              "rows", "configs"}

\* The locals of a handler: the config it has found, the connections and the syncs
\* it has still to see to, and of a read what it will answer.
Idle == [op |-> "idle", pc |-> "idle", id |-> NoRow, conns |-> {}, syncs |-> {}, of |-> NoRow]

Live == {i \in Configs : config[i] = "live"}
LiveConnections == {c \in Connections : conn[c] = "live"}
LiveSyncs == {s \in Syncs : sync[s] # NoRow} \ dropped

\* result[0] of a query: any of its rows, or nothing.
First(S) == IF S = {} THEN {NoRow} ELSE S

At(r, pc) == task[r].pc = pc
Become(r, t) == task' = [task EXCEPT ![r] = t]
Goto(r, pc) == Become(r, [task[r] EXCEPT !.pc = pc])
End(r) == Become(r, Idle)
Other == UNCHANGED <<begun, failed, overlaps>>

\* An integration, with its flow and a connection, may be there already.
Init ==
    /\ \E there \in BOOLEAN :
       /\ config = [i \in Configs |-> IF there /\ i = 1 THEN "live" ELSE "none"]
       /\ flows = IF there THEN {1} ELSE {}
       /\ conn = [c \in Connections |-> IF there /\ c = 1 THEN "live" ELSE "none"]
       /\ sync = [s \in Syncs |-> IF there /\ s = 1 THEN 1 ELSE NoRow]
       /\ under = [c \in Connections |-> IF there /\ c = 1 THEN 1 ELSE NoRow]
    /\ dropped = {} /\ task = [r \in Requests |-> Idle] /\ begun = 0
    /\ edited = [i \in Configs |-> i] /\ removed = [c \in Connections |-> NoRow]
    /\ answers = {} /\ failed = {} /\ overlaps = {}

(***************************************************************************)
(* createProviderConfig, and verify of the onboarding, which creates the   *)
(* demo's config unless it is there and deploys the demo's sync to it.     *)
(***************************************************************************)

CheckExisting(r) ==
    /\ At(r, "check")
    /\ IF Live = {} THEN Goto(r, "insert")
       ELSE IF task[r].op = "verify" THEN Goto(r, "target") ELSE End(r)
    /\ UNCHANGED <<rows, history>> /\ Other

\* The unique index has deleted_at, null in a live row: it stops nothing.
CreateProviderConfig(r) ==
    /\ At(r, "insert")
    /\ \E i \in Configs :
       /\ config[i] = "none" /\ \A j \in Configs : j < i => config[j] # "none"
       /\ config' = [config EXCEPT ![i] = "live"]
    /\ IF task[r].op = "verify" THEN Goto(r, "target") ELSE End(r)
    /\ UNCHANGED <<flows, conn, sync, dropped, history>> /\ Other

(***************************************************************************)
(* editProviderConfigWeb and editProviderConfig.                           *)
(***************************************************************************)

\* Mutant: an unknown key is not refused.
FoundOrNot(r, from, to) ==
    /\ At(r, from)
    /\ \E i \in First(Live) : Become(r, [task[r] EXCEPT !.pc = to, !.id = i])
    /\ UNCHANGED <<rows, history>> /\ Other

\* getProviderConfig of a handler that refuses an unknown key, and what it does next.
Found(r, from, to) ==
    /\ At(r, from)
    /\ \E i \in First(Live) :
          Become(r, IF i = NoRow THEN Idle ELSE [task[r] EXCEPT !.pc = to, !.id = i])
    /\ UNCHANGED <<rows, history>> /\ Other

FindEdited(r) == task[r].op = "edit" /\ Found(r, "find", "update")

\* The update goes by the key: it edits whatever is live by now.
EditProviderConfig(r) ==
    /\ At(r, "update")
    /\ edited' = [i \in Configs |-> IF i \in Live THEN task[r].id ELSE edited[i]]
    /\ End(r)
    /\ UNCHANGED <<rows, under, removed, answers>> /\ Other

(***************************************************************************)
(* deleteProviderConfig.                                                   *)
(***************************************************************************)

FindDeleted(r) == task[r].op = "delete" /\ Found(r, "find", "listSyncs")

\* getSyncsByProviderConfigKey joins the live connections of the key.
ListSyncs(r) ==
    /\ At(r, "listSyncs")
    /\ LET doomed == {s \in LiveSyncs : sync[s] \in LiveConnections} IN
       Become(r, [task[r] EXCEPT !.syncs = doomed, !.pc = IF doomed = {} THEN "dropFlows"
                                                          ELSE "dropSyncs"])
    /\ UNCHANGED <<rows, history>> /\ Other

\* deleteSync, one sync after the other, of an integration or of a connection.
DropSync(r) ==
    /\ At(r, "dropSyncs")
    /\ \E s \in task[r].syncs :
       /\ dropped' = dropped \union {s}
       /\ Become(r, [task[r] EXCEPT !.syncs = @ \ {s},
                     !.pc = IF task[r].syncs # {s} THEN @
                            ELSE IF task[r].op = "delete" THEN "dropFlows" ELSE "disconnect"])
    /\ UNCHANGED <<config, flows, conn, sync, history>> /\ Other

\* Mutant: the flows stay.
KeepFlows(r) == At(r, "dropFlows") /\ Goto(r, "dropConfig") /\ UNCHANGED <<rows, history>> /\ Other

\* deleteByConfigId, by the id that was found.
DropFlows(r) ==
    /\ At(r, "dropFlows")
    /\ flows' = flows \ {task[r].id}
    /\ Goto(r, "dropConfig")
    /\ UNCHANGED <<config, conn, sync, dropped, history>> /\ Other

DropConfig(r) ==
    /\ At(r, "dropConfig")
    /\ config' = [config EXCEPT ![task[r].id] = "deleted"]
    /\ Goto(r, "dropConnections")
    /\ UNCHANGED <<flows, conn, sync, dropped, history>> /\ Other

\* The connections go by the key, after the config has gone by its id.
DropConnections(r) ==
    /\ At(r, "dropConnections")
    /\ conn' = [c \in Connections |-> IF c \in LiveConnections THEN "deleted" ELSE conn[c]]
    /\ removed' = [c \in Connections |-> IF c \in LiveConnections THEN task[r].id ELSE removed[c]]
    /\ End(r)
    /\ UNCHANGED <<config, flows, sync, dropped, edited, under, answers>> /\ Other

(***************************************************************************)
(* A connection is authorised, and starts its syncs with initiate.         *)
(***************************************************************************)

\* The config of the start, and that of the callback, which reads it again.
FindTarget(r) == task[r].op = "authorize" /\ Found(r, "find", "exchange")

Exchange(r) == task[r].op = "authorize" /\ Found(r, "exchange", "connect")

InsertConnection(r) ==
    /\ At(r, "connect")
    /\ \E c \in Connections :
       /\ conn[c] = "none" /\ \A d \in Connections : d < c => conn[d] # "none"
       /\ conn' = [conn EXCEPT ![c] = "live"]
       /\ under' = [under EXCEPT ![c] = task[r].id]
       /\ Become(r, [task[r] EXCEPT !.pc = "initiate", !.conns = {c}])
    /\ UNCHANGED <<config, flows, sync, dropped, edited, removed, answers>> /\ Other

\* getSyncConfig: the flows of the config that has the key now; without any, or
\* without a config (it throws), nothing starts.
GetSyncConfig(r) ==
    /\ At(r, "initiate")
    /\ \E i \in First(Live) :
          IF i \in flows THEN Become(r, [task[r] EXCEPT !.pc = "provider", !.id = i]) ELSE End(r)
    /\ UNCHANGED <<rows, history>> /\ Other

\* initiate reads the config once more and passes it on as it comes.
GetProvider(r) ==
    /\ At(r, "provider")
    /\ Goto(r, "createSyncs")
    /\ UNCHANGED <<rows, history>> /\ Other

\* createSync of one connection, unless it has one.
CreateSync(r) ==
    /\ At(r, "createSyncs")
    /\ \E c \in task[r].conns :
       /\ IF \E s \in LiveSyncs : sync[s] = c THEN UNCHANGED sync
          ELSE \E s \in Syncs :
               /\ sync[s] = NoRow /\ \A q \in Syncs : q < s => sync[q] # NoRow
               /\ sync' = [sync EXCEPT ![s] = c]
       /\ IF task[r].conns = {c} THEN End(r)
          ELSE Become(r, [task[r] EXCEPT !.conns = @ \ {c}])
    /\ UNCHANGED <<config, flows, conn, dropped, history>> /\ Other

(***************************************************************************)
(* deleteConnection, and a deploy (Deploy has its statements in full).     *)
(***************************************************************************)

FindConnection(r) ==
    /\ At(r, "findConnection")
    /\ \E c \in First(LiveConnections) :
       LET mine == {s \in LiveSyncs : sync[s] = c} IN
       Become(r, IF c = NoRow THEN Idle
                 ELSE [task[r] EXCEPT !.conns = {c}, !.syncs = mine,
                       !.pc = IF mine = {} THEN "disconnect" ELSE "dropSyncs"])
    /\ UNCHANGED <<rows, history>> /\ Other

DropConnection(r) ==
    /\ At(r, "disconnect")
    /\ conn' = [c \in Connections |-> IF c \in task[r].conns THEN "deleted" ELSE conn[c]]
    /\ End(r)
    /\ UNCHANGED <<config, flows, sync, dropped, history>> /\ Other

FindDeployed(r) == Found(r, "target", "insertFlow")

\* A deploy goes on to start the sync of every connection, verify does not.
InsertFlow(r) ==
    /\ At(r, "insertFlow")
    /\ flows' = flows \union {task[r].id}
    /\ IF task[r].op = "verify" THEN End(r) ELSE Goto(r, "listConnections")
    /\ UNCHANGED <<config, conn, sync, dropped, history>> /\ Other

ListConnections(r) ==
    /\ At(r, "listConnections")
    /\ Become(r, IF LiveConnections = {} THEN Idle
                 ELSE [task[r] EXCEPT !.pc = "createSyncs", !.conns = LiveConnections])
    /\ UNCHANGED <<rows, history>> /\ Other

(***************************************************************************)
(* Answers: getProviderConfig shows a config with its flows, the lists of  *)
(* connections show the provider of each.                                  *)
(***************************************************************************)

FindShown(r) == task[r].op = "read" /\ Found(r, "config", "flowId")

\* getUniqueSyncsByProviderConfig and getActionsByProviderConfigKey look the id up anew.
FindFlows(r) ==
    /\ At(r, "flowId")
    /\ \E i \in First(Live) : Become(r, [task[r] EXCEPT !.pc = "flow", !.of = i])
    /\ UNCHANGED <<rows, history>> /\ Other

\* Mutant: the flows of every config are shown.
ShowAnyFlows(r) ==
    /\ At(r, "flow")
    /\ \E i \in First(flows) :
          answers' = answers \union {[shows |-> "flow", config |-> task[r].id, of |-> i]}
    /\ End(r)
    /\ UNCHANGED <<rows, edited, under, removed>> /\ Other

ShowFlows(r) ==
    /\ At(r, "flow")
    /\ LET of == IF task[r].of \in flows THEN task[r].of ELSE NoRow IN
       answers' = answers \union {[shows |-> "flow", config |-> task[r].id, of |-> of]}
    /\ End(r)
    /\ UNCHANGED <<rows, edited, under, removed>> /\ Other

ListRows(r) ==
    /\ At(r, "rows")
    /\ \E c \in First(LiveConnections) :
          Become(r, IF c = NoRow THEN Idle
                    ELSE [task[r] EXCEPT !.pc = "configs", !.of = under[c]])
    /\ UNCHANGED <<rows, history>> /\ Other

ListProviderConfigs(r) ==
    /\ At(r, "configs")
    /\ \E i \in First(Live) :
          answers' = answers \union {[shows |-> "connection", config |-> i, of |-> task[r].of]}
    /\ End(r)
    /\ UNCHANGED <<rows, edited, under, removed>> /\ Other

(***************************************************************************)
(* The specification.                                                      *)
(***************************************************************************)

FirstStep == [create |-> "check", verify |-> "check", edit |-> "find", delete |-> "find",
              authorize |-> "find", disconnect |-> "findConnection", deploy |-> "target",
              read |-> "config", list |-> "rows"]

Begin(r) ==
    /\ task[r] = Idle /\ begun + Cardinality(failed) < MaxEvents
    /\ begun' = begun + 1
    /\ \E op \in Operations :
       /\ Become(r, [Idle EXCEPT !.op = op, !.pc = FirstStep[op]])
       /\ overlaps' = overlaps \union
             {{op, task[q].op} : q \in {q \in Requests \ {r} : task[q] # Idle}}
    /\ UNCHANGED <<rows, edited, under, removed, answers, failed>>

\* Any statement may fail: the request ends with an error.
Fail(r) ==
    /\ task[r] # Idle /\ begun + Cardinality(failed) < MaxEvents
    /\ failed' = failed \union {task[r].pc} /\ End(r)
    /\ UNCHANGED <<rows, history, begun>>

Step(r) ==
    \/ CheckExisting(r) \/ CreateProviderConfig(r)
    \/ FindEdited(r) \/ EditProviderConfig(r)
    \/ FindDeleted(r) \/ ListSyncs(r) \/ DropSync(r) \/ DropFlows(r) \/ DropConfig(r)
    \/ DropConnections(r)
    \/ FindTarget(r) \/ Exchange(r) \/ InsertConnection(r) \/ GetSyncConfig(r)
    \/ GetProvider(r) \/ CreateSync(r)
    \/ FindConnection(r) \/ DropConnection(r)
    \/ FindDeployed(r) \/ InsertFlow(r) \/ ListConnections(r)
    \/ FindShown(r) \/ FindFlows(r) \/ ShowFlows(r)
    \/ ListRows(r) \/ ListProviderConfigs(r)

Next == \E r \in Requests : Begin(r) \/ Step(r) \/ Fail(r)

Spec == Init /\ [][Next]_vars

(***************************************************************************)
(* Properties.                                                             *)
(***************************************************************************)

\* Every variable has its type; a flow, a connection and a sync have an owner that
\* was inserted before them.
TypeOK ==
    /\ config \in [Configs -> {"none", "live", "deleted"}]
    /\ conn \in [Connections -> {"none", "live", "deleted"}]
    /\ flows \subseteq {i \in Configs : config[i] # "none"}
    /\ \A s \in Syncs : sync[s] # NoRow => sync[s] \in Connections /\ conn[sync[s]] # "none"
    /\ \A c \in Connections : conn[c] # "none" => under[c] \in Configs
    /\ dropped \subseteq Syncs /\ begun \in 0..MaxEvents /\ failed \subseteq Locations
    /\ \A r \in Requests :
       /\ task[r].op \in Operations \union {"idle"} /\ task[r].pc \in Locations
       /\ task[r].id \in Configs \union {NoRow} /\ task[r].of \in Configs \union {NoRow}
       /\ task[r].conns \subseteq Connections /\ task[r].syncs \subseteq Syncs

Creators == {"create", "verify"}
Together(S, T) == \E s \in S, t \in T : {s, t} \in overlaps
CreatedTwice == Together(Creators, Creators)
\* A connection may outlive its config, and pass to the next one of the key.
LeftBehind == "dropConnections" \in failed \/ Together({"delete"}, {"authorize"})

\* At most one live config has the key (the unknown_provider_config and
\* duplicate_provider_config answers of the controller rely on it), unless two
\* creations of it have met.
OneIntegration == Cardinality(Live) <= 1 \/ CreatedTwice

\* Nothing of a deleted integration is left once no request is under way: no flow
\* (unless a deploy met the deletion), no connection and no sync (unless a deploy,
\* an authorisation or a deletion of a connection met it or each other, or the
\* deletion failed between the config and the connections, when it cannot be
\* repeated).  A deletion that fails before can be, and then it is complete.
DeletionIsComplete ==
    (\A r \in Requests : task[r] = Idle) =>
    \A i \in {i \in Configs : config[i] = "deleted"} :
       /\ i \notin flows \/ Together({"delete"}, {"deploy", "verify"})
       /\ \A c \in LiveConnections :
             under[c] # i \/ LeftBehind
       /\ \A s \in LiveSyncs :
             under[sync[s]] # i \/ "dropConnections" \in failed
             \/ Together({"delete", "disconnect"}, {"deploy", "authorize"})

\* A request changes the integration it has found and no other: an edit edits the
\* config it read, a deletion takes along the connections of the config it marked
\* (both statements go by the key), unless the key got another config while the
\* request was under way, or an earlier deletion left the connection behind.
OnlyWhatWasFound ==
    /\ \A i \in Configs : edited[i] = i \/ Together({"edit"}, Creators) \/ CreatedTwice
    /\ \A c \in Connections :
          removed[c] \in {NoRow, under[c]} \/ Together({"delete"}, Creators) \/ CreatedTwice
          \/ LeftBehind

\* An answer fits together: the flows shown with a config are its own, unless the
\* key got another config during the read; a connection is shown with the provider
\* of its integration, unless a deletion met the read or left the connection behind.
AnswersAgree ==
    \A a \in answers :
    \/ a.config = a.of
    \/ a.shows = "flow" /\ (a.of = NoRow \/ Together({"read"}, Creators) \/ CreatedTwice)
    \/ a.shows = "connection" /\ (LeftBehind \/ CreatedTwice \/ Together({"delete"}, {"list"}))

\* A key has one integration, and what hangs on it goes with it.
IntegrationIsWhole == OneIntegration /\ DeletionIsComplete

\* A request is about one integration from its first statement to its answer.
RequestsFit == OnlyWhatWasFound /\ AnswersAgree
=============================================================================
