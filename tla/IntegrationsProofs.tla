------------------------- MODULE IntegrationsProofs -------------------------
(***************************************************************************)
(* Theorems about Integrations, for any requests and any number of         *)
(* configs, connections, syncs and events.                                 *)
(*                                                                         *)
(* After them, theorems about Pagination, for any collection and any       *)
(* limit, cap and filter of its pages.  The two components share no name:  *)
(* each theorem is about the one whose specification it names.             *)
(***************************************************************************)
EXTENDS Integrations, Pagination, FiniteSetTheorems, WellFoundedInduction, TLAPS

(***************************************************************************)
(* What holds of the rows and of every request, however they meet.         *)
(***************************************************************************)

Locals ==
    [op : Operations \union {"idle"}, pc : Locations, id : Configs \union {NoRow},
     conns : SUBSET Connections, syncs : SUBSET Syncs, of : Configs \union {NoRow}]

\* The variables of which TypeOK says less than this.
Shapes ==
    /\ task \in [Requests -> Locals]
    /\ sync \in [Syncs -> Connections \union {NoRow}]
    /\ under \in [Connections -> Configs \union {NoRow}]
    /\ removed \in [Connections -> Configs \union {NoRow}]
    /\ edited \in [Configs -> Configs]
    /\ answers \subseteq [shows : {"flow", "connection"}, config : Configs \union {NoRow},
                          of : Configs \union {NoRow}]
    /\ IsFiniteSet(failed)

\* The awaits of each kind of request.
PlacesOf == [
    create |-> {"check", "insert"},
    verify |-> {"check", "insert", "target", "insertFlow"},
    edit |-> {"find", "update"},
    delete |-> {"find", "listSyncs", "dropSyncs", "dropFlows", "dropConfig", "dropConnections"},
    authorize |-> {"find", "exchange", "connect", "initiate", "provider", "createSyncs"},
    disconnect |-> {"findConnection", "dropSyncs", "disconnect"},
    deploy |-> {"target", "insertFlow", "listConnections", "createSyncs"},
    read |-> {"config", "flowId", "flow"},
    list |-> {"rows", "configs"},
    idle |-> {"idle"}]

\* The awaits of a request that has found its config.
HasFound == {"update", "listSyncs", "dropFlows", "dropConfig", "dropConnections", "exchange",
             "connect", "provider", "insertFlow", "flowId", "flow"}

RequestFits(r) ==
    LET t == task[r] IN
    /\ t.pc \in PlacesOf[t.op]
    /\ t.pc = "idle" => t = Idle
    /\ t.pc \in HasFound \/ (t.op = "delete" /\ t.pc = "dropSyncs") =>
          t.id \in Configs /\ config[t.id] # "none"
    /\ \A c \in t.conns : conn[c] # "none"
    /\ \A s \in t.syncs : sync[s] # NoRow

AllFit == \A r \in Requests : RequestFits(r)

MeetingsKnown ==
    \A r, q \in Requests :
       r # q /\ task[r].pc # "idle" /\ task[q].pc # "idle" => {task[r].op, task[q].op} \in overlaps

CoreInv == TypeOK /\ Shapes /\ AllFit /\ MeetingsKnown

(***************************************************************************)
(* One config has the key.                                                 *)
(***************************************************************************)

OneConfig ==
    CreatedTwice \/ ( /\ \A i, j \in Live : i = j
                      /\ \A r \in Requests : task[r].pc = "insert" => Live = {} )

(***************************************************************************)
(* Flows, connections and syncs go with their config.                      *)
(***************************************************************************)

FlowsGo ==
    Together({"delete"}, {"deploy", "verify"})
    \/ ( /\ \A i \in flows : config[i] = "live"
         /\ \A r \in Requests :
               /\ task[r].pc = "dropConfig" => task[r].id \notin flows
               /\ task[r].pc = "insertFlow" => config[task[r].id] = "live" )

ConnectionsGo ==
    LeftBehind
    \/ ( /\ \/ \A c \in LiveConnections : config[under[c]] = "live"
            \/ \E r \in Requests : task[r].pc = "dropConnections"
         /\ \A r \in Requests : task[r].pc = "connect" => config[task[r].id] = "live" )

SyncsSurvive ==
    "dropConnections" \in failed \/ Together({"delete", "disconnect"}, {"deploy", "authorize"})

\* No sync is made while a deletion lists and drops those there are.
DropsAll(r) ==
    LET t == task[r] IN
    /\ t.op \in {"deploy", "authorize"} => \A c \in t.conns : conn[c] = "live"
    /\ t.op = "delete" /\ t.pc = "dropSyncs" => LiveSyncs \subseteq t.syncs
    /\ t.pc \in {"dropFlows", "dropConfig", "dropConnections"} => LiveSyncs = {}
    /\ t.op = "disconnect" /\ t.pc = "dropSyncs" =>
          \A s \in LiveSyncs : sync[s] \in t.conns => s \in t.syncs
    /\ t.pc = "disconnect" => \A s \in LiveSyncs : sync[s] \notin t.conns

SyncsGo ==
    SyncsSurvive
    \/ ( /\ \A s \in LiveSyncs : conn[sync[s]] = "live"
         /\ \A r \in Requests : DropsAll(r) )

WholeInv == CoreInv /\ OneConfig /\ FlowsGo /\ ConnectionsGo /\ SyncsGo

(***************************************************************************)
(* A request stays with the config it has found.                           *)
(***************************************************************************)

EditsFit ==
    Together({"edit"}, Creators) \/ CreatedTwice
    \/ ( /\ \A i \in Configs : edited[i] = i
         /\ \A r \in Requests : task[r].pc = "update" => \A i \in Live : i = task[r].id )

RemovalsFit ==
    Together({"delete"}, Creators) \/ CreatedTwice \/ LeftBehind
    \/ ( /\ \A c \in Connections : removed[c] \in {NoRow, under[c]}
         /\ \A r \in Requests :
               task[r].op = "delete" /\ task[r].pc # "find" =>
                  /\ \A i \in Live : i = task[r].id
                  /\ \A c \in LiveConnections : under[c] = task[r].id )

NoneRemoved == \A c \in Connections : conn[c] = "none" => removed[c] = NoRow

FlowsShown ==
    Together({"read"}, Creators) \/ CreatedTwice
    \/ ( /\ \A a \in answers : a.shows = "flow" => a.of \in {a.config, NoRow}
         /\ \A r \in Requests :
               /\ task[r].pc = "flowId" => \A i \in Live : i = task[r].id
               /\ task[r].pc = "flow" => task[r].of \in {task[r].id, NoRow} )

ConnectionsShown ==
    LeftBehind \/ CreatedTwice \/ Together({"delete"}, {"list"})
    \/ ( /\ \A a \in answers : a.shows = "connection" => a.of = a.config
         /\ \A r \in Requests : task[r].pc = "configs" => task[r].of \in Live )

FitInv ==
    WholeInv /\ EditsFit /\ RemovalsFit /\ NoneRemoved /\ FlowsShown /\ ConnectionsShown
(***************************************************************************)
(* The steps.                                                              *)
(***************************************************************************)

\* What a request has in its hands after a step, unless it has ended.
Arrives(r, t) ==
    LET s == task[r] IN
    /\ s.pc # "idle" /\ t.op = s.op /\ t.pc \in PlacesOf[t.op]
    /\ t.pc \in {"insert", "update", "listSyncs", "exchange", "connect", "provider",
                 "insertFlow", "flowId", "flow", "configs"} => UNCHANGED rows
    /\ t.pc = "insert" => Live = {}
    /\ t.pc \in {"update", "listSyncs", "exchange", "connect", "provider", "insertFlow",
                 "flowId"} => t.id \in Live
    /\ t.pc = "flow" => s.pc = "flowId" /\ t.id = s.id /\ t.of \in Live \union {NoRow}
    /\ t.pc = "configs" => \E c \in LiveConnections : t.of = under[c]
    /\ t.op = "delete" => t.pc = "listSyncs" \/ (t.id = s.id /\ s.pc # "find")
    /\ t.pc = "dropConfig" => DropFlows(r)
    /\ t.pc = "dropConnections" => DropConfig(r)
    /\ \A c \in t.conns : c \in s.conns \/ conn'[c] = "live"
    /\ t.syncs \subseteq s.syncs \union LiveSyncs

\* Of the deletions of syncs: those still to drop are those that were listed.
Dropping(r, t) ==
    LET s == task[r] IN
    /\ t.op = "delete" /\ t.pc \in {"dropSyncs", "dropFlows"} =>
          \/ /\ s.pc = "listSyncs" /\ UNCHANGED rows
             /\ t.syncs = {x \in LiveSyncs : sync[x] \in LiveConnections}
             /\ t.pc = "dropFlows" => t.syncs = {}
          \/ /\ s.pc = "dropSyncs"
             /\ \E x \in s.syncs : /\ dropped' = dropped \union {x} /\ t.syncs = s.syncs \ {x}
                                   /\ t.pc = "dropFlows" => t.syncs = {}
    /\ t.op = "disconnect" =>
          \/ /\ s.pc = "findConnection" /\ UNCHANGED rows
             /\ \E c \in LiveConnections : /\ t.conns = {c}
                                           /\ t.syncs = {x \in LiveSyncs : sync[x] = c}
                                           /\ t.pc = "disconnect" => t.syncs = {}
          \/ /\ s.pc = "dropSyncs" /\ t.conns = s.conns
             /\ \E x \in s.syncs : /\ dropped' = dropped \union {x} /\ t.syncs = s.syncs \ {x}
                                   /\ t.pc = "disconnect" => t.syncs = {}

LEMMA NoRowIsNone == NoRow \notin Configs /\ NoRow \notin Connections /\ NoRow \notin Syncs
BY DEF NoRow, Configs, Connections, Syncs

LEMMA IdleIsLocals == Idle \in Locals
BY DEF Idle, Locals, Locations

\* The kinds of request that a place belongs to.
LEMMA KindsOfPlaces ==
    ASSUME CoreInv, NEW r \in Requests
    PROVE  /\ task[r].pc \in {"check", "insert"} => task[r].op \in {"create", "verify"}
           /\ task[r].pc = "update" => task[r].op = "edit"
           /\ task[r].pc \in {"listSyncs", "dropFlows", "dropConfig", "dropConnections"}
              => task[r].op = "delete"
           /\ task[r].pc = "dropSyncs" => task[r].op \in {"delete", "disconnect"}
           /\ task[r].pc \in {"exchange", "connect", "initiate", "provider"}
              => task[r].op = "authorize"
           /\ task[r].pc = "createSyncs" => task[r].op \in {"authorize", "deploy"}
           /\ task[r].pc \in {"findConnection", "disconnect"} => task[r].op = "disconnect"
           /\ task[r].pc \in {"target", "insertFlow"} => task[r].op \in {"verify", "deploy"}
           /\ task[r].pc = "listConnections" => task[r].op = "deploy"
           /\ task[r].pc \in {"config", "flowId", "flow"} => task[r].op = "read"
           /\ task[r].pc \in {"rows", "configs"} => task[r].op = "list"
           /\ task[r].pc = "idle" <=> task[r].op = "idle"
<1>1. task[r].pc \in PlacesOf[task[r].op] /\ task[r].op \in Operations \union {"idle"}
  BY DEF CoreInv, AllFit, RequestFits, TypeOK
<1> QED
  BY <1>1 DEF PlacesOf, Operations

LEMMA Becomes ==
    ASSUME Shapes, NEW r \in Requests, NEW t, Become(r, t)
    PROVE  task'[r] = t /\ \A q \in Requests : q # r => task'[q] = task[q]
BY DEF Shapes, Become

\* Every statement leads a request to its next one.
LEMMA StepArrives ==
    ASSUME CoreInv, NEW r \in Requests, Step(r)
    PROVE  \E t \in Locals : /\ Become(r, t)
                             /\ t = Idle \/ (Arrives(r, t) /\ Dropping(r, t))
<1> USE DEF Locals
<1> DEFINE Goal == \E t \in Locals : /\ Become(r, t)
                                     /\ t = Idle \/ (Arrives(r, t) /\ Dropping(r, t))
<1> DEFINE s == task[r]
<1>a. s \in Locals
  BY DEF CoreInv, Shapes
<1>b. Become(r, Idle) => Goal
  BY IdleIsLocals
<1>c. /\ Live \subseteq Configs /\ LiveConnections \subseteq Connections
      /\ LiveSyncs \subseteq Syncs /\ NoRow \notin Live /\ NoRow \notin LiveConnections
  BY NoRowIsNone DEF Live, LiveConnections, LiveSyncs
<1>d. /\ s.pc \in {"check", "insert"} => s.op \in {"create", "verify"}
      /\ s.pc \in {"listSyncs", "dropFlows", "dropConfig"} => s.op = "delete"
      /\ s.pc = "dropSyncs" => s.op \in {"delete", "disconnect"}
      /\ s.pc \in {"connect", "initiate", "provider"} => s.op = "authorize"
      /\ s.pc = "createSyncs" => s.op \in {"authorize", "deploy"}
      /\ s.pc = "findConnection" => s.op = "disconnect"
      /\ s.pc \in {"target", "insertFlow"} => s.op \in {"verify", "deploy"}
      /\ s.pc = "listConnections" => s.op = "deploy"
      /\ s.pc = "flowId" => s.op = "read"
      /\ s.pc = "rows" => s.op = "list"
  BY KindsOfPlaces
<1>1. CASE CheckExisting(r)
  <2>1. CASE Live = {}
    <3> DEFINE t == [s EXCEPT !.pc = "insert"]
    <3>1. Become(r, t)
      BY <1>1, <2>1 DEF CheckExisting, Goto
    <3>2. s.pc = "check" /\ s.op \in {"create", "verify"}
      BY <1>1, <2>1, <1>d DEF CheckExisting, At, Found
    <3>3. t \in Locals
      BY <1>a, <1>c DEF Locations
    <3>4. /\ t.op = s.op /\ t.pc = "insert" /\ t.id = s.id
          /\ t.conns = s.conns /\ t.syncs = s.syncs /\ t.of = s.of
      BY <1>a
    <3> HIDE DEF t
    <3>5. Arrives(r, t)
      BY <1>1, <2>1, <3>2, <3>4 DEF Arrives, PlacesOf, CheckExisting
    <3>6. Dropping(r, t)
      BY <3>2, <3>4 DEF Dropping
    <3> QED
      BY <3>1, <3>3, <3>5, <3>6
  <2>2. CASE Live # {} /\ s.op = "verify"
    <3> DEFINE t == [s EXCEPT !.pc = "target"]
    <3>1. Become(r, t)
      BY <1>1, <2>2 DEF CheckExisting, Goto
    <3>2. s.pc = "check" /\ s.op = "verify"
      BY <1>1, <2>2, <1>d DEF CheckExisting, At, Found
    <3>3. t \in Locals
      BY <1>a, <1>c DEF Locations
    <3>4. /\ t.op = s.op /\ t.pc = "target" /\ t.id = s.id
          /\ t.conns = s.conns /\ t.syncs = s.syncs /\ t.of = s.of
      BY <1>a
    <3> HIDE DEF t
    <3>5. Arrives(r, t)
      BY <1>1, <2>2, <3>2, <3>4, <1>c DEF Arrives, PlacesOf
    <3>6. Dropping(r, t)
      BY <3>2, <3>4 DEF Dropping
    <3> QED
      BY <3>1, <3>3, <3>5, <3>6
  <2>3. CASE Live # {} /\ s.op # "verify"
    BY <1>1, <2>3, <1>b DEF CheckExisting, Goto, End
  <2> QED
    BY <2>1, <2>2, <2>3
<1>2. CASE CreateProviderConfig(r)
  <2>1. CASE s.op = "verify"
    <3> DEFINE t == [s EXCEPT !.pc = "target"]
    <3>1. Become(r, t)
      BY <1>2, <2>1 DEF CreateProviderConfig, Goto
    <3>2. s.pc = "insert" /\ s.op = "verify"
      BY <1>2, <2>1, <1>d DEF CreateProviderConfig, At, Found
    <3>3. t \in Locals
      BY <1>a, <1>c DEF Locations
    <3>4. /\ t.op = s.op /\ t.pc = "target" /\ t.id = s.id
          /\ t.conns = s.conns /\ t.syncs = s.syncs /\ t.of = s.of
      BY <1>a
    <3> HIDE DEF t
    <3>5. Arrives(r, t)
      BY <1>2, <2>1, <3>2, <3>4 DEF Arrives, PlacesOf
    <3>6. Dropping(r, t)
      BY <3>2, <3>4 DEF Dropping
    <3> QED
      BY <3>1, <3>3, <3>5, <3>6
  <2>2. CASE s.op # "verify"
    BY <1>2, <2>2, <1>b DEF CreateProviderConfig, Goto, End
  <2> QED
    BY <2>1, <2>2
<1>3. CASE FindEdited(r)
  <2>1. PICK i \in First(Live) :
            /\ Become(r, IF i = NoRow THEN Idle ELSE [s EXCEPT !.pc = "update", !.id = i])
            /\ UNCHANGED rows
    BY <1>3 DEF FindEdited, Found
  <2>2. CASE i = NoRow
    BY <2>1, <2>2, <1>b
  <2>3. CASE i # NoRow
    <3>0. i \in Live
      BY <2>1, <2>3, <1>c DEF First
    <3> DEFINE t == [s EXCEPT !.pc = "update", !.id = i]
    <3>1. Become(r, t)
      BY <1>3, <2>1, <2>3, <3>0 DEF FindEdited, Found, Goto
    <3>2. s.pc = "find" /\ s.op = "edit"
      BY <1>3, <2>1, <2>3, <3>0, <1>d DEF FindEdited, Found, At, Found
    <3>3. t \in Locals
      BY <1>a, <1>c, <3>0 DEF Locations
    <3>4. /\ t.op = s.op /\ t.pc = "update" /\ t.id = i
          /\ t.conns = s.conns /\ t.syncs = s.syncs /\ t.of = s.of
      BY <1>a
    <3> HIDE DEF t
    <3>5. Arrives(r, t)
      BY <1>3, <2>1, <2>3, <3>0, <3>2, <3>4 DEF Arrives, PlacesOf
    <3>6. Dropping(r, t)
      BY <3>2, <3>4 DEF Dropping
    <3> QED
      BY <3>1, <3>3, <3>5, <3>6
  <2> QED
    BY <2>2, <2>3
<1>4. CASE EditProviderConfig(r)
  BY <1>4, <1>b DEF EditProviderConfig, End
<1>5. CASE FindDeleted(r)
  <2>1. PICK i \in First(Live) :
            /\ Become(r, IF i = NoRow THEN Idle ELSE [s EXCEPT !.pc = "listSyncs", !.id = i])
            /\ UNCHANGED rows
    BY <1>5 DEF FindDeleted, Found
  <2>2. CASE i = NoRow
    BY <2>1, <2>2, <1>b
  <2>3. CASE i # NoRow
    <3>0. i \in Live
      BY <2>1, <2>3, <1>c DEF First
    <3> DEFINE t == [s EXCEPT !.pc = "listSyncs", !.id = i]
    <3>1. Become(r, t)
      BY <1>5, <2>1, <2>3, <3>0 DEF FindDeleted, Found, Goto
    <3>2. s.pc = "find" /\ s.op = "delete"
      BY <1>5, <2>1, <2>3, <3>0, <1>d DEF FindDeleted, Found, At, Found
    <3>3. t \in Locals
      BY <1>a, <1>c, <3>0 DEF Locations
    <3>4. /\ t.op = s.op /\ t.pc = "listSyncs" /\ t.id = i
          /\ t.conns = s.conns /\ t.syncs = s.syncs /\ t.of = s.of
      BY <1>a
    <3> HIDE DEF t
    <3>5. Arrives(r, t)
      BY <1>5, <2>1, <2>3, <3>0, <3>2, <3>4 DEF Arrives, PlacesOf
    <3>6. Dropping(r, t)
      BY <3>2, <3>4 DEF Dropping
    <3> QED
      BY <3>1, <3>3, <3>5, <3>6
  <2> QED
    BY <2>2, <2>3
<1>6. CASE ListSyncs(r)
  <2> DEFINE doomed == {x \in LiveSyncs : sync[x] \in LiveConnections}
  <2>0. doomed \subseteq LiveSyncs
    OBVIOUS
  <2>1. CASE doomed = {}
    <3> DEFINE t == [s EXCEPT !.pc = "dropFlows", !.syncs = doomed]
    <3>1. Become(r, t)
      BY <1>6, <2>1 DEF ListSyncs, Goto
    <3>2. s.pc = "listSyncs" /\ s.op = "delete"
      BY <1>6, <2>1, <1>d DEF ListSyncs, At, Found
    <3>3. t \in Locals
      BY <1>a, <1>c, <2>0 DEF Locations
    <3>4. /\ t.op = s.op /\ t.pc = "dropFlows" /\ t.id = s.id
          /\ t.conns = s.conns /\ t.syncs = doomed /\ t.of = s.of
      BY <1>a
    <3> HIDE DEF t
    <3>5. Arrives(r, t)
      BY <1>6, <2>1, <3>2, <3>4, <2>0 DEF Arrives, PlacesOf, ListSyncs
    <3>6. Dropping(r, t)
      BY <3>2, <3>4, <1>6, <2>1, <2>0 DEF Dropping, ListSyncs
    <3> QED
      BY <3>1, <3>3, <3>5, <3>6
  <2>2. CASE doomed # {}
    <3> DEFINE t == [s EXCEPT !.pc = "dropSyncs", !.syncs = doomed]
    <3>1. Become(r, t)
      BY <1>6, <2>2 DEF ListSyncs, Goto
    <3>2. s.pc = "listSyncs" /\ s.op = "delete"
      BY <1>6, <2>2, <1>d DEF ListSyncs, At, Found
    <3>3. t \in Locals
      BY <1>a, <1>c, <2>0 DEF Locations
    <3>4. /\ t.op = s.op /\ t.pc = "dropSyncs" /\ t.id = s.id
          /\ t.conns = s.conns /\ t.syncs = doomed /\ t.of = s.of
      BY <1>a
    <3> HIDE DEF t
    <3>5. Arrives(r, t)
      BY <1>6, <2>2, <3>2, <3>4, <2>0 DEF Arrives, PlacesOf, ListSyncs
    <3>6. Dropping(r, t)
      BY <3>2, <3>4, <1>6, <2>2, <2>0 DEF Dropping, ListSyncs
    <3> QED
      BY <3>1, <3>3, <3>5, <3>6
  <2> QED
    BY <2>1, <2>2
<1>7. CASE DropSync(r)
  <2>1. PICK x \in s.syncs :
            /\ dropped' = dropped \union {x}
            /\ Become(r, [s EXCEPT !.syncs = @ \ {x},
                         !.pc = IF s.syncs # {x} THEN @
                                ELSE IF s.op = "delete" THEN "dropFlows" ELSE "disconnect"])
    BY <1>7 DEF DropSync
  <2>2. CASE s.syncs # {x}
    <3> DEFINE t == [s EXCEPT !.pc = "dropSyncs", !.syncs = s.syncs \ {x}]
    <3>1. Become(r, t)
      BY <1>7, <2>1, <2>2, <1>a DEF DropSync, At
    <3>2. s.pc = "dropSyncs" /\ s.op \in {"delete", "disconnect"}
      BY <1>7, <2>1, <2>2, <1>d DEF DropSync, At, Found
    <3>3. t \in Locals
      BY <1>a, <1>c DEF Locations
    <3>4. /\ t.op = s.op /\ t.pc = "dropSyncs" /\ t.id = s.id
          /\ t.conns = s.conns /\ t.syncs = s.syncs \ {x} /\ t.of = s.of
      BY <1>a
    <3> HIDE DEF t
    <3>5. Arrives(r, t)
      BY <1>7, <2>1, <2>2, <3>2, <3>4 DEF Arrives, PlacesOf
    <3>6. Dropping(r, t)
      BY <3>2, <3>4, <1>7, <2>1, <2>2, <2>1 DEF Dropping
    <3> QED
      BY <3>1, <3>3, <3>5, <3>6
  <2>3. CASE s.syncs = {x} /\ s.op = "delete"
    <3> DEFINE t == [s EXCEPT !.pc = "dropFlows", !.syncs = s.syncs \ {x}]
    <3>1. Become(r, t)
      BY <1>7, <2>1, <2>3 DEF DropSync, Goto
    <3>2. s.pc = "dropSyncs" /\ s.op = "delete"
      BY <1>7, <2>1, <2>3, <1>d DEF DropSync, At, Found
    <3>3. t \in Locals
      BY <1>a, <1>c DEF Locations
    <3>4. /\ t.op = s.op /\ t.pc = "dropFlows" /\ t.id = s.id
          /\ t.conns = s.conns /\ t.syncs = s.syncs \ {x} /\ t.of = s.of
      BY <1>a
    <3> HIDE DEF t
    <3>5. Arrives(r, t)
      BY <1>7, <2>1, <2>3, <3>2, <3>4 DEF Arrives, PlacesOf
    <3>6. Dropping(r, t)
      BY <3>2, <3>4, <1>7, <2>1, <2>3, <2>1 DEF Dropping
    <3> QED
      BY <3>1, <3>3, <3>5, <3>6
  <2>4. CASE s.syncs = {x} /\ s.op # "delete"
    <3> DEFINE t == [s EXCEPT !.pc = "disconnect", !.syncs = s.syncs \ {x}]
    <3>1. Become(r, t)
      BY <1>7, <2>1, <2>4 DEF DropSync, Goto
    <3>2. s.pc = "dropSyncs" /\ s.op = "disconnect"
      BY <1>7, <2>1, <2>4, <1>d DEF DropSync, At, Found
    <3>3. t \in Locals
      BY <1>a, <1>c DEF Locations
    <3>4. /\ t.op = s.op /\ t.pc = "disconnect" /\ t.id = s.id
          /\ t.conns = s.conns /\ t.syncs = s.syncs \ {x} /\ t.of = s.of
      BY <1>a
    <3> HIDE DEF t
    <3>5. Arrives(r, t)
      BY <1>7, <2>1, <2>4, <3>2, <3>4 DEF Arrives, PlacesOf
    <3>6. Dropping(r, t)
      BY <3>2, <3>4, <1>7, <2>1, <2>4, <2>1 DEF Dropping
    <3> QED
      BY <3>1, <3>3, <3>5, <3>6
  <2> QED
    BY <2>2, <2>3, <2>4
<1>8. CASE DropFlows(r)
  <2> DEFINE t == [s EXCEPT !.pc = "dropConfig"]
  <2>1. Become(r, t)
    BY <1>8 DEF DropFlows, Goto
  <2>2. s.pc = "dropFlows" /\ s.op = "delete"
    BY <1>8, <1>d DEF DropFlows, At, Found
  <2>3. t \in Locals
    BY <1>a, <1>c DEF Locations
  <2>4. /\ t.op = s.op /\ t.pc = "dropConfig" /\ t.id = s.id
        /\ t.conns = s.conns /\ t.syncs = s.syncs /\ t.of = s.of
    BY <1>a
  <2> HIDE DEF t
  <2>5. Arrives(r, t)
    BY <1>8, <2>2, <2>4 DEF Arrives, PlacesOf
  <2>6. Dropping(r, t)
    BY <2>2, <2>4 DEF Dropping
  <2> QED
    BY <2>1, <2>3, <2>5, <2>6
<1>9. CASE DropConfig(r)
  <2> DEFINE t == [s EXCEPT !.pc = "dropConnections"]
  <2>1. Become(r, t)
    BY <1>9 DEF DropConfig, Goto
  <2>2. s.pc = "dropConfig" /\ s.op = "delete"
    BY <1>9, <1>d DEF DropConfig, At, Found
  <2>3. t \in Locals
    BY <1>a, <1>c DEF Locations
  <2>4. /\ t.op = s.op /\ t.pc = "dropConnections" /\ t.id = s.id
        /\ t.conns = s.conns /\ t.syncs = s.syncs /\ t.of = s.of
    BY <1>a
  <2> HIDE DEF t
  <2>5. Arrives(r, t)
    BY <1>9, <2>2, <2>4 DEF Arrives, PlacesOf
  <2>6. Dropping(r, t)
    BY <2>2, <2>4 DEF Dropping
  <2> QED
    BY <2>1, <2>3, <2>5, <2>6
<1>10. CASE DropConnections(r)
  BY <1>10, <1>b DEF DropConnections, End
<1>11. CASE FindTarget(r)
  <2>1. PICK i \in First(Live) :
            /\ Become(r, IF i = NoRow THEN Idle ELSE [s EXCEPT !.pc = "exchange", !.id = i])
            /\ UNCHANGED rows
    BY <1>11 DEF FindTarget, Found
  <2>2. CASE i = NoRow
    BY <2>1, <2>2, <1>b
  <2>3. CASE i # NoRow
    <3>0. i \in Live
      BY <2>1, <2>3, <1>c DEF First
    <3> DEFINE t == [s EXCEPT !.pc = "exchange", !.id = i]
    <3>1. Become(r, t)
      BY <1>11, <2>1, <2>3, <3>0 DEF FindTarget, Found, Goto
    <3>2. s.pc = "find" /\ s.op = "authorize"
      BY <1>11, <2>1, <2>3, <3>0, <1>d DEF FindTarget, Found, At, Found
    <3>3. t \in Locals
      BY <1>a, <1>c, <3>0 DEF Locations
    <3>4. /\ t.op = s.op /\ t.pc = "exchange" /\ t.id = i
          /\ t.conns = s.conns /\ t.syncs = s.syncs /\ t.of = s.of
      BY <1>a
    <3> HIDE DEF t
    <3>5. Arrives(r, t)
      BY <1>11, <2>1, <2>3, <3>0, <3>2, <3>4 DEF Arrives, PlacesOf
    <3>6. Dropping(r, t)
      BY <3>2, <3>4 DEF Dropping
    <3> QED
      BY <3>1, <3>3, <3>5, <3>6
  <2> QED
    BY <2>2, <2>3
<1>12. CASE Exchange(r)
  <2>1. PICK i \in First(Live) :
            /\ Become(r, IF i = NoRow THEN Idle ELSE [s EXCEPT !.pc = "connect", !.id = i])
            /\ UNCHANGED rows
    BY <1>12 DEF Exchange, Found
  <2>2. CASE i = NoRow
    BY <2>1, <2>2, <1>b
  <2>3. CASE i # NoRow
    <3>0. i \in Live
      BY <2>1, <2>3, <1>c DEF First
    <3> DEFINE t == [s EXCEPT !.pc = "connect", !.id = i]
    <3>1. Become(r, t)
      BY <1>12, <2>1, <2>3, <3>0 DEF Exchange, Found, Goto
    <3>2. s.pc = "exchange" /\ s.op = "authorize"
      BY <1>12, <2>1, <2>3, <3>0, <1>d DEF Exchange, Found, At, Found
    <3>3. t \in Locals
      BY <1>a, <1>c, <3>0 DEF Locations
    <3>4. /\ t.op = s.op /\ t.pc = "connect" /\ t.id = i
          /\ t.conns = s.conns /\ t.syncs = s.syncs /\ t.of = s.of
      BY <1>a
    <3> HIDE DEF t
    <3>5. Arrives(r, t)
      BY <1>12, <2>1, <2>3, <3>0, <3>2, <3>4 DEF Arrives, PlacesOf
    <3>6. Dropping(r, t)
      BY <3>2, <3>4 DEF Dropping
    <3> QED
      BY <3>1, <3>3, <3>5, <3>6
  <2> QED
    BY <2>2, <2>3
<1>13. CASE InsertConnection(r)
  <2>1. PICK c \in Connections :
            /\ conn' = [conn EXCEPT ![c] = "live"]
            /\ Become(r, [s EXCEPT !.pc = "initiate", !.conns = {c}])
    BY <1>13 DEF InsertConnection
  <2>2. conn'[c] = "live"
    BY <2>1 DEF CoreInv, TypeOK
  <2> DEFINE t == [s EXCEPT !.pc = "initiate", !.conns = {c}]
  <2>3. Become(r, t)
    BY <1>13, <2>1 DEF InsertConnection, Goto
  <2>4. s.pc = "connect" /\ s.op = "authorize"
    BY <1>13, <2>1, <1>d DEF InsertConnection, At, Found
  <2>5. t \in Locals
    BY <1>a, <1>c DEF Locations
  <2>6. /\ t.op = s.op /\ t.pc = "initiate" /\ t.id = s.id
        /\ t.conns = {c} /\ t.syncs = s.syncs /\ t.of = s.of
    BY <1>a
  <2> HIDE DEF t
  <2>7. Arrives(r, t)
    BY <1>13, <2>2, <2>4, <2>6 DEF Arrives, PlacesOf
  <2>8. Dropping(r, t)
    BY <2>4, <2>6 DEF Dropping
  <2> QED
    BY <2>3, <2>5, <2>7, <2>8
<1>14. CASE GetSyncConfig(r)
  <2>1. PICK i \in First(Live) :
            IF i \in flows THEN Become(r, [s EXCEPT !.pc = "provider", !.id = i]) ELSE End(r)
    BY <1>14 DEF GetSyncConfig
  <2>2. CASE i \notin flows
    BY <2>1, <2>2, <1>b DEF End
  <2>3. CASE i \in flows
    <3>0. i \in Live /\ UNCHANGED rows
      BY <1>14, <2>1, <2>3, NoRowIsNone DEF CoreInv, TypeOK, First, GetSyncConfig
    <3> DEFINE t == [s EXCEPT !.pc = "provider", !.id = i]
    <3>1. Become(r, t)
      BY <1>14, <2>1, <2>3, <3>0 DEF GetSyncConfig, Goto
    <3>2. s.pc = "initiate" /\ s.op = "authorize"
      BY <1>14, <2>1, <2>3, <3>0, <1>d DEF GetSyncConfig, At, Found
    <3>3. t \in Locals
      BY <1>a, <1>c, <3>0 DEF Locations
    <3>4. /\ t.op = s.op /\ t.pc = "provider" /\ t.id = i
          /\ t.conns = s.conns /\ t.syncs = s.syncs /\ t.of = s.of
      BY <1>a
    <3> HIDE DEF t
    <3>5. Arrives(r, t)
      BY <1>14, <2>1, <2>3, <3>0, <3>2, <3>4 DEF Arrives, PlacesOf
    <3>6. Dropping(r, t)
      BY <3>2, <3>4 DEF Dropping
    <3> QED
      BY <3>1, <3>3, <3>5, <3>6
  <2> QED
    BY <2>2, <2>3
<1>15. CASE GetProvider(r)
  <2> DEFINE t == [s EXCEPT !.pc = "createSyncs"]
  <2>1. Become(r, t)
    BY <1>15 DEF GetProvider, Goto
  <2>2. s.pc = "provider" /\ s.op = "authorize"
    BY <1>15, <1>d DEF GetProvider, At, Found
  <2>3. t \in Locals
    BY <1>a, <1>c DEF Locations
  <2>4. /\ t.op = s.op /\ t.pc = "createSyncs" /\ t.id = s.id
        /\ t.conns = s.conns /\ t.syncs = s.syncs /\ t.of = s.of
    BY <1>a
  <2> HIDE DEF t
  <2>5. Arrives(r, t)
    BY <1>15, <2>2, <2>4 DEF Arrives, PlacesOf
  <2>6. Dropping(r, t)
    BY <2>2, <2>4 DEF Dropping
  <2> QED
    BY <2>1, <2>3, <2>5, <2>6
<1>16. CASE CreateSync(r)
  <2>1. PICK c \in s.conns : IF s.conns = {c} THEN End(r)
                                ELSE Become(r, [s EXCEPT !.conns = @ \ {c}])
    BY <1>16 DEF CreateSync
  <2>2. CASE s.conns = {c}
    BY <2>1, <2>2, <1>b DEF End
  <2>3. CASE s.conns # {c}
    <3> DEFINE t == [s EXCEPT !.pc = "createSyncs", !.conns = s.conns \ {c}]
    <3>1. Become(r, t)
      BY <1>16, <2>1, <2>3, <1>a DEF CreateSync, At
    <3>2. s.pc = "createSyncs" /\ s.op \in {"authorize", "deploy"}
      BY <1>16, <2>1, <2>3, <1>d DEF CreateSync, At, Found
    <3>3. t \in Locals
      BY <1>a, <1>c DEF Locations
    <3>4. /\ t.op = s.op /\ t.pc = "createSyncs" /\ t.id = s.id
          /\ t.conns = s.conns \ {c} /\ t.syncs = s.syncs /\ t.of = s.of
      BY <1>a
    <3> HIDE DEF t
    <3>5. Arrives(r, t)
      BY <1>16, <2>1, <2>3, <3>2, <3>4 DEF Arrives, PlacesOf
    <3>6. Dropping(r, t)
      BY <3>2, <3>4 DEF Dropping
    <3> QED
      BY <3>1, <3>3, <3>5, <3>6
  <2> QED
    BY <2>2, <2>3
<1>17. CASE FindConnection(r)
  <2>1. PICK c \in First(LiveConnections) :
            LET mine == {x \in LiveSyncs : sync[x] = c} IN
            Become(r, IF c = NoRow THEN Idle
                      ELSE [s EXCEPT !.conns = {c}, !.syncs = mine,
                            !.pc = IF mine = {} THEN "disconnect" ELSE "dropSyncs"])
    BY <1>17 DEF FindConnection
  <2> DEFINE mine == {x \in LiveSyncs : sync[x] = c}
  <2>2. CASE c = NoRow
    BY <2>1, <2>2, <1>b
  <2>0. mine \subseteq LiveSyncs /\ UNCHANGED rows
    BY <1>17 DEF FindConnection
  <2>5. c # NoRow => c \in LiveConnections /\ conn'[c] = "live"
    BY <2>0, <2>1 DEF First, LiveConnections, rows
  <2>3. CASE c # NoRow /\ mine = {}
    <3> DEFINE t == [s EXCEPT !.pc = "disconnect", !.conns = {c}, !.syncs = mine]
    <3>1. Become(r, t)
      BY <1>17, <2>1, <2>3 DEF FindConnection, Goto
    <3>2. s.pc = "findConnection" /\ s.op = "disconnect"
      BY <1>17, <2>1, <2>3, <1>d DEF FindConnection, At, Found
    <3>3. t \in Locals
      BY <1>a, <1>c, <2>0, <2>3, <2>5 DEF Locations
    <3>4. /\ t.op = s.op /\ t.pc = "disconnect" /\ t.id = s.id
          /\ t.conns = {c} /\ t.syncs = mine /\ t.of = s.of
      BY <1>a
    <3> HIDE DEF t
    <3>5. Arrives(r, t)
      BY <1>17, <2>1, <2>3, <3>2, <3>4, <2>0, <2>5 DEF Arrives, PlacesOf
    <3>6. Dropping(r, t)
      BY <3>2, <3>4, <1>17, <2>1, <2>3, <2>0, <2>5 DEF Dropping
    <3> QED
      BY <3>1, <3>3, <3>5, <3>6
  <2>4. CASE c # NoRow /\ mine # {}
    <3> DEFINE t == [s EXCEPT !.pc = "dropSyncs", !.conns = {c}, !.syncs = mine]
    <3>1. Become(r, t)
      BY <1>17, <2>1, <2>4 DEF FindConnection, Goto
    <3>2. s.pc = "findConnection" /\ s.op = "disconnect"
      BY <1>17, <2>1, <2>4, <1>d DEF FindConnection, At, Found
    <3>3. t \in Locals
      BY <1>a, <1>c, <2>0, <2>4, <2>5 DEF Locations
    <3>4. /\ t.op = s.op /\ t.pc = "dropSyncs" /\ t.id = s.id
          /\ t.conns = {c} /\ t.syncs = mine /\ t.of = s.of
      BY <1>a
    <3> HIDE DEF t
    <3>5. Arrives(r, t)
      BY <1>17, <2>1, <2>4, <3>2, <3>4, <2>0, <2>5 DEF Arrives, PlacesOf
    <3>6. Dropping(r, t)
      BY <3>2, <3>4, <1>17, <2>1, <2>4, <2>0, <2>5 DEF Dropping
    <3> QED
      BY <3>1, <3>3, <3>5, <3>6
  <2> QED
    BY <2>2, <2>3, <2>4
<1>18. CASE DropConnection(r)
  BY <1>18, <1>b DEF DropConnection, End
<1>19. CASE FindDeployed(r)
  <2>1. PICK i \in First(Live) :
            /\ Become(r, IF i = NoRow THEN Idle ELSE [s EXCEPT !.pc = "insertFlow", !.id = i])
            /\ UNCHANGED rows
    BY <1>19 DEF FindDeployed, Found
  <2>2. CASE i = NoRow
    BY <2>1, <2>2, <1>b
  <2>3. CASE i # NoRow
    <3>0. i \in Live
      BY <2>1, <2>3, <1>c DEF First
    <3> DEFINE t == [s EXCEPT !.pc = "insertFlow", !.id = i]
    <3>1. Become(r, t)
      BY <1>19, <2>1, <2>3, <3>0 DEF FindDeployed, Found, Goto
    <3>2. s.pc = "target" /\ s.op \in {"verify", "deploy"}
      BY <1>19, <2>1, <2>3, <3>0, <1>d DEF FindDeployed, Found, At, Found
    <3>3. t \in Locals
      BY <1>a, <1>c, <3>0 DEF Locations
    <3>4. /\ t.op = s.op /\ t.pc = "insertFlow" /\ t.id = i
          /\ t.conns = s.conns /\ t.syncs = s.syncs /\ t.of = s.of
      BY <1>a
    <3> HIDE DEF t
    <3>5. Arrives(r, t)
      BY <1>19, <2>1, <2>3, <3>0, <3>2, <3>4 DEF Arrives, PlacesOf
    <3>6. Dropping(r, t)
      BY <3>2, <3>4 DEF Dropping
    <3> QED
      BY <3>1, <3>3, <3>5, <3>6
  <2> QED
    BY <2>2, <2>3
<1>20. CASE InsertFlow(r)
  <2>1. CASE s.op = "verify"
    BY <1>20, <2>1, <1>b DEF InsertFlow, Goto, End
  <2>2. CASE s.op # "verify"
    <3> DEFINE t == [s EXCEPT !.pc = "listConnections"]
    <3>1. Become(r, t)
      BY <1>20, <2>2 DEF InsertFlow, Goto
    <3>2. s.pc = "insertFlow" /\ s.op = "deploy"
      BY <1>20, <2>2, <1>d DEF InsertFlow, At, Found
    <3>3. t \in Locals
      BY <1>a, <1>c DEF Locations
    <3>4. /\ t.op = s.op /\ t.pc = "listConnections" /\ t.id = s.id
          /\ t.conns = s.conns /\ t.syncs = s.syncs /\ t.of = s.of
      BY <1>a
    <3> HIDE DEF t
    <3>5. Arrives(r, t)
      BY <1>20, <2>2, <3>2, <3>4 DEF Arrives, PlacesOf
    <3>6. Dropping(r, t)
      BY <3>2, <3>4 DEF Dropping
    <3> QED
      BY <3>1, <3>3, <3>5, <3>6
  <2> QED
    BY <2>1, <2>2
<1>21. CASE ListConnections(r)
  <2>1. CASE LiveConnections = {}
    BY <1>21, <2>1, <1>b DEF ListConnections, Goto, End
  <2>2. CASE LiveConnections # {}
    <3> DEFINE t == [s EXCEPT !.pc = "createSyncs", !.conns = LiveConnections]
    <3>1. Become(r, t)
      BY <1>21, <2>2 DEF ListConnections, Goto
    <3>2. s.pc = "listConnections" /\ s.op = "deploy"
      BY <1>21, <2>2, <1>d DEF ListConnections, At, Found
    <3>3. t \in Locals
      BY <1>a, <1>c DEF Locations
    <3>4. /\ t.op = s.op /\ t.pc = "createSyncs" /\ t.id = s.id
          /\ t.conns = LiveConnections /\ t.syncs = s.syncs /\ t.of = s.of
      BY <1>a
    <3> HIDE DEF t
    <3>5. Arrives(r, t)
      BY <1>21, <2>2, <3>2, <3>4, <1>c DEF Arrives, PlacesOf, ListConnections, LiveConnections,
         rows
    <3>6. Dropping(r, t)
      BY <3>2, <3>4 DEF Dropping
    <3> QED
      BY <3>1, <3>3, <3>5, <3>6
  <2> QED
    BY <2>1, <2>2
<1>22. CASE FindShown(r)
  <2>1. PICK i \in First(Live) :
            /\ Become(r, IF i = NoRow THEN Idle ELSE [s EXCEPT !.pc = "flowId", !.id = i])
            /\ UNCHANGED rows
    BY <1>22 DEF FindShown, Found
  <2>2. CASE i = NoRow
    BY <2>1, <2>2, <1>b
  <2>3. CASE i # NoRow
    <3>0. i \in Live
      BY <2>1, <2>3, <1>c DEF First
    <3> DEFINE t == [s EXCEPT !.pc = "flowId", !.id = i]
    <3>1. Become(r, t)
      BY <1>22, <2>1, <2>3, <3>0 DEF FindShown, Found, Goto
    <3>2. s.pc = "config" /\ s.op = "read"
      BY <1>22, <2>1, <2>3, <3>0, <1>d DEF FindShown, Found, At, Found
    <3>3. t \in Locals
      BY <1>a, <1>c, <3>0 DEF Locations
    <3>4. /\ t.op = s.op /\ t.pc = "flowId" /\ t.id = i
          /\ t.conns = s.conns /\ t.syncs = s.syncs /\ t.of = s.of
      BY <1>a
    <3> HIDE DEF t
    <3>5. Arrives(r, t)
      BY <1>22, <2>1, <2>3, <3>0, <3>2, <3>4 DEF Arrives, PlacesOf
    <3>6. Dropping(r, t)
      BY <3>2, <3>4 DEF Dropping
    <3> QED
      BY <3>1, <3>3, <3>5, <3>6
  <2> QED
    BY <2>2, <2>3
<1>23. CASE FindFlows(r)
  <2>1. PICK i \in First(Live) : Become(r, [s EXCEPT !.pc = "flow", !.of = i])
    BY <1>23 DEF FindFlows
  <2>2. i \in Live \union {NoRow} /\ UNCHANGED rows
    BY <1>23 DEF First, FindFlows
  <2>3. QED
    <3> DEFINE t == [s EXCEPT !.pc = "flow", !.of = i]
    <3>1. Become(r, t)
      BY <1>23, <2>1, <2>2 DEF FindFlows, Goto
    <3>2. s.pc = "flowId" /\ s.op = "read"
      BY <1>23, <2>1, <2>2, <1>d DEF FindFlows, At, Found
    <3>3. t \in Locals
      BY <1>a, <1>c, <2>2 DEF Locations
    <3>4. /\ t.op = s.op /\ t.pc = "flow" /\ t.id = s.id
          /\ t.conns = s.conns /\ t.syncs = s.syncs /\ t.of = i
      BY <1>a
    <3> HIDE DEF t
    <3>5. Arrives(r, t)
      BY <1>23, <2>1, <2>2, <3>2, <3>4 DEF Arrives, PlacesOf
    <3>6. Dropping(r, t)
      BY <3>2, <3>4 DEF Dropping
    <3> QED
      BY <3>1, <3>3, <3>5, <3>6
<1>24. CASE ShowFlows(r)
  BY <1>24, <1>b DEF ShowFlows, End
<1>25. CASE ListRows(r)
  <2>1. PICK c \in First(LiveConnections) :
            Become(r, IF c = NoRow THEN Idle ELSE [s EXCEPT !.pc = "configs", !.of = under[c]])
    BY <1>25 DEF ListRows
  <2>2. CASE c = NoRow
    BY <2>1, <2>2, <1>b
  <2>3. CASE c # NoRow
    <3>0. c \in LiveConnections /\ under[c] \in Configs \union {NoRow} /\ UNCHANGED rows
      BY <1>25, <2>1, <2>3, <1>c DEF First, CoreInv, Shapes, ListRows
    <3> DEFINE t == [s EXCEPT !.pc = "configs", !.of = under[c]]
    <3>1. Become(r, t)
      BY <1>25, <2>1, <2>3, <3>0 DEF ListRows, Goto
    <3>2. s.pc = "rows" /\ s.op = "list"
      BY <1>25, <2>1, <2>3, <3>0, <1>d DEF ListRows, At, Found
    <3>3. t \in Locals
      BY <1>a, <1>c, <3>0 DEF Locations
    <3>4. /\ t.op = s.op /\ t.pc = "configs" /\ t.id = s.id
          /\ t.conns = s.conns /\ t.syncs = s.syncs /\ t.of = under[c]
      BY <1>a
    <3> HIDE DEF t
    <3>5. Arrives(r, t)
      BY <1>25, <2>1, <2>3, <3>0, <3>2, <3>4 DEF Arrives, PlacesOf
    <3>6. Dropping(r, t)
      BY <3>2, <3>4 DEF Dropping
    <3> QED
      BY <3>1, <3>3, <3>5, <3>6
  <2> QED
    BY <2>2, <2>3
<1>26. CASE ListProviderConfigs(r)
  BY <1>26, <1>b DEF ListProviderConfigs, End
<1> QED
  BY <1>1, <1>2, <1>3, <1>4, <1>5, <1>6, <1>7, <1>8, <1>9, <1>10, <1>11, <1>12, <1>13, <1>14,
     <1>15, <1>16, <1>17, <1>18, <1>19, <1>20, <1>21, <1>22, <1>23, <1>24, <1>25, <1>26 DEF Step

\* Which statements change which of the rows and of what is remembered of them.
LEMMA RowSteps ==
    ASSUME NEW r \in Requests, Step(r)
    PROVE  /\ UNCHANGED <<begun, failed, overlaps>>
           /\ config' = config \/ CreateProviderConfig(r) \/ DropConfig(r)
           /\ flows' = flows \/ DropFlows(r) \/ InsertFlow(r)
           /\ conn' = conn \/ DropConnections(r) \/ InsertConnection(r) \/ DropConnection(r)
           /\ under' = under \/ InsertConnection(r)
           /\ sync' = sync \/ CreateSync(r)
           /\ dropped' = dropped \/ DropSync(r)
           /\ edited' = edited \/ EditProviderConfig(r)
           /\ removed' = removed \/ DropConnections(r)
           /\ answers' = answers \/ ShowFlows(r) \/ ListProviderConfigs(r)
<1> USE DEF Other, rows, history
<1>1. CASE CheckExisting(r)
  BY <1>1 DEF CheckExisting
<1>2. CASE CreateProviderConfig(r)
  BY <1>2 DEF CreateProviderConfig
<1>3. CASE FindEdited(r)
  BY <1>3 DEF FindEdited, Found
<1>4. CASE EditProviderConfig(r)
  BY <1>4 DEF EditProviderConfig
<1>5. CASE FindDeleted(r)
  BY <1>5 DEF FindDeleted, Found
<1>6. CASE ListSyncs(r)
  BY <1>6 DEF ListSyncs
<1>7. CASE DropSync(r)
  BY <1>7 DEF DropSync
<1>8. CASE DropFlows(r)
  BY <1>8 DEF DropFlows
<1>9. CASE DropConfig(r)
  BY <1>9 DEF DropConfig
<1>10. CASE DropConnections(r)
  BY <1>10 DEF DropConnections
<1>11. CASE FindTarget(r)
  BY <1>11 DEF FindTarget, Found
<1>12. CASE Exchange(r)
  BY <1>12 DEF Exchange, Found
<1>13. CASE InsertConnection(r)
  BY <1>13 DEF InsertConnection
<1>14. CASE GetSyncConfig(r)
  BY <1>14 DEF GetSyncConfig
<1>15. CASE GetProvider(r)
  BY <1>15 DEF GetProvider
<1>16. CASE CreateSync(r)
  BY <1>16 DEF CreateSync
<1>17. CASE FindConnection(r)
  BY <1>17 DEF FindConnection
<1>18. CASE DropConnection(r)
  BY <1>18 DEF DropConnection
<1>19. CASE FindDeployed(r)
  BY <1>19 DEF FindDeployed, Found
<1>20. CASE InsertFlow(r)
  BY <1>20 DEF InsertFlow
<1>21. CASE ListConnections(r)
  BY <1>21 DEF ListConnections
<1>22. CASE FindShown(r)
  BY <1>22 DEF FindShown, Found
<1>23. CASE FindFlows(r)
  BY <1>23 DEF FindFlows
<1>24. CASE ShowFlows(r)
  BY <1>24 DEF ShowFlows
<1>25. CASE ListRows(r)
  BY <1>25 DEF ListRows
<1>26. CASE ListProviderConfigs(r)
  BY <1>26 DEF ListProviderConfigs
<1> QED
  BY <1>1, <1>2, <1>3, <1>4, <1>5, <1>6, <1>7, <1>8, <1>9, <1>10, <1>11, <1>12, <1>13, <1>14,
     <1>15, <1>16, <1>17, <1>18, <1>19, <1>20, <1>21, <1>22, <1>23, <1>24, <1>25, <1>26 DEF Step

States == {"none", "live", "deleted"}

\* A config is inserted by a creation, and deleted by its id.
LEMMA ConfigSteps ==
    ASSUME CoreInv, NEW r \in Requests, Step(r)
    PROVE  /\ config' \in [Configs -> States]
           /\ \A i \in Configs : config[i] # "none" => config'[i] # "none"
           /\ \A i \in Live' : i \in Live \/ task[r].pc = "insert"
           /\ \A i \in Live : i \in Live' \/ (DropConfig(r) /\ i = task[r].id)
           /\ task[r].pc = "insert" /\ Live = {} => \A i, j \in Live' : i = j
<1>0. config \in [Configs -> States]
  BY DEF CoreInv, TypeOK, States
<1>1. CASE config' = config
  BY <1>0, <1>1 DEF Live
<1>2. CASE CreateProviderConfig(r)
  <2>1. PICK n \in Configs : config[n] = "none" /\ config' = [config EXCEPT ![n] = "live"]
    BY <1>2 DEF CreateProviderConfig
  <2>2. task[r].pc = "insert"
    BY <1>2 DEF CreateProviderConfig, At
  <2>3. config'[n] = "live" /\ \A i \in Configs : i # n => config'[i] = config[i]
    BY <2>1, <1>0
  <2>4. Live' = Live \union {n}
    BY <2>1, <2>3 DEF Live
  <2> QED
    BY <2>1, <2>2, <2>3, <2>4, <1>0 DEF States
<1>3. CASE DropConfig(r)
  <2>1. task[r].pc = "dropConfig" /\ config' = [config EXCEPT ![task[r].id] = "deleted"]
    BY <1>3 DEF DropConfig, At
  <2>2. task[r].id \in Configs
    BY <2>1 DEF CoreInv, AllFit, RequestFits, HasFound
  <2> QED
    BY <1>3, <2>1, <2>2, <1>0 DEF Live, States
<1> QED
  BY <1>1, <1>2, <1>3, RowSteps

\* A connection is inserted by an authorisation, under the config that it has found.
LEMMA ConnectionSteps ==
    ASSUME CoreInv, NEW r \in Requests, Step(r)
    PROVE  /\ conn' \in [Connections -> States]
           /\ under' \in [Connections -> Configs \union {NoRow}]
           /\ \A c \in Connections : conn[c] # "none" => conn'[c] # "none" /\ under'[c] = under[c]
           /\ \A c \in Connections :
                 conn[c] = "none" /\ conn'[c] # "none" =>
                    /\ InsertConnection(r) /\ conn'[c] = "live"
                    /\ under'[c] = task[r].id /\ under'[c] \in Configs
           /\ \A c \in LiveConnections' : c \in LiveConnections \/ conn[c] = "none"
           /\ \A c \in LiveConnections :
                 \/ c \in LiveConnections' \/ DropConnections(r)
                 \/ task[r].pc = "disconnect" /\ c \in task[r].conns
           /\ DropConnections(r) => LiveConnections' = {}
<1> USE DEF LiveConnections
<1>0. conn \in [Connections -> States] /\ under \in [Connections -> Configs \union {NoRow}]
  BY DEF CoreInv, TypeOK, Shapes, States
<1>1. CASE conn' = conn /\ under' = under
  <2>1. DropConnections(r) => LiveConnections = {}
    <3>1. ASSUME DropConnections(r), NEW c \in LiveConnections PROVE FALSE
      <4>1. conn'[c] = "deleted"
        BY <3>1 DEF DropConnections
      <4> QED
        BY <4>1, <1>1
    <3> QED
      BY <3>1
  <2> QED
    BY <1>0, <1>1, <2>1
<1>2. CASE DropConnections(r)
  <2>1. conn' = [c \in Connections |-> IF c \in LiveConnections THEN "deleted" ELSE conn[c]]
        /\ under' = under
    BY <1>2 DEF DropConnections
  <2>2. \A c \in Connections : conn'[c] = IF c \in LiveConnections THEN "deleted" ELSE conn[c]
    BY <2>1
  <2>3. LiveConnections' = {}
    BY <2>2
  <2>4. \A c \in LiveConnections : conn[c] = "live"
    OBVIOUS
  <2>5. conn' \in [Connections -> States]
    BY <2>1, <1>0 DEF States
  <2> QED
    BY <2>1, <2>2, <2>3, <2>4, <2>5, <1>0, <1>2
<1>3. CASE InsertConnection(r)
  <2>1. PICK c \in Connections :
            /\ conn[c] = "none" /\ conn' = [conn EXCEPT ![c] = "live"]
            /\ under' = [under EXCEPT ![c] = task[r].id]
    BY <1>3 DEF InsertConnection
  <2>2. task[r].pc = "connect"
    BY <1>3 DEF InsertConnection, At
  <2>3. task[r].id \in Configs
    BY <2>2 DEF CoreInv, AllFit, RequestFits, HasFound
  <2>4. ~DropConnections(r)
    BY <2>2 DEF DropConnections, At
  <2>5. /\ conn'[c] = "live" /\ under'[c] = task[r].id
        /\ \A d \in Connections : d # c => conn'[d] = conn[d] /\ under'[d] = under[d]
    BY <2>1, <1>0
  <2>6. conn' \in [Connections -> States] /\ under' \in [Connections -> Configs \union {NoRow}]
    BY <2>1, <2>3, <1>0 DEF States
  <2> QED
    BY <1>3, <2>1, <2>3, <2>4, <2>5, <2>6
<1>4. CASE DropConnection(r)
  <2>1. /\ conn' = [c \in Connections |-> IF c \in task[r].conns THEN "deleted" ELSE conn[c]]
        /\ under' = under /\ task[r].pc = "disconnect"
    BY <1>4 DEF DropConnection, history, At
  <2>2. ~DropConnections(r)
    BY <2>1 DEF DropConnections, At
  <2>3. \A c \in task[r].conns : conn[c] # "none"
    BY DEF CoreInv, AllFit, RequestFits
  <2>4. conn' \in [Connections -> States]
    BY <2>1, <1>0 DEF States
  <2>5. \A c \in Connections : conn'[c] = IF c \in task[r].conns THEN "deleted" ELSE conn[c]
    BY <2>1
  <2> QED
    BY <2>1, <2>2, <2>3, <2>4, <2>5, <1>0
<1> QED
  BY <1>1, <1>2, <1>3, <1>4, RowSteps

\* A sync is inserted for a connection that the request has in its hands.
LEMMA SyncSteps ==
    ASSUME CoreInv, NEW r \in Requests, Step(r)
    PROVE  /\ sync' \in [Syncs -> Connections \union {NoRow}]
           /\ dropped' \subseteq Syncs /\ dropped \subseteq dropped'
           /\ \A x \in Syncs : sync[x] # NoRow => sync'[x] = sync[x]
           /\ \A x \in Syncs : sync[x] = NoRow /\ sync'[x] # NoRow =>
                 task[r].pc = "createSyncs" /\ sync'[x] \in task[r].conns
<1>0. sync \in [Syncs -> Connections \union {NoRow}] /\ dropped \subseteq Syncs
  BY DEF CoreInv, Shapes, TypeOK
<1>1. dropped' \subseteq Syncs /\ dropped \subseteq dropped'
  <2>1. CASE dropped' = dropped
    BY <2>1, <1>0
  <2>2. CASE DropSync(r)
    <3>1. PICK x \in task[r].syncs : dropped' = dropped \union {x}
      BY <2>2 DEF DropSync
    <3>2. task[r].syncs \subseteq Syncs
      BY DEF CoreInv, TypeOK
    <3> QED
      BY <3>1, <3>2, <1>0
  <2> QED
    BY <2>1, <2>2, RowSteps
<1>2. CASE sync' = sync
  BY <1>0, <1>1, <1>2
<1>3. CASE sync' # sync
  <2>1. CreateSync(r)
    BY <1>3, RowSteps
  <2>2. PICK c \in task[r].conns : \E x \in Syncs : sync[x] = NoRow /\ sync' = [sync EXCEPT ![x] = c]
    BY <1>3, <2>1 DEF CreateSync
  <2>3. task[r].pc = "createSyncs" /\ task[r].conns \subseteq Connections
    BY <2>1 DEF CreateSync, At, CoreInv, TypeOK
  <2> QED
    BY <1>0, <1>1, <2>2, <2>3
<1> QED
  BY <1>2, <1>3

\* A flow is inserted for, and deleted with, the config that the request has found.
LEMMA FlowSteps ==
    ASSUME CoreInv, NEW r \in Requests, Step(r)
    PROVE  /\ \A i \in flows' : i \in flows \/ (InsertFlow(r) /\ i = task[r].id)
           /\ DropFlows(r) => task[r].id \notin flows'
<1>1. CASE flows' = flows
  BY <1>1 DEF DropFlows
<1>2. CASE DropFlows(r)
  BY <1>2 DEF DropFlows
<1>3. CASE InsertFlow(r)
  <2>1. ~DropFlows(r)
    BY <1>3 DEF InsertFlow, DropFlows, At
  <2> QED
    BY <1>3, <2>1 DEF InsertFlow
<1> QED
  BY <1>1, <1>2, <1>3, RowSteps

\* What a request has in its hands when it has begun.
Starts(t) ==
    /\ t.op \in Operations /\ t.pc = FirstStep[t.op]
    /\ t.conns = {} /\ t.syncs = {} /\ t.id = NoRow

\* A request that begins or fails leaves the rows alone.
LEMMA BeginsOrFails ==
    ASSUME NEW r \in Requests, Begin(r) \/ Fail(r)
    PROVE  /\ UNCHANGED <<rows, edited, under, removed, answers>>
           /\ \E t \in Locals : Become(r, t) /\ (t = Idle \/ (task[r] = Idle /\ Starts(t)))
           /\ failed \subseteq failed' /\ overlaps \subseteq overlaps'
           /\ task[r] = Idle \/ task[r].pc \in failed'
<1>1. CASE Begin(r)
  <2>1. PICK op \in Operations :
            /\ Become(r, [Idle EXCEPT !.op = op, !.pc = FirstStep[op]])
            /\ overlaps \subseteq overlaps'
    BY <1>1 DEF Begin
  <2> DEFINE t == [Idle EXCEPT !.op = op, !.pc = FirstStep[op]]
  <2>2. FirstStep[op] \in Locations
    BY DEF FirstStep, Operations, Locations
  <2>3. t \in Locals /\ Starts(t)
    BY <2>2, IdleIsLocals DEF Locals, Starts, Idle
  <2> QED
    BY <1>1, <2>1, <2>3 DEF Begin
<1>2. CASE Fail(r)
  BY <1>2, IdleIsLocals DEF Fail, End, history
<1> QED
  BY <1>1, <1>2

\* What was under way together is remembered.
LEMMA MeetingsStay ==
    ASSUME NEW S, NEW T, overlaps \subseteq overlaps', Together(S, T)
    PROVE  Together(S, T)'
BY DEF Together

LEMMA MeetingsSame ==
    ASSUME NEW S, NEW T, overlaps' = overlaps PROVE Together(S, T)' <=> Together(S, T)
BY DEF Together

\* Two requests that are under way have met.
LEMMA Met ==
    ASSUME CoreInv, NEW r \in Requests, NEW q \in Requests, r # q, NEW S, NEW T,
           task[r].op \in S, task[q].op \in T, task[r].op # "idle", task[q].op # "idle"
    PROVE  Together(S, T) /\ Together(T, S)
<1>1. task[r].pc # "idle" /\ task[q].pc # "idle"
  BY KindsOfPlaces
<1>2. {task[r].op, task[q].op} \in overlaps
  BY <1>1 DEF CoreInv, MeetingsKnown
<1>3. {task[q].op, task[r].op} \in overlaps
  <2>1. {task[q].op, task[r].op} = {task[r].op, task[q].op}
    OBVIOUS
  <2> QED
    BY <1>2, <2>1
<1> QED
  BY <1>2, <1>3 DEF Together

(***************************************************************************)
(* The types, and what holds of every request.                             *)
(***************************************************************************)

LEMMA TypesOfLocals ==
    ASSUME task \in [Requests -> Locals], NEW r \in Requests
    PROVE  /\ task[r].op \in Operations \union {"idle"} /\ task[r].pc \in Locations
           /\ task[r].id \in Configs \union {NoRow} /\ task[r].of \in Configs \union {NoRow}
           /\ task[r].conns \subseteq Connections /\ task[r].syncs \subseteq Syncs
BY DEF Locals

LEMMA IdleFits == Idle.op = "idle" /\ Idle.pc = "idle" /\ Idle.conns = {} /\ Idle.syncs = {}
                  /\ Idle.id = NoRow /\ Idle.of = NoRow
BY DEF Idle

\* A request's new locals fit the rows they were read from.
LEMMA FitsThen ==
    ASSUME CoreInv, NEW r \in Requests, Step(r), NEW t \in Locals, Become(r, t),
           t = Idle \/ Arrives(r, t)
    PROVE  AllFit'
<1> USE DEF RequestFits, Arrives
<1>1. task' = [task EXCEPT ![r] = t] /\ task'[r] = t /\ \A q \in Requests : q # r => task'[q] = task[q]
  BY Becomes DEF CoreInv, Become
<1>2. /\ \A i \in Configs : config[i] # "none" => config'[i] # "none"
      /\ \A c \in Connections : conn[c] # "none" => conn'[c] # "none"
      /\ \A x \in Syncs : sync[x] # NoRow => sync'[x] # NoRow
  BY ConfigSteps, ConnectionSteps, SyncSteps
<1>3. \A q \in Requests : RequestFits(q) /\ task[q].conns \subseteq Connections /\ task[q].syncs \subseteq Syncs
  BY DEF CoreInv, AllFit, TypeOK
<1>4. \A q \in Requests : q # r => RequestFits(q)'
  <2> SUFFICES ASSUME NEW q \in Requests, q # r PROVE RequestFits(q)'
    OBVIOUS
  <2>1. task'[q] = task[q] /\ RequestFits(q)
        /\ task[q].conns \subseteq Connections /\ task[q].syncs \subseteq Syncs
    BY <1>1, <1>3
  <2> QED
    BY <2>1, <1>2
<1>5. CASE t = Idle
  <2>1. RequestFits(r)'
    BY <1>1, <1>5, IdleFits DEF PlacesOf, HasFound
  <2> QED
    BY <2>1, <1>4 DEF AllFit
<1>6. CASE Arrives(r, t)
  <2> DEFINE s == task[r]
  <2>1. /\ t.op = s.op /\ t.pc \in PlacesOf[t.op] /\ s.pc # "idle" /\ s.pc \in PlacesOf[s.op]
        /\ t.op \in Operations
    <3>1. s.op \in Operations \union {"idle"} /\ s.pc \in PlacesOf[s.op] /\ s.pc # "idle"
      BY <1>3, <1>6, TypesOfLocals DEF CoreInv, Shapes
    <3>2. s.op # "idle"
      BY <3>1, KindsOfPlaces
    <3> QED
      BY <3>1, <3>2, <1>6
  <2>2. t.pc # "idle"
    BY <2>1 DEF PlacesOf, Operations
  <2>3. ASSUME t.pc \in HasFound \/ (t.op = "delete" /\ t.pc = "dropSyncs")
        PROVE  t.id \in Configs /\ config'[t.id] # "none"
    <3>1. CASE t.pc \in {"update", "listSyncs", "exchange", "connect", "provider", "insertFlow", "flowId"}
      <4>1. t.id \in Configs /\ config[t.id] = "live"
        BY <3>1, <1>6 DEF Live
      <4> QED
        BY <4>1, <1>2
    <3>2. CASE t.pc = "flow"
      <4>1. t.id = s.id /\ s.pc = "flowId"
        BY <3>2, <1>6
      <4>2. s.id \in Configs /\ config[s.id] # "none"
        BY <4>1, <1>3 DEF HasFound
      <4> QED
        BY <4>1, <4>2, <1>2
    <3>3. CASE t.op = "delete" /\ t.pc # "listSyncs"
      <4>1. t.id = s.id /\ s.pc # "find" /\ s.op = "delete"
        BY <3>3, <1>6, <2>1
      <4>2. s.pc \in HasFound \/ s.pc = "dropSyncs"
        BY <4>1, <2>1 DEF PlacesOf, HasFound
      <4>3. s.id \in Configs /\ config[s.id] # "none"
        BY <4>1, <4>2, <1>3
      <4> QED
        BY <4>1, <4>3, <1>2
    <3>4. t.pc \in {"dropFlows", "dropConfig", "dropConnections"} => t.op = "delete"
      BY <2>1 DEF PlacesOf, Operations
    <3> QED
      BY <2>3, <3>1, <3>2, <3>3, <3>4 DEF HasFound
  <2>4. \A c \in t.conns : conn'[c] # "none"
    <3> SUFFICES ASSUME NEW c \in t.conns PROVE conn'[c] # "none"
      OBVIOUS
    <3>1. c \in s.conns \/ conn'[c] = "live"
      BY <1>6
    <3>2. c \in s.conns => conn[c] # "none" /\ c \in Connections
      BY <1>3
    <3> QED
      BY <3>1, <3>2, <1>2
  <2>5. \A x \in t.syncs : sync'[x] # NoRow
    <3> SUFFICES ASSUME NEW x \in t.syncs PROVE sync'[x] # NoRow
      OBVIOUS
    <3>1. x \in s.syncs \/ x \in LiveSyncs
      BY <1>6
    <3>2. x \in Syncs /\ sync[x] # NoRow
      BY <3>1, <1>3 DEF LiveSyncs
    <3> QED
      BY <3>2, <1>2
  <2>6. RequestFits(r)'
    BY <1>1, <2>1, <2>2, <2>3, <2>4, <2>5
  <2> QED
    BY <2>6, <1>4 DEF AllFit
<1> QED
  BY <1>5, <1>6

LEMMA CoreSteps ==
    ASSUME CoreInv, NEW r \in Requests, Step(r) PROVE CoreInv'
<1> USE DEF CoreInv
<1>1. PICK t \in Locals : Become(r, t) /\ (t = Idle \/ Arrives(r, t))
  BY StepArrives
<1>2. task' = [task EXCEPT ![r] = t] /\ task'[r] = t /\ \A q \in Requests : q # r => task'[q] = task[q]
  BY <1>1, Becomes DEF Become
<1>3. task' \in [Requests -> Locals]
  BY <1>1, <1>2 DEF Shapes
<1>4. UNCHANGED <<begun, failed, overlaps>>
  BY RowSteps
<1>5. \A q \in Requests : RequestFits(q)
  BY DEF AllFit
<1>6. TypeOK'
  <2>1. config' \in [Configs -> {"none", "live", "deleted"}]
    BY ConfigSteps DEF States
  <2>2. conn' \in [Connections -> {"none", "live", "deleted"}]
    BY ConnectionSteps DEF States
  <2>3. flows' \subseteq {i \in Configs : config'[i] # "none"}
    <3> SUFFICES ASSUME NEW i \in flows' PROVE i \in Configs /\ config'[i] # "none"
      OBVIOUS
    <3>1. CASE i \in flows
      BY <3>1, ConfigSteps DEF TypeOK
    <3>2. CASE InsertFlow(r) /\ i = task[r].id
      BY <3>2, <1>5, ConfigSteps DEF RequestFits, HasFound, InsertFlow, At
    <3> QED
      BY <3>1, <3>2, FlowSteps
  <2>4. \A x \in Syncs : sync'[x] # NoRow => sync'[x] \in Connections /\ conn'[sync'[x]] # "none"
    <3> SUFFICES ASSUME NEW x \in Syncs, sync'[x] # NoRow
                 PROVE  sync'[x] \in Connections /\ conn'[sync'[x]] # "none"
      OBVIOUS
    <3>1. sync'[x] \in Connections
      BY SyncSteps
    <3>2. CASE sync[x] # NoRow
      BY <3>1, <3>2, SyncSteps, ConnectionSteps DEF TypeOK
    <3>3. CASE sync[x] = NoRow
      BY <3>1, <3>3, <1>5, SyncSteps, ConnectionSteps DEF RequestFits
    <3> QED
      BY <3>2, <3>3
  <2>5. \A c \in Connections : conn'[c] # "none" => under'[c] \in Configs
    BY ConnectionSteps DEF TypeOK
  <2>6. dropped' \subseteq Syncs /\ begun' \in 0..MaxEvents /\ failed' \subseteq Locations
    BY <1>4, SyncSteps DEF TypeOK
  <2>7. \A q \in Requests :
           /\ task'[q].op \in Operations \union {"idle"} /\ task'[q].pc \in Locations
           /\ task'[q].id \in Configs \union {NoRow} /\ task'[q].of \in Configs \union {NoRow}
           /\ task'[q].conns \subseteq Connections /\ task'[q].syncs \subseteq Syncs
    BY <1>3 DEF Locals
  <2> QED
    BY <2>1, <2>2, <2>3, <2>4, <2>5, <2>6, <2>7 DEF TypeOK
<1>7. Shapes'
  <2>1. edited' \in [Configs -> Configs]
    <3>1. CASE EditProviderConfig(r)
      <4>1. task[r].id \in Configs
        BY <3>1, <1>5 DEF RequestFits, HasFound, EditProviderConfig, At
      <4> QED
        BY <3>1, <4>1 DEF EditProviderConfig, Shapes
    <3> QED
      BY <3>1, RowSteps DEF Shapes
  <2>2. removed' \in [Connections -> Configs \union {NoRow}]
    <3>1. task[r].id \in Configs \union {NoRow}
      BY DEF TypeOK
    <3> QED
      BY <3>1, RowSteps DEF DropConnections, Shapes
  <2>3. answers' \subseteq [shows : {"flow", "connection"}, config : Configs \union {NoRow},
                            of : Configs \union {NoRow}]
    <3>1. task[r].id \in Configs \union {NoRow} /\ task[r].of \in Configs \union {NoRow}
      BY DEF TypeOK
    <3>2. CASE ShowFlows(r)
      <4>1. PICK of \in Configs \union {NoRow} :
               answers' = answers \union {[shows |-> "flow", config |-> task[r].id, of |-> of]}
        BY <3>1, <3>2 DEF ShowFlows
      <4> QED
        BY <4>1, <3>1 DEF Shapes
    <3>3. CASE ListProviderConfigs(r)
      <4>1. PICK i \in First(Live) :
               answers' = answers \union {[shows |-> "connection", config |-> i, of |-> task[r].of]}
        BY <3>3 DEF ListProviderConfigs
      <4>2. i \in Configs \union {NoRow}
        BY DEF First, Live
      <4> QED
        BY <4>1, <4>2, <3>1 DEF Shapes
    <3> QED
      BY <3>2, <3>3, RowSteps DEF Shapes
  <2> QED
    BY <2>1, <2>2, <2>3, <1>3, <1>4, SyncSteps, ConnectionSteps DEF Shapes
<1>8. AllFit'
  BY <1>1, FitsThen
<1>9. MeetingsKnown'
  <2>1. t.pc = "idle" \/ (task[r].pc # "idle" /\ t.op = task[r].op)
    BY <1>1, IdleFits DEF Arrives
  <2> QED
    BY <2>1, <1>2, <1>4 DEF MeetingsKnown
<1> QED
  BY <1>6, <1>7, <1>8, <1>9

LEMMA CoreBegins ==
    ASSUME CoreInv, NEW r \in Requests, Begin(r) \/ Fail(r) PROVE CoreInv'
<1> USE DEF CoreInv
<1>1. PICK t \in Locals : Become(r, t) /\ (t = Idle \/ (task[r] = Idle /\ Starts(t)))
  BY BeginsOrFails
<1>2. task' = [task EXCEPT ![r] = t] /\ task'[r] = t /\ \A q \in Requests : q # r => task'[q] = task[q]
  BY <1>1, Becomes DEF Become
<1>3. task' \in [Requests -> Locals]
  BY <1>1, <1>2 DEF Shapes
<1>4. UNCHANGED <<config, flows, conn, sync, dropped, edited, under, removed, answers>>
  BY BeginsOrFails DEF rows
<1>5. begun' \in 0..MaxEvents /\ failed' \subseteq Locations /\ IsFiniteSet(failed')
  <2>1. IsFiniteSet(failed) /\ Cardinality(failed) \in Nat /\ begun \in 0..MaxEvents
        /\ failed \subseteq Locations
    BY FS_CardinalityType DEF Shapes, TypeOK
  <2>2. CASE Begin(r)
    <3>1. begun + Cardinality(failed) < MaxEvents /\ begun' = begun + 1 /\ failed' = failed
      BY <2>2 DEF Begin
    <3> QED
      BY <2>1, <3>1, EventsAssumption
  <2>3. CASE Fail(r)
    <3>1. failed' = failed \union {task[r].pc} /\ begun' = begun
      BY <2>3 DEF Fail
    <3>2. IsFiniteSet(failed')
      BY <3>1, <2>1, FS_AddElement
    <3> QED
      BY <3>1, <3>2, <2>1 DEF TypeOK
  <2> QED
    BY <2>2, <2>3
<1>6. TypeOK'
  <2>1. \A q \in Requests :
           /\ task'[q].op \in Operations \union {"idle"} /\ task'[q].pc \in Locations
           /\ task'[q].id \in Configs \union {NoRow} /\ task'[q].of \in Configs \union {NoRow}
           /\ task'[q].conns \subseteq Connections /\ task'[q].syncs \subseteq Syncs
    BY <1>3 DEF Locals
  <2> QED
    BY <2>1, <1>4, <1>5 DEF TypeOK
<1>7. Shapes'
  BY <1>3, <1>4, <1>5 DEF Shapes
<1>8. AllFit'
  <2>1. \A q \in Requests : q # r => RequestFits(q)'
    BY <1>2, <1>4 DEF AllFit, RequestFits
  <2>2. RequestFits(r)'
    <3>1. CASE t = Idle
      BY <1>2, <3>1, IdleFits DEF RequestFits, PlacesOf, HasFound
    <3>2. CASE Starts(t)
      <4>1. t.pc \in PlacesOf[t.op] /\ t.pc \notin HasFound /\ t.pc \notin {"idle", "dropSyncs"}
        BY <3>2 DEF Starts, PlacesOf, Operations, HasFound, FirstStep
      <4> QED
        BY <1>2, <3>2, <4>1 DEF RequestFits, Starts
    <3> QED
      BY <1>1, <3>1, <3>2
  <2> QED
    BY <2>1, <2>2 DEF AllFit
<1>9. MeetingsKnown'
  <2>1. CASE t = Idle
    BY <2>1, <1>2, IdleFits, BeginsOrFails DEF MeetingsKnown
  <2>2. CASE t # Idle
    <3>1. Begin(r)
      BY <2>2, <1>2 DEF Fail, End, Become, Shapes
    <3>2. PICK op \in Operations :
            /\ Become(r, [Idle EXCEPT !.op = op, !.pc = FirstStep[op]])
            /\ overlaps' = overlaps \union
                  {{op, task[q].op} : q \in {q \in Requests \ {r} : task[q] # Idle}}
      BY <3>1 DEF Begin
    <3>3. t.op = op
      <4>1. task'[r] = [Idle EXCEPT !.op = op, !.pc = FirstStep[op]]
        BY <3>2, Becomes
      <4> QED
        BY ZenonT(60), <4>1, <1>2 DEF Idle
    <3>4. ASSUME NEW q \in Requests, q # r, task'[q].pc # "idle"
          PROVE  {t.op, task'[q].op} \in overlaps' /\ {task'[q].op, t.op} \in overlaps'
      <4>1. task'[q] = task[q] /\ task[q] # Idle
        BY <3>4, <1>2, IdleFits
      <4>2. {op, task[q].op} \in overlaps'
        BY <3>2, <3>4, <4>1
      <4>3. {task[q].op, op} = {op, task[q].op}
        OBVIOUS
      <4> QED
        BY <4>1, <4>2, <4>3, <3>3
    <3> QED
      BY <3>4, <1>2, BeginsOrFails DEF MeetingsKnown
  <2> QED
    BY <2>1, <2>2
<1> QED
  BY <1>6, <1>7, <1>8, <1>9

LEMMA CoreInit == ASSUME Init PROVE CoreInv
<1>1. PICK there \in BOOLEAN :
       /\ config = [i \in Configs |-> IF there /\ i = 1 THEN "live" ELSE "none"]
       /\ flows = IF there THEN {1} ELSE {}
       /\ conn = [c \in Connections |-> IF there /\ c = 1 THEN "live" ELSE "none"]
       /\ sync = [s \in Syncs |-> IF there /\ s = 1 THEN 1 ELSE NoRow]
       /\ under = [c \in Connections |-> IF there /\ c = 1 THEN 1 ELSE NoRow]
  BY DEF Init
<1>2. 1 \in Configs /\ 1 \in Connections /\ 1 \in Syncs
  BY RowsAssumption DEF Configs, Connections, Syncs
<1>3. /\ dropped = {} /\ task = [r \in Requests |-> Idle] /\ begun = 0
      /\ edited = [i \in Configs |-> i] /\ removed = [c \in Connections |-> NoRow]
      /\ answers = {} /\ failed = {} /\ overlaps = {}
  BY DEF Init
<1>4. \A r \in Requests : task[r] = Idle
  BY <1>3
<1>5. Shapes
  BY <1>1, <1>2, <1>3, IdleIsLocals, FS_EmptySet DEF Shapes
<1>6. TypeOK
  <2>1. 0 \in 0..MaxEvents
    BY EventsAssumption
  <2>2. \A r \in Requests :
       /\ task[r].op \in Operations \union {"idle"} /\ task[r].pc \in Locations
       /\ task[r].id \in Configs \union {NoRow} /\ task[r].of \in Configs \union {NoRow}
       /\ task[r].conns \subseteq Connections /\ task[r].syncs \subseteq Syncs
    BY <1>5, TypesOfLocals DEF Shapes
  <2>3. \A x \in Syncs : sync[x] # NoRow => sync[x] \in Connections /\ conn[sync[x]] # "none"
    BY <1>1, <1>2
  <2> QED
    BY <2>1, <2>2, <2>3, <1>1, <1>2, <1>3 DEF TypeOK
<1>7. AllFit
  BY <1>4, IdleFits DEF AllFit, RequestFits, PlacesOf, HasFound
<1>8. MeetingsKnown
  BY <1>4, IdleFits DEF MeetingsKnown
<1> QED
  BY <1>5, <1>6, <1>7, <1>8 DEF CoreInv

LEMMA CoreStays == ASSUME CoreInv, UNCHANGED vars PROVE CoreInv'
BY DEF CoreInv, vars, rows, TypeOK, Shapes, AllFit, RequestFits, MeetingsKnown

\* Every variable of Integrations keeps its type: a flow, a connection and a sync
\* always have an owner that was inserted before them.
THEOREM TypeCorrect == Spec => []TypeOK
<1>1. Init => CoreInv
  BY CoreInit
<1>2. CoreInv /\ [Next]_vars => CoreInv'
  BY CoreSteps, CoreBegins, CoreStays DEF Next
<1>3. CoreInv => TypeOK
  BY DEF CoreInv
<1> QED
  BY <1>1, <1>2, <1>3, PTL DEF Spec

(***************************************************************************)
(* An integration is whole.                                                *)
(***************************************************************************)

\* The awaits of a request that has nothing in its hands.
Fresh == {"idle", "check", "find", "findConnection", "target", "config", "rows"}

LEMMA OthersStay ==
    ASSUME CoreInv, NEW r \in Requests, Begin(r) \/ Fail(r), NEW q \in Requests
    PROVE  \/ task'[q] = task[q]
           \/ task'[q].pc \in Fresh /\ task'[q].conns = {}
<1>1. PICK t \in Locals : Become(r, t) /\ (t = Idle \/ Starts(t))
  BY BeginsOrFails
<1>2. t.pc \in Fresh /\ t.conns = {}
  BY <1>1, IdleFits DEF Starts, FirstStep, Operations, Fresh
<1> QED
  BY <1>1, <1>2, Becomes DEF CoreInv

LEMMA RowsStay ==
    ASSUME UNCHANGED rows
    PROVE  Live' = Live /\ LiveConnections' = LiveConnections /\ LiveSyncs' = LiveSyncs
BY DEF rows, Live, LiveConnections, LiveSyncs

\* After a statement the other requests are as they were, and its own has gone on.
LEMMA StepLocals ==
    ASSUME CoreInv, NEW r \in Requests, Step(r)
    PROVE  /\ \A q \in Requests : q # r => task'[q] = task[q]
           /\ \/ task'[r] = Idle
              \/ Arrives(r, task'[r]) /\ Dropping(r, task'[r])
<1>1. PICK t \in Locals : Become(r, t) /\ (t = Idle \/ (Arrives(r, t) /\ Dropping(r, t)))
  BY StepArrives
<1> QED
  BY <1>1, Becomes DEF CoreInv

\* The lists of syncs and what is left of them.
LEMMA LiveSyncSteps ==
    ASSUME CoreInv, NEW r \in Requests, Step(r), NEW x \in LiveSyncs'
    PROVE  \/ x \in LiveSyncs /\ x \notin dropped' /\ sync'[x] = sync[x]
           \/ task[r].pc = "createSyncs" /\ sync'[x] \in task[r].conns
<1>1. x \in Syncs /\ sync'[x] # NoRow /\ x \notin dropped'
  BY DEF LiveSyncs
<1> QED
  BY <1>1, SyncSteps DEF LiveSyncs

LEMMA OneConfigSteps ==
    ASSUME CoreInv, OneConfig, NEW r \in Requests, Step(r) PROVE OneConfig'
<1>1. overlaps' = overlaps
  BY RowSteps
<1>2. CreatedTwice' <=> CreatedTwice
  BY <1>1, MeetingsSame DEF CreatedTwice
<1>3. CASE CreatedTwice
  BY <1>2, <1>3 DEF OneConfig
<1>4. CASE ~CreatedTwice
  <2>0. /\ \A i, j \in Live : i = j
        /\ \A q \in Requests : task[q].pc = "insert" => Live = {}
    BY <1>4 DEF OneConfig
  <2>1. \A i, j \in Live' : i = j
    <3>1. CASE task[r].pc = "insert"
      BY <2>0, <3>1, ConfigSteps
    <3>2. CASE task[r].pc # "insert"
      BY <2>0, <3>2, ConfigSteps
    <3> QED
      BY <3>1, <3>2
  <2>2. ASSUME NEW q \in Requests, task'[q].pc = "insert" PROVE Live' = {}
    <3>1. CASE q = r
      <4>1. Arrives(r, task'[r])
        BY <2>2, <3>1, StepLocals, IdleFits
      <4> QED
        BY <2>2, <3>1, <4>1, RowsStay DEF Arrives
    <3>2. CASE q # r
      <4>1. task[q].pc = "insert"
        BY <2>2, <3>2, StepLocals
      <4>2. task[r].pc # "insert"
        <5>1. SUFFICES ASSUME task[r].pc = "insert" PROVE FALSE
          OBVIOUS
        <5>2. task[q].op \in Creators /\ task[r].op \in Creators
          BY <4>1, <5>1, KindsOfPlaces DEF Creators
        <5>3. task[q].op # "idle" /\ task[r].op # "idle"
          BY <5>2 DEF Creators
        <5> QED
          BY <5>2, <5>3, <3>2, <1>4, Met DEF CreatedTwice
      <4> QED
        BY <4>1, <4>2, <2>0, ConfigSteps
    <3> QED
      BY <3>1, <3>2
  <2> QED
    BY <2>1, <2>2 DEF OneConfig
<1> QED
  BY <1>3, <1>4

LEMMA FlowsGoSteps ==
    ASSUME CoreInv, FlowsGo, NEW r \in Requests, Step(r) PROVE FlowsGo'
<1> DEFINE Excuse == Together({"delete"}, {"deploy", "verify"})
<1>1. overlaps' = overlaps
  BY RowSteps
<1>2. Excuse' <=> Excuse
  BY <1>1, MeetingsSame
<1>3. CASE Excuse
  BY <1>2, <1>3 DEF FlowsGo
<1>4. CASE ~Excuse
  <2>0. /\ \A i \in flows : config[i] = "live"
        /\ \A q \in Requests :
               /\ task[q].pc = "dropConfig" => task[q].id \notin flows
               /\ task[q].pc = "insertFlow" => config[task[q].id] = "live"
    BY <1>4 DEF FlowsGo
  <2>a. \A q \in Requests : task[q].pc = "insertFlow" => task[q].id \in Live
    BY <2>0 DEF CoreInv, AllFit, RequestFits, HasFound, Live
  <2>b. flows \subseteq Live
    BY <2>0 DEF CoreInv, TypeOK, Live
  <2>1. ASSUME NEW i \in flows' PROVE config'[i] = "live"
    <3>1. CASE i \in flows
      <4>1. ~(DropConfig(r) /\ i = task[r].id)
        BY <3>1, <2>0 DEF DropConfig, At
      <4> QED
        BY <3>1, <4>1, <2>b, ConfigSteps DEF Live
    <3>2. CASE InsertFlow(r) /\ i = task[r].id
      <4>1. task[r].pc = "insertFlow"
        BY <3>2 DEF InsertFlow, At
      <4>2. ~DropConfig(r)
        BY <4>1 DEF DropConfig, At
      <4> QED
        BY <3>2, <4>1, <4>2, <2>a, ConfigSteps DEF Live
    <3> QED
      BY <3>1, <3>2, FlowSteps
  <2>2. ASSUME NEW q \in Requests, task'[q].pc = "dropConfig" PROVE task'[q].id \notin flows'
    <3>1. CASE q = r
      <4>1. Arrives(r, task'[r])
        BY <2>2, <3>1, StepLocals, IdleFits
      <4>2. DropFlows(r) /\ task[r].pc = "dropFlows"
        BY <2>2, <3>1, <4>1 DEF Arrives, DropFlows, At
      <4>3. task'[r].id = task[r].id
        BY <2>2, <3>1, <4>1, <4>2, KindsOfPlaces DEF Arrives
      <4> QED
        BY <3>1, <4>2, <4>3, FlowSteps
    <3>2. CASE q # r
      <4>1. task'[q] = task[q] /\ task[q].pc = "dropConfig" /\ task[q].id \notin flows
        BY <2>2, <3>2, <2>0, StepLocals
      <4>2. ~InsertFlow(r)
        <5>1. SUFFICES ASSUME InsertFlow(r) PROVE FALSE
          OBVIOUS
        <5>2. task[q].op \in {"delete"} /\ task[r].op \in {"deploy", "verify"}
          BY <4>1, <5>1, KindsOfPlaces DEF InsertFlow, At
        <5>3. task[q].op # "idle" /\ task[r].op # "idle"
          BY <5>2
        <5> QED
          BY <5>2, <5>3, <3>2, <1>4, Met
      <4> QED
        BY <4>1, <4>2, FlowSteps
    <3> QED
      BY <3>1, <3>2
  <2>3. ASSUME NEW q \in Requests, task'[q].pc = "insertFlow" PROVE config'[task'[q].id] = "live"
    <3>1. CASE q = r
      <4>1. Arrives(r, task'[r])
        BY <2>3, <3>1, StepLocals, IdleFits
      <4> QED
        BY <2>3, <3>1, <4>1 DEF Arrives, rows, Live
    <3>2. CASE q # r
      <4>1. task'[q] = task[q] /\ task[q].pc = "insertFlow" /\ task[q].id \in Live
        BY <2>3, <3>2, <2>a, StepLocals
      <4>2. ~DropConfig(r)
        <5>1. SUFFICES ASSUME DropConfig(r) PROVE FALSE
          OBVIOUS
        <5>2. task[r].op \in {"delete"} /\ task[q].op \in {"deploy", "verify"}
          BY <4>1, <5>1, KindsOfPlaces DEF DropConfig, At
        <5>3. task[q].op # "idle" /\ task[r].op # "idle"
          BY <5>2
        <5> QED
          BY <5>2, <5>3, <3>2, <1>4, Met
      <4> QED
        BY <4>1, <4>2, ConfigSteps DEF Live
    <3> QED
      BY <3>1, <3>2
  <2> QED
    BY <2>1, <2>2, <2>3 DEF FlowsGo
<1> QED
  BY <1>3, <1>4

\* Which statement each await of a deletion leads to.
LEMMA AwaitsOfDeletion ==
    ASSUME NEW r \in Requests, Step(r), task[r].pc = "dropConnections"
    PROVE  DropConnections(r)
BY DEF Step, At, Found, CheckExisting, CreateProviderConfig, FindEdited, EditProviderConfig,
   FindDeleted,
       ListSyncs, DropSync, DropFlows, DropConfig, DropConnections,
       FindTarget, Exchange, InsertConnection, GetSyncConfig, GetProvider,
       CreateSync, FindConnection, DropConnection, FindDeployed, InsertFlow,
       ListConnections, FindShown, FindFlows, ShowFlows, ListRows,
       ListProviderConfigs

LEMMA ConnectionsGoSteps ==
    ASSUME CoreInv, ConnectionsGo, NEW r \in Requests, Step(r) PROVE ConnectionsGo'
<1>1. overlaps' = overlaps /\ failed' = failed
  BY RowSteps
<1>2. LeftBehind' <=> LeftBehind
  BY <1>1, MeetingsSame DEF LeftBehind
<1>3. CASE LeftBehind
  BY <1>2, <1>3 DEF ConnectionsGo
<1>4. CASE ~LeftBehind
  <2>0. /\ \/ \A c \in LiveConnections : config[under[c]] = "live"
           \/ \E q \in Requests : task[q].pc = "dropConnections"
        /\ \A q \in Requests : task[q].pc = "connect" => config[task[q].id] = "live"
    BY <1>4 DEF ConnectionsGo
  <2>a. \A q \in Requests : task[q].pc = "connect" => task[q].id \in Live
    BY <2>0 DEF CoreInv, AllFit, RequestFits, HasFound, Live
  <2>1. \/ \A c \in LiveConnections' : config'[under'[c]] = "live"
        \/ \E q \in Requests : task'[q].pc = "dropConnections"
    <3>1. CASE DropConnections(r)
      BY <3>1, ConnectionSteps
    <3>2. CASE DropConfig(r)
      <4>1. Become(r, [task[r] EXCEPT !.pc = "dropConnections"])
        BY <3>2 DEF DropConfig, Goto
      <4>2. task'[r].pc = "dropConnections"
        BY <4>1, Becomes DEF CoreInv, Shapes, Locals
      <4> QED
        BY <4>2
    <3>3. CASE ~DropConnections(r) /\ \E q \in Requests : task[q].pc = "dropConnections"
      <4>1. PICK q \in Requests : task[q].pc = "dropConnections"
        BY <3>3
      <4>2. q # r
        BY <3>3, <4>1, AwaitsOfDeletion
      <4>3. task'[q] = task[q]
        BY <4>2, StepLocals
      <4> QED
        BY <4>1, <4>3
    <3>4. CASE ~DropConfig(r) /\ \A c \in LiveConnections : config[under[c]] = "live"
      <4> SUFFICES ASSUME NEW c \in LiveConnections' PROVE config'[under'[c]] = "live"
        OBVIOUS
      <4>1. c \in Connections /\ conn'[c] = "live"
        BY DEF LiveConnections
      <4>2. CASE c \in LiveConnections
        <5>1. under'[c] = under[c] /\ under[c] \in Configs /\ config[under[c]] = "live"
          BY <4>1, <4>2, <3>4, ConnectionSteps DEF LiveConnections, CoreInv, TypeOK
        <5> QED
          BY <5>1, <3>4, ConfigSteps DEF Live
      <4>3. CASE conn[c] = "none"
        <5>1. InsertConnection(r) /\ under'[c] = task[r].id
          BY <4>1, <4>3, ConnectionSteps
        <5>2. task[r].id \in Live
          BY <5>1, <2>a DEF InsertConnection, At
        <5> QED
          BY <5>1, <5>2, <3>4, ConfigSteps DEF Live
      <4> QED
        BY <4>2, <4>3, ConnectionSteps
    <3> QED
      BY <3>1, <3>2, <3>3, <3>4, <2>0
  <2>2. ASSUME NEW q \in Requests, task'[q].pc = "connect" PROVE config'[task'[q].id] = "live"
    <3>1. CASE q = r
      <4>1. Arrives(r, task'[r])
        BY <2>2, <3>1, StepLocals, IdleFits
      <4> QED
        BY <2>2, <3>1, <4>1 DEF Arrives, rows, Live
    <3>2. CASE q # r
      <4>1. task'[q] = task[q] /\ task[q].pc = "connect" /\ task[q].id \in Live
        BY <2>2, <3>2, <2>a, StepLocals
      <4>2. ~DropConfig(r)
        <5>1. SUFFICES ASSUME DropConfig(r) PROVE FALSE
          OBVIOUS
        <5>2. task[r].op \in {"delete"} /\ task[q].op \in {"authorize"}
          BY <4>1, <5>1, KindsOfPlaces DEF DropConfig, At
        <5>3. task[q].op # "idle" /\ task[r].op # "idle"
          BY <5>2
        <5> QED
          BY <5>2, <5>3, <3>2, <1>4, Met DEF LeftBehind
      <4> QED
        BY <4>1, <4>2, ConfigSteps DEF Live
    <3> QED
      BY <3>1, <3>2
  <2> QED
    BY <2>1, <2>2 DEF ConnectionsGo
<1> QED
  BY <1>3, <1>4

LEMMA SyncsGoSteps ==
    ASSUME CoreInv, SyncsGo, NEW r \in Requests, Step(r) PROVE SyncsGo'
<1> USE DEF DropsAll
<1>1. overlaps' = overlaps /\ failed' = failed
  BY RowSteps
<1>2. SyncsSurvive' <=> SyncsSurvive
  BY <1>1, MeetingsSame DEF SyncsSurvive
<1>3. CASE SyncsSurvive
  BY <1>2, <1>3 DEF SyncsGo
<1>4. CASE ~SyncsSurvive
  <2> DEFINE s == task[r]
             t == task'[r]
  <2>0. (\A x \in LiveSyncs : conn[sync[x]] = "live") /\ \A q \in Requests : DropsAll(q)
    BY <1>4 DEF SyncsGo
  <2>a. \A x \in LiveSyncs : sync[x] \in LiveConnections
    BY <2>0 DEF CoreInv, TypeOK, LiveSyncs, LiveConnections
  <2>b. \A q \in Requests :
           task[q].op \in {"deploy", "authorize"} => task[q].conns \subseteq LiveConnections
    BY <2>0, TypesOfLocals DEF CoreInv, Shapes, LiveConnections
  \* Nobody deletes while somebody starts syncs.
  <2>c. ASSUME NEW q \in Requests, q # r
        PROVE  ~(task[q].op \in {"delete", "disconnect"} /\ s.op \in {"deploy", "authorize"})
               /\ ~(s.op \in {"delete", "disconnect"} /\ task[q].op \in {"deploy", "authorize"})
    <3>1. CASE task[q].op \in {"delete", "disconnect"} /\ s.op \in {"deploy", "authorize"}
      <4>1. task[q].op # "idle" /\ s.op # "idle"
        BY <3>1
      <4> QED
        BY <2>c, <3>1, <4>1, <1>4, Met DEF SyncsSurvive
    <3>2. CASE s.op \in {"delete", "disconnect"} /\ task[q].op \in {"deploy", "authorize"}
      <4>1. task[q].op # "idle" /\ s.op # "idle"
        BY <3>2
      <4> QED
        BY <2>c, <3>2, <4>1, <1>4, Met DEF SyncsSurvive
    <3> QED
      BY <3>1, <3>2
  <2>d. s.pc \in {"dropConnections", "disconnect"} => s.op \in {"delete", "disconnect"}
    BY KindsOfPlaces
  <2>e. DropConnections(r) => s.pc = "dropConnections"
    BY DEF DropConnections, At
  \* Whoever starts no sync leaves those there are, or drops some.
  <2>f. s.op \notin {"deploy", "authorize"} =>
           \A x \in LiveSyncs' : x \in LiveSyncs /\ x \notin dropped' /\ sync'[x] = sync[x]
    BY LiveSyncSteps, KindsOfPlaces
  \* Whoever deletes no connection leaves them live.
  <2>g. s.op \notin {"delete", "disconnect"} => LiveConnections \subseteq LiveConnections'
    BY <2>d, <2>e, ConnectionSteps
  <2>1. \A x \in LiveSyncs' : conn'[sync'[x]] = "live"
    <3> SUFFICES ASSUME NEW x \in LiveSyncs' PROVE sync'[x] \in LiveConnections'
      BY DEF LiveConnections
    <3>1. CASE x \in LiveSyncs /\ sync'[x] = sync[x]
      <4>1. sync[x] \in LiveConnections
        BY <3>1, <2>a
      <4>2. ~DropConnections(r)
        BY <3>1, <2>0, <2>e
      <4>3. ~(s.pc = "disconnect" /\ sync[x] \in s.conns)
        BY <3>1, <2>0
      <4> QED
        BY <3>1, <4>1, <4>2, <4>3, ConnectionSteps
    <3>2. CASE s.pc = "createSyncs" /\ sync'[x] \in s.conns
      <4>1. s.op \in {"deploy", "authorize"}
        BY <3>2, KindsOfPlaces
      <4> QED
        BY <3>2, <4>1, <2>b, <2>g
    <3> QED
      BY <3>1, <3>2, LiveSyncSteps
  <2>2. ASSUME NEW q \in Requests, q # r PROVE DropsAll(q)'
    <3>1. task'[q] = task[q] /\ DropsAll(q)
      BY <2>2, <2>0, StepLocals
    <3>2. CASE task[q].op \in {"deploy", "authorize"}
      <4>1. LiveConnections \subseteq LiveConnections'
        BY <2>2, <3>2, <2>c, <2>g
      <4>2. \A c \in task[q].conns : conn'[c] = "live"
        BY <3>2, <4>1, <2>b DEF LiveConnections
      <4>3. task[q].pc \notin {"dropFlows", "dropConfig", "dropConnections", "disconnect"}
        BY <3>2, KindsOfPlaces
      <4> QED
        BY <3>1, <3>2, <4>2, <4>3
    <3>3. CASE task[q].op \in {"delete", "disconnect"}
      <4>1. \A x \in LiveSyncs' : x \in LiveSyncs /\ sync'[x] = sync[x]
        BY <2>2, <3>3, <2>c, <2>f
      <4> QED
        BY <3>1, <3>3, <4>1
    <3>4. CASE task[q].op \notin {"deploy", "authorize", "delete", "disconnect"}
      <4>1. task[q].pc \notin {"dropFlows", "dropConfig", "dropConnections", "disconnect"}
        BY <3>4, KindsOfPlaces
      <4> QED
        BY <3>1, <3>4, <4>1
    <3> QED
      BY <3>2, <3>3, <3>4
  <2>3. DropsAll(r)'
    <3>1. CASE t = Idle
      BY <3>1, IdleFits
    <3>2. CASE Arrives(r, t) /\ Dropping(r, t)
      <4>0. /\ t.op = s.op /\ t.pc \in PlacesOf[t.op]
            /\ s.op \in Operations \union {"idle"} /\ s.syncs \subseteq Syncs
        BY <3>2, TypesOfLocals DEF Arrives, CoreInv, Shapes
      <4>a. DropsAll(r)
        BY <2>0
      <4>1. ASSUME t.op \in {"deploy", "authorize"}, NEW c \in t.conns PROVE conn'[c] = "live"
        <5>1. c \in s.conns \/ conn'[c] = "live"
          BY <3>2 DEF Arrives
        <5>2. c \in s.conns => c \in LiveConnections'
          BY <4>1, <4>0, <2>b, <2>g
        <5> QED
          BY <5>1, <5>2 DEF LiveConnections
      <4>2. ASSUME t.op = "delete", t.pc \in {"dropSyncs", "dropFlows"}
            PROVE  LiveSyncs' \subseteq t.syncs /\ (t.pc = "dropFlows" => t.syncs = {})
        <5>1. CASE /\ s.pc = "listSyncs" /\ UNCHANGED rows
                   /\ t.syncs = {x \in LiveSyncs : sync[x] \in LiveConnections}
                   /\ t.pc = "dropFlows" => t.syncs = {}
          BY <5>1, <2>a, RowsStay
        <5>2. CASE /\ s.pc = "dropSyncs"
                   /\ \E x \in s.syncs : /\ dropped' = dropped \union {x} /\ t.syncs = s.syncs \ {x}
                                         /\ t.pc = "dropFlows" => t.syncs = {}
          <6>1. LiveSyncs \subseteq s.syncs
            BY <5>2, <4>0, <4>2, <4>a
          <6>2. \A x \in LiveSyncs' : x \in LiveSyncs /\ x \notin dropped'
            BY <4>0, <4>2, <2>f
          <6> QED
            BY <5>2, <6>1, <6>2
        <5> QED
          BY <4>2, <3>2, <5>1, <5>2 DEF Dropping
      <4>3. ASSUME t.pc \in {"dropFlows", "dropConfig", "dropConnections"} PROVE LiveSyncs' = {}
        <5>1. t.op = "delete"
          BY <4>0, <4>3 DEF PlacesOf, Operations
        <5>2. CASE t.pc = "dropFlows"
          BY <5>1, <5>2, <4>2
        <5>3. CASE t.pc \in {"dropConfig", "dropConnections"}
          <6>1. s.pc \in {"dropFlows", "dropConfig"}
            BY <3>2, <5>3 DEF Arrives, DropFlows, DropConfig, At
          <6>2. LiveSyncs = {}
            BY <6>1, <4>a
          <6> QED
            BY <5>1, <6>2, <4>0, <2>f
        <5> QED
          BY <4>3, <5>2, <5>3
      <4>4. ASSUME t.op = "disconnect"
            PROVE  /\ \A x \in LiveSyncs' : sync'[x] \in t.conns => x \in t.syncs
                   /\ t.pc = "disconnect" => t.syncs = {}
        <5>1. CASE /\ s.pc = "findConnection" /\ UNCHANGED rows
                   /\ \E c \in LiveConnections :
                         /\ t.conns = {c} /\ t.syncs = {x \in LiveSyncs : sync[x] = c}
                         /\ t.pc = "disconnect" => t.syncs = {}
          <6>1. LiveSyncs' = LiveSyncs /\ sync' = sync
            BY <5>1, RowsStay DEF rows
          <6> QED
            BY <5>1, <6>1
        <5>2. CASE /\ s.pc = "dropSyncs" /\ t.conns = s.conns
                   /\ \E x \in s.syncs : /\ dropped' = dropped \union {x} /\ t.syncs = s.syncs \ {x}
                                         /\ t.pc = "disconnect" => t.syncs = {}
          <6>1. \A x \in LiveSyncs : sync[x] \in s.conns => x \in s.syncs
            BY <5>2, <4>0, <4>4, <4>a
          <6>2. \A x \in LiveSyncs' : x \in LiveSyncs /\ x \notin dropped' /\ sync'[x] = sync[x]
            BY <4>0, <4>4, <2>f
          <6> QED
            BY <5>2, <6>1, <6>2
        <5> QED
          BY <4>4, <3>2, <5>1, <5>2 DEF Dropping
      <4>5. t.pc = "disconnect" => t.op = "disconnect"
        BY <4>0 DEF PlacesOf, Operations
      <4> HIDE DEF s
      <4>6. /\ t.op \in {"deploy", "authorize"} => \A c \in t.conns : conn'[c] = "live"
            /\ t.op = "delete" /\ t.pc = "dropSyncs" => LiveSyncs' \subseteq t.syncs
            /\ t.pc \in {"dropFlows", "dropConfig", "dropConnections"} => LiveSyncs' = {}
            /\ t.op = "disconnect" /\ t.pc = "dropSyncs" =>
                  \A x \in LiveSyncs' : sync'[x] \in t.conns => x \in t.syncs
            /\ t.pc = "disconnect" => \A x \in LiveSyncs' : sync'[x] \notin t.conns
        BY <4>1, <4>2, <4>3, <4>4, <4>5
      <4> QED
        BY <4>6
    <3> QED
      BY <3>1, <3>2, StepLocals
  <2>4. \A q \in Requests : DropsAll(q)'
    BY <2>2, <2>3
  <2> QED
    BY <2>1, <2>4 DEF SyncsGo
<1> QED
  BY <1>3, <1>4

\* A request that begins or fails has nothing in its hands.
LEMMA WholeBegins ==
    ASSUME WholeInv, NEW r \in Requests, Begin(r) \/ Fail(r) PROVE WholeInv'
<1>0. CoreInv /\ CoreInv'
  BY CoreBegins DEF WholeInv
<1>1. /\ UNCHANGED <<config, flows, conn, sync, under>>
      /\ failed \subseteq failed' /\ overlaps \subseteq overlaps'
      /\ Live' = Live /\ LiveConnections' = LiveConnections /\ LiveSyncs' = LiveSyncs
  BY BeginsOrFails, RowsStay DEF rows
<1>2. \A q \in Requests : task'[q] = task[q] \/ (task'[q].pc \in Fresh /\ task'[q].conns = {})
  BY <1>0, OthersStay
<1>3. OneConfig'
  <2>1. CreatedTwice => CreatedTwice'
    BY <1>1, MeetingsStay DEF CreatedTwice
  <2> QED
    BY <2>1, <1>1, <1>2 DEF WholeInv, OneConfig, Fresh
<1>4. FlowsGo'
  <2>1. Together({"delete"}, {"deploy", "verify"}) => Together({"delete"}, {"deploy", "verify"})'
    BY <1>1, MeetingsStay
  <2> QED
    BY <2>1, <1>1, <1>2 DEF WholeInv, FlowsGo, Fresh
<1>5. ConnectionsGo'
  <2>1. LeftBehind => LeftBehind'
    BY <1>1, MeetingsStay DEF LeftBehind
  <2>2. CASE LeftBehind
    BY <2>1, <2>2 DEF ConnectionsGo
  <2>3. CASE ~LeftBehind
    <3>1. \A q \in Requests : task'[q].pc = "connect" => config'[task'[q].id] = "live"
      BY <2>3, <1>1, <1>2 DEF WholeInv, ConnectionsGo, Fresh
    <3>2. ASSUME NEW q \in Requests, task[q].pc = "dropConnections"
          PROVE  LeftBehind' \/ task'[q].pc = "dropConnections"
      <4>1. CASE q = r
        <5>1. task[r].pc \in failed'
          BY <3>2, <4>1, BeginsOrFails, IdleFits
        <5> QED
          BY <5>1, <3>2, <4>1 DEF LeftBehind
      <4>2. CASE q # r
        <5>1. task'[q] = task[q]
          BY <4>2, <1>0, BeginsOrFails, Becomes DEF CoreInv
        <5> QED
          BY <5>1, <3>2
      <4> QED
        BY <4>1, <4>2
    <3> QED
      BY <2>3, <3>1, <3>2, <1>1 DEF WholeInv, ConnectionsGo
  <2> QED
    BY <2>2, <2>3
<1>6. SyncsGo'
  <2>1. SyncsSurvive => SyncsSurvive'
    BY <1>1, MeetingsStay DEF SyncsSurvive
  <2>2. CASE SyncsSurvive
    BY <2>1, <2>2 DEF SyncsGo
  <2>3. CASE ~SyncsSurvive
    <3>1. \A x \in LiveSyncs' : conn'[sync'[x]] = "live"
      BY <2>3, <1>1 DEF WholeInv, SyncsGo
    <3>2. ASSUME NEW q \in Requests PROVE DropsAll(q)'
      <4>1. CASE task'[q] = task[q]
        BY <4>1, <2>3, <1>1 DEF WholeInv, SyncsGo, DropsAll
      <4>2. CASE task'[q].pc \in Fresh /\ task'[q].conns = {}
        BY <4>2 DEF DropsAll, Fresh
      <4> QED
        BY <4>1, <4>2, <1>2
    <3> QED
      BY <3>1, <3>2 DEF SyncsGo
  <2> QED
    BY <2>2, <2>3
<1> QED
  BY <1>0, <1>3, <1>4, <1>5, <1>6 DEF WholeInv

LEMMA WholeInit == ASSUME Init PROVE WholeInv
<1>1. PICK there \in BOOLEAN :
       /\ config = [i \in Configs |-> IF there /\ i = 1 THEN "live" ELSE "none"]
       /\ flows = IF there THEN {1} ELSE {}
       /\ conn = [c \in Connections |-> IF there /\ c = 1 THEN "live" ELSE "none"]
       /\ sync = [s \in Syncs |-> IF there /\ s = 1 THEN 1 ELSE NoRow]
       /\ under = [c \in Connections |-> IF there /\ c = 1 THEN 1 ELSE NoRow]
  BY DEF Init
<1>2. 1 \in Configs /\ 1 \in Connections /\ 1 \in Syncs
  BY RowsAssumption DEF Configs, Connections, Syncs
<1>3. \A r \in Requests : task[r] = Idle
  BY DEF Init
<1>4. \A i, j \in Live : i = j
  BY <1>1, <1>2 DEF Live
<1>5. \A i \in flows : config[i] = "live"
  BY <1>1, <1>2
<1>6. \A c \in LiveConnections : config[under[c]] = "live"
  BY <1>1, <1>2 DEF LiveConnections
<1>7. \A x \in LiveSyncs : conn[sync[x]] = "live"
  BY <1>1, <1>2 DEF LiveSyncs
<1>8. \A r \in Requests : DropsAll(r)
  BY <1>3, IdleFits DEF DropsAll
<1> QED
  BY <1>3, <1>4, <1>5, <1>6, <1>7, <1>8, IdleFits, CoreInit
     DEF WholeInv, OneConfig, FlowsGo, ConnectionsGo, SyncsGo

LEMMA WholeStays == ASSUME WholeInv, UNCHANGED vars PROVE WholeInv'
<1>1. CoreInv'
  BY CoreStays DEF WholeInv
<1>2. /\ UNCHANGED <<config, flows, conn, sync, under, task, failed, overlaps>>
      /\ Live' = Live /\ LiveConnections' = LiveConnections /\ LiveSyncs' = LiveSyncs
  BY RowsStay DEF vars, rows
<1> QED
  BY <1>1, <1>2 DEF WholeInv, OneConfig, FlowsGo, ConnectionsGo, SyncsGo, DropsAll, Together,
                    CreatedTwice, LeftBehind, SyncsSurvive

LEMMA WholeSteps == ASSUME WholeInv, [Next]_vars PROVE WholeInv'
<1>1. ASSUME NEW r \in Requests, Step(r) PROVE WholeInv'
  BY <1>1, CoreSteps, OneConfigSteps, FlowsGoSteps, ConnectionsGoSteps, SyncsGoSteps
     DEF WholeInv
<1> QED
  BY <1>1, WholeBegins, WholeStays DEF Next

LEMMA WholeIsWhole == ASSUME WholeInv PROVE IntegrationIsWhole
<1>1. OneIntegration
  <2>1. CASE \A i, j \in Live : i = j
    <3>1. CASE Live = {}
      BY <3>1, FS_EmptySet DEF OneIntegration
    <3>2. CASE Live # {}
      <4>1. PICK i \in Live : Live = {i}
        BY <2>1, <3>2
      <4>2. Cardinality({i}) = 1
        BY FS_Singleton
      <4> QED
        BY <4>1, <4>2 DEF OneIntegration
    <3> QED
      BY <3>1, <3>2
  <2> QED
    BY <2>1 DEF WholeInv, OneConfig, OneIntegration
<1>2. DeletionIsComplete
  <2> SUFFICES ASSUME \A r \in Requests : task[r] = Idle,
                      NEW i \in Configs, config[i] = "deleted"
               PROVE  /\ i \notin flows \/ Together({"delete"}, {"deploy", "verify"})
                      /\ \A c \in LiveConnections : under[c] # i \/ LeftBehind
                      /\ \A x \in LiveSyncs :
                            under[sync[x]] # i \/ "dropConnections" \in failed
                            \/ Together({"delete", "disconnect"}, {"deploy", "authorize"})
    BY DEF DeletionIsComplete
  <2>1. i \notin flows \/ Together({"delete"}, {"deploy", "verify"})
    BY DEF WholeInv, FlowsGo
  <2>2. LeftBehind \/ \A c \in LiveConnections : under[c] # i
    BY IdleFits DEF WholeInv, ConnectionsGo
  <2>3. LeftBehind => SyncsSurvive
    BY DEF LeftBehind, SyncsSurvive, Together
  <2>4. ASSUME ~SyncsSurvive, NEW x \in LiveSyncs PROVE under[sync[x]] # i
    <3>1. sync[x] \in LiveConnections
      BY <2>4 DEF WholeInv, SyncsGo, CoreInv, TypeOK, LiveSyncs, LiveConnections
    <3> QED
      BY <3>1, <2>2, <2>3, <2>4
  <2> QED
    BY <2>1, <2>2, <2>4 DEF SyncsSurvive
<1> QED
  BY <1>1, <1>2 DEF IntegrationIsWhole

\* One live config has the key, unless two creations of it met; and nothing of a
\* deleted integration is left, no flow, no connection and no sync, unless a request
\* that makes one met the deletion, or the deletion failed where it cannot be repeated.
THEOREM KeyHasOne == Spec => []IntegrationIsWhole
<1>1. Init => WholeInv
  BY WholeInit
<1>2. WholeInv /\ [Next]_vars => WholeInv'
  BY WholeSteps
<1>3. WholeInv => IntegrationIsWhole
  BY WholeIsWhole
<1> QED
  BY <1>1, <1>2, <1>3, PTL DEF Spec

(***************************************************************************)
(* A request stays with the integration it has found.                      *)
(***************************************************************************)

LEMMA InsertMeets ==
    ASSUME CoreInv, NEW r \in Requests, NEW q \in Requests, q # r, task[r].pc = "insert",
           NEW S, task[q].op \in S, task[q].op # "idle"
    PROVE  Together(S, Creators)
<1>1. task[r].op \in Creators /\ task[r].op # "idle"
  BY KindsOfPlaces DEF Creators
<1> QED
  BY <1>1, Met

\* The key gets another config by a creation only.
LEMMA LiveSteps ==
    ASSUME CoreInv, NEW r \in Requests, Step(r), task[r].pc # "insert" PROVE Live' \subseteq Live
BY ConfigSteps

LEMMA EditsFitSteps ==
    ASSUME WholeInv, EditsFit, NEW r \in Requests, Step(r) PROVE EditsFit'
<1> DEFINE Excuse == Together({"edit"}, Creators) \/ CreatedTwice
<1>1. overlaps' = overlaps /\ CoreInv
  BY RowSteps DEF WholeInv
<1>2. Excuse' <=> Excuse
  BY <1>1, MeetingsSame DEF CreatedTwice
<1>3. CASE Excuse
  BY <1>2, <1>3 DEF EditsFit
<1>4. CASE ~Excuse
  <2>0. /\ \A i \in Configs : edited[i] = i
        /\ \A q \in Requests : task[q].pc = "update" => \A i \in Live : i = task[q].id
        /\ \A i, j \in Live : i = j
    BY <1>4 DEF EditsFit, WholeInv, OneConfig
  <2>1. \A i \in Configs : edited'[i] = i
    <3>1. CASE EditProviderConfig(r)
      BY <3>1, <2>0 DEF EditProviderConfig, At
    <3> QED
      BY <3>1, <2>0, RowSteps
  <2>2. ASSUME NEW q \in Requests, task'[q].pc = "update", NEW i \in Live' PROVE i = task'[q].id
    <3>1. CASE q = r
      <4>1. Arrives(r, task'[r])
        BY <1>1, <2>2, <3>1, StepLocals, IdleFits
      <4> QED
        BY <2>2, <3>1, <4>1, <2>0, RowsStay DEF Arrives
    <3>2. CASE q # r
      <4>1. task'[q] = task[q] /\ task[q].pc = "update" /\ task[q].op = "edit"
        BY <1>1, <2>2, <3>2, StepLocals, KindsOfPlaces
      <4>2. task[r].pc # "insert"
        <5>1. task[q].op \in {"edit"} /\ task[q].op # "idle"
          BY <4>1
        <5> QED
          BY <5>1, <1>1, <1>4, <3>2, InsertMeets
      <4> QED
        BY <1>1, <4>1, <4>2, <2>0, LiveSteps
    <3> QED
      BY <3>1, <3>2
  <2> QED
    BY <2>1, <2>2 DEF EditsFit
<1> QED
  BY <1>3, <1>4

LEMMA NoneRemovedSteps ==
    ASSUME CoreInv, NoneRemoved, NEW r \in Requests, Step(r) PROVE NoneRemoved'
<1>1. ASSUME NEW c \in Connections, conn'[c] = "none" PROVE removed'[c] = NoRow
  <2>1. conn[c] = "none" /\ c \notin LiveConnections
    BY <1>1, ConnectionSteps DEF LiveConnections
  <2> QED
    BY <2>1, RowSteps DEF NoneRemoved, DropConnections
<1> QED
  BY <1>1 DEF NoneRemoved

LEMMA RemovalsFitSteps ==
    ASSUME WholeInv, RemovalsFit, NoneRemoved, NEW r \in Requests, Step(r) PROVE RemovalsFit'
<1> DEFINE Excuse == Together({"delete"}, Creators) \/ CreatedTwice \/ LeftBehind
<1>1. overlaps' = overlaps /\ failed' = failed /\ CoreInv
  BY RowSteps DEF WholeInv
<1>2. Excuse' <=> Excuse
  BY <1>1, MeetingsSame DEF CreatedTwice, LeftBehind
<1>3. CASE Excuse
  BY <1>2, <1>3 DEF RemovalsFit
<1>4. CASE ~Excuse
  <2> DEFINE Deleting(q) == task[q].op = "delete" /\ task[q].pc # "find"
  <2>0. /\ \A c \in Connections : removed[c] \in {NoRow, under[c]}
        /\ \A q \in Requests : Deleting(q) =>
              /\ \A i \in Live : i = task[q].id
              /\ \A c \in LiveConnections : under[c] = task[q].id
        /\ \A i, j \in Live : i = j
    BY <1>4 DEF RemovalsFit, WholeInv, OneConfig
  <2>a. \A c \in LiveConnections : c \in Connections /\ conn[c] # "none" /\ under'[c] = under[c]
    BY <1>1, ConnectionSteps DEF LiveConnections
  <2>1. ASSUME NEW c \in Connections PROVE removed'[c] \in {NoRow, under'[c]}
    <3>1. CASE DropConnections(r)
      <4>1. Deleting(r)
        BY <1>1, <3>1, KindsOfPlaces DEF DropConnections, At
      <4>2. removed'[c] = (IF c \in LiveConnections THEN task[r].id ELSE removed[c]) /\ under' = under
        BY <3>1 DEF DropConnections
      <4> QED
        BY <4>1, <4>2, <2>0
    <3>2. CASE ~DropConnections(r)
      <4>1. removed' = removed
        BY <3>2, RowSteps
      <4>2. CASE conn[c] = "none"
        BY <4>1, <4>2 DEF NoneRemoved
      <4>3. CASE conn[c] # "none"
        BY <1>1, <4>1, <4>3, <2>0, ConnectionSteps
      <4> QED
        BY <4>2, <4>3
    <3> QED
      BY <3>1, <3>2
  <2>2. ASSUME NEW q \in Requests, task'[q].op = "delete", task'[q].pc # "find"
        PROVE  /\ \A i \in Live' : i = task'[q].id
               /\ \A c \in LiveConnections' : under'[c] = task'[q].id
    <3>1. CASE q = r
      <4>1. Arrives(r, task'[r])
        BY <1>1, <2>2, <3>1, StepLocals, IdleFits
      <4>2. task[r].op = "delete"
        BY <2>2, <3>1, <4>1 DEF Arrives
      <4>3. CASE task'[r].pc = "listSyncs"
        <5>1. task'[r].id \in Live /\ UNCHANGED rows
          BY <4>1, <4>3 DEF Arrives
        <5>2. ASSUME NEW c \in LiveConnections PROVE under[c] = task'[r].id
          <6>1. CASE config[under[c]] = "live"
            <7>1. under[c] \in Live
              BY <6>1, <1>1, <2>a DEF CoreInv, TypeOK, Live
            <7> QED
              BY <7>1, <5>1, <2>0
          <6>2. CASE \E d \in Requests : task[d].pc = "dropConnections"
            <7>1. PICK d \in Requests : task[d].pc = "dropConnections"
              BY <6>2
            <7>2. Deleting(d)
              BY <1>1, <7>1, KindsOfPlaces
            <7> QED
              BY <7>2, <5>1, <2>0
          <6> QED
            BY <6>1, <6>2, <1>4 DEF WholeInv, ConnectionsGo
        <5> QED
          BY <3>1, <5>1, <5>2, <2>0, <2>a, RowsStay
      <4>4. CASE task'[r].pc # "listSyncs"
        <5>1. task'[r].id = task[r].id /\ Deleting(r)
          BY <4>1, <4>2, <4>4, <2>2, <3>1 DEF Arrives
        <5>2. task[r].pc # "insert" /\ ~InsertConnection(r)
          BY <1>1, <4>2, KindsOfPlaces DEF InsertConnection, At
        <5>3. Live' \subseteq Live /\ LiveConnections' \subseteq LiveConnections
          <6>1. \A c \in LiveConnections' : c \in Connections /\ conn'[c] # "none"
            BY DEF LiveConnections
          <6> QED
            BY <1>1, <5>2, <6>1, LiveSteps, ConnectionSteps
        <5> QED
          BY <3>1, <5>1, <5>3, <2>0, <2>a
      <4> QED
        BY <4>3, <4>4
    <3>2. CASE q # r
      <4>1. task'[q] = task[q] /\ Deleting(q)
        BY <1>1, <2>2, <3>2, StepLocals
      <4>2. task[r].pc # "insert"
        <5>1. task[q].op \in {"delete"} /\ task[q].op # "idle"
          BY <4>1
        <5> QED
          BY <5>1, <1>1, <1>4, <3>2, InsertMeets
      <4>3. ~InsertConnection(r)
        <5>1. SUFFICES ASSUME InsertConnection(r) PROVE FALSE
          OBVIOUS
        <5>2. task[q].op \in {"delete"} /\ task[r].op \in {"authorize"}
          BY <1>1, <4>1, <5>1, KindsOfPlaces DEF InsertConnection, At
        <5>3. task[q].op # "idle" /\ task[r].op # "idle"
          BY <5>2
        <5> QED
          BY <1>1, <5>2, <5>3, <3>2, <1>4, Met DEF LeftBehind
      <4>4. Live' \subseteq Live /\ LiveConnections' \subseteq LiveConnections
        <5>1. \A c \in LiveConnections' : c \in Connections /\ conn'[c] # "none"
          BY DEF LiveConnections
        <5> QED
          BY <1>1, <4>2, <4>3, <5>1, LiveSteps, ConnectionSteps
      <4> QED
        BY <4>1, <4>4, <2>0, <2>a
    <3> QED
      BY <3>1, <3>2
  <2> QED
    BY <2>1, <2>2 DEF RemovalsFit
<1> QED
  BY <1>3, <1>4

LEMMA FlowsShownSteps ==
    ASSUME WholeInv, FlowsShown, NEW r \in Requests, Step(r) PROVE FlowsShown'
<1> DEFINE Excuse == Together({"read"}, Creators) \/ CreatedTwice
<1>1. overlaps' = overlaps /\ CoreInv
  BY RowSteps DEF WholeInv
<1>2. Excuse' <=> Excuse
  BY <1>1, MeetingsSame DEF CreatedTwice
<1>3. CASE Excuse
  BY <1>2, <1>3 DEF FlowsShown
<1>4. CASE ~Excuse
  <2>0. /\ \A a \in answers : a.shows = "flow" => a.of \in {a.config, NoRow}
        /\ \A q \in Requests :
               /\ task[q].pc = "flowId" => \A i \in Live : i = task[q].id
               /\ task[q].pc = "flow" => task[q].of \in {task[q].id, NoRow}
        /\ \A i, j \in Live : i = j
    BY <1>4 DEF FlowsShown, WholeInv, OneConfig
  <2>1. \A a \in answers' : a.shows = "flow" => a.of \in {a.config, NoRow}
    <3>1. CASE ShowFlows(r)
      <4>1. task[r].of \in {task[r].id, NoRow}
        BY <3>1, <2>0 DEF ShowFlows, At
      <4>2. PICK of \in {task[r].id, NoRow} :
               answers' = answers \union {[shows |-> "flow", config |-> task[r].id, of |-> of]}
        BY <3>1, <4>1 DEF ShowFlows
      <4> QED
        BY <4>2, <2>0
    <3>2. CASE ListProviderConfigs(r)
      <4>1. PICK i \in First(Live) :
               answers' = answers \union {[shows |-> "connection", config |-> i, of |-> task[r].of]}
        BY <3>2 DEF ListProviderConfigs
      <4> QED
        BY <4>1, <2>0
    <3> QED
      BY <3>1, <3>2, <2>0, RowSteps
  <2>2. ASSUME NEW q \in Requests, task'[q].pc = "flowId", NEW i \in Live' PROVE i = task'[q].id
    <3>1. CASE q = r
      <4>1. Arrives(r, task'[r])
        BY <1>1, <2>2, <3>1, StepLocals, IdleFits
      <4> QED
        BY <2>2, <3>1, <4>1, <2>0, RowsStay DEF Arrives
    <3>2. CASE q # r
      <4>1. task'[q] = task[q] /\ task[q].pc = "flowId" /\ task[q].op = "read"
        BY <1>1, <2>2, <3>2, StepLocals, KindsOfPlaces
      <4>2. task[r].pc # "insert"
        <5>1. task[q].op \in {"read"} /\ task[q].op # "idle"
          BY <4>1
        <5> QED
          BY <5>1, <1>1, <1>4, <3>2, InsertMeets
      <4> QED
        BY <1>1, <4>1, <4>2, <2>0, LiveSteps
    <3> QED
      BY <3>1, <3>2
  <2>3. ASSUME NEW q \in Requests, task'[q].pc = "flow" PROVE task'[q].of \in {task'[q].id, NoRow}
    <3>1. CASE q = r
      <4>1. Arrives(r, task'[r])
        BY <1>1, <2>3, <3>1, StepLocals, IdleFits
      <4> QED
        BY <2>3, <3>1, <4>1, <2>0 DEF Arrives
    <3>2. CASE q # r
      BY <1>1, <2>3, <3>2, <2>0, StepLocals
    <3> QED
      BY <3>1, <3>2
  <2> QED
    BY <2>1, <2>2, <2>3 DEF FlowsShown
<1> QED
  BY <1>3, <1>4

LEMMA ConnectionsShownSteps ==
    ASSUME WholeInv, ConnectionsShown, NEW r \in Requests, Step(r) PROVE ConnectionsShown'
<1> DEFINE Excuse == LeftBehind \/ CreatedTwice \/ Together({"delete"}, {"list"})
<1>1. overlaps' = overlaps /\ failed' = failed /\ CoreInv
  BY RowSteps DEF WholeInv
<1>2. Excuse' <=> Excuse
  BY <1>1, MeetingsSame DEF CreatedTwice, LeftBehind
<1>3. CASE Excuse
  BY <1>2, <1>3 DEF ConnectionsShown
<1>4. CASE ~Excuse
  <2>0. /\ \A a \in answers : a.shows = "connection" => a.of = a.config
        /\ \A q \in Requests : task[q].pc = "configs" => task[q].of \in Live
        /\ \A i, j \in Live : i = j
    BY <1>4 DEF ConnectionsShown, WholeInv, OneConfig
  \* No deletion is under way together with a list.
  <2>a. ASSUME NEW q \in Requests, NEW d \in Requests, q # d,
               task[d].op = "delete", task[q].op = "list"
        PROVE  FALSE
    <3>1. /\ task[d].op \in {"delete"} /\ task[q].op \in {"list"}
          /\ task[d].op # "idle" /\ task[q].op # "idle"
      BY <2>a
    <3> QED
      BY <1>1, <1>4, <2>a, <3>1, Met
  <2>1. \A a \in answers' : a.shows = "connection" => a.of = a.config
    <3>1. CASE ShowFlows(r)
      <4>1. PICK of : answers' = answers \union {[shows |-> "flow", config |-> task[r].id, of |-> of]}
        BY <3>1 DEF ShowFlows
      <4> QED
        BY <4>1, <2>0
    <3>2. CASE ListProviderConfigs(r)
      <4>1. task[r].of \in Live
        BY <3>2, <2>0 DEF ListProviderConfigs, At
      <4>2. First(Live) = Live
        BY <4>1 DEF First
      <4>3. answers' = answers \union
               {[shows |-> "connection", config |-> task[r].of, of |-> task[r].of]}
        BY <3>2, <4>1, <4>2, <2>0 DEF ListProviderConfigs
      <4> QED
        BY <4>3, <2>0
    <3> QED
      BY <3>1, <3>2, <2>0, RowSteps
  <2>2. ASSUME NEW q \in Requests, task'[q].pc = "configs" PROVE task'[q].of \in Live'
    <3>1. CASE q = r
      <4>1. Arrives(r, task'[r])
        BY <1>1, <2>2, <3>1, StepLocals, IdleFits
      <4>2. UNCHANGED rows /\ task[r].op = "list"
        <5>1. task'[r].op = "list"
          BY <1>1, <2>2, <3>1, CoreSteps, KindsOfPlaces DEF CoreInv, AllFit, RequestFits,
             PlacesOf,
             Operations, TypeOK
        <5> QED
          BY <2>2, <3>1, <4>1, <5>1 DEF Arrives
      <4>3. PICK c \in LiveConnections : task'[r].of = under[c]
        BY <2>2, <3>1, <4>1 DEF Arrives
      <4>4. ~ \E d \in Requests : task[d].pc = "dropConnections"
        <5>1. ASSUME NEW d \in Requests, task[d].pc = "dropConnections" PROVE FALSE
          <6>1. task[d].op = "delete" /\ d # r
            BY <1>1, <5>1, <4>2, KindsOfPlaces
          <6> QED
            BY <6>1, <4>2, <2>a
        <5> QED
          BY <5>1
      <4>5. config[under[c]] = "live" /\ under[c] \in Configs
        BY <1>1, <1>4, <4>3, <4>4 DEF WholeInv, ConnectionsGo, CoreInv, TypeOK, LiveConnections
      <4> QED
        BY <3>1, <4>2, <4>3, <4>5, RowsStay DEF Live
    <3>2. CASE q # r
      <4>1. task'[q] = task[q] /\ task[q].of \in Live /\ task[q].op = "list"
        BY <1>1, <2>2, <3>2, <2>0, StepLocals, KindsOfPlaces
      <4>2. ~DropConfig(r)
        BY <1>1, <3>2, <4>1, <2>a, KindsOfPlaces DEF DropConfig, At
      <4> QED
        BY <1>1, <4>1, <4>2, ConfigSteps
    <3> QED
      BY <3>1, <3>2
  <2> QED
    BY <2>1, <2>2 DEF ConnectionsShown
<1> QED
  BY <1>3, <1>4

LEMMA FitBegins ==
    ASSUME FitInv, NEW r \in Requests, Begin(r) \/ Fail(r) PROVE FitInv'
<1>0. CoreInv /\ CoreInv' /\ WholeInv'
  BY CoreBegins, WholeBegins DEF FitInv, WholeInv
<1>1. /\ UNCHANGED <<config, flows, conn, sync, edited, under, removed, answers>>
      /\ failed \subseteq failed' /\ overlaps \subseteq overlaps'
      /\ Live' = Live /\ LiveConnections' = LiveConnections
  BY BeginsOrFails, RowsStay DEF rows
<1>2. \A q \in Requests : task'[q] = task[q] \/ task'[q].pc \in Fresh
  BY <1>0, OthersStay
<1>a. (CreatedTwice => CreatedTwice') /\ (LeftBehind => LeftBehind')
  BY <1>1, MeetingsStay DEF CreatedTwice, LeftBehind
<1>3. EditsFit'
  <2>1. Together({"edit"}, Creators) => Together({"edit"}, Creators)'
    BY <1>1, MeetingsStay
  <2> QED
    BY <2>1, <1>a, <1>1, <1>2 DEF FitInv, EditsFit, Fresh
<1>4. RemovalsFit'
  <2>1. Together({"delete"}, Creators) => Together({"delete"}, Creators)'
    BY <1>1, MeetingsStay
  <2>2. CASE Together({"delete"}, Creators) \/ CreatedTwice \/ LeftBehind
    BY <2>1, <2>2, <1>a DEF RemovalsFit
  <2>3. CASE ~(Together({"delete"}, Creators) \/ CreatedTwice \/ LeftBehind)
    <3>1. ASSUME NEW q \in Requests, task'[q].op = "delete", task'[q].pc # "find"
          PROVE  task'[q] = task[q]
      <4>1. task'[q].pc \in PlacesOf["delete"]
        BY <1>0, <3>1 DEF CoreInv, AllFit, RequestFits
      <4>2. task'[q].pc \notin Fresh
        BY <3>1, <4>1 DEF PlacesOf, Fresh
      <4> QED
        BY <4>2, <1>2
    <3> QED
      BY <2>3, <3>1, <1>1 DEF FitInv, RemovalsFit
  <2> QED
    BY <2>2, <2>3
<1>5. NoneRemoved'
  BY <1>1 DEF FitInv, NoneRemoved
<1>6. FlowsShown'
  <2>1. Together({"read"}, Creators) => Together({"read"}, Creators)'
    BY <1>1, MeetingsStay
  <2> QED
    BY <2>1, <1>a, <1>1, <1>2 DEF FitInv, FlowsShown, Fresh
<1>7. ConnectionsShown'
  <2>1. Together({"delete"}, {"list"}) => Together({"delete"}, {"list"})'
    BY <1>1, MeetingsStay
  <2> QED
    BY <2>1, <1>a, <1>1, <1>2 DEF FitInv, ConnectionsShown, Fresh
<1> QED
  BY <1>0, <1>3, <1>4, <1>5, <1>6, <1>7 DEF FitInv

LEMMA FitInit == ASSUME Init PROVE FitInv
<1>1. /\ \A r \in Requests : task[r] = Idle
      /\ \A i \in Configs : edited[i] = i
      /\ \A c \in Connections : removed[c] = NoRow
      /\ answers = {}
  BY DEF Init
<1> QED
  BY <1>1, IdleFits, WholeInit
     DEF FitInv, EditsFit, RemovalsFit, NoneRemoved, FlowsShown, ConnectionsShown

LEMMA FitStays == ASSUME FitInv, UNCHANGED vars PROVE FitInv'
<1>1. WholeInv'
  BY WholeStays DEF FitInv
<1>2. /\ UNCHANGED <<config, conn, task, edited, under, removed, answers, failed, overlaps>>
      /\ Live' = Live /\ LiveConnections' = LiveConnections
  BY RowsStay DEF vars, rows
<1> QED
  BY <1>1, <1>2 DEF FitInv, EditsFit, RemovalsFit, NoneRemoved, FlowsShown, ConnectionsShown,
                    Together, CreatedTwice, LeftBehind

LEMMA FitSteps == ASSUME FitInv, [Next]_vars PROVE FitInv'
<1>1. ASSUME NEW r \in Requests, Step(r) PROVE FitInv'
  <2>1. WholeInv'
    BY <1>1, WholeSteps DEF FitInv, Next
  <2> QED
    BY <1>1, <2>1, EditsFitSteps, RemovalsFitSteps, NoneRemovedSteps, FlowsShownSteps,
       ConnectionsShownSteps DEF FitInv, WholeInv
<1> QED
  BY <1>1, FitBegins, FitStays DEF Next

LEMMA FitFits == ASSUME FitInv PROVE RequestsFit
<1>1. OnlyWhatWasFound
  BY DEF FitInv, EditsFit, RemovalsFit, OnlyWhatWasFound
<1>2. AnswersAgree
  <2> SUFFICES ASSUME NEW a \in answers
               PROVE  \/ a.config = a.of
                      \/ a.shows = "flow" /\ (a.of = NoRow \/ Together({"read"}, Creators)
                                              \/ CreatedTwice)
                      \/ a.shows = "connection" /\ (LeftBehind \/ CreatedTwice
                                                    \/ Together({"delete"}, {"list"}))
    BY DEF AnswersAgree
  <2>1. a.shows \in {"flow", "connection"}
    BY DEF FitInv, WholeInv, CoreInv, Shapes
  <2> QED
    BY <2>1 DEF FitInv, FlowsShown, ConnectionsShown
<1> QED
  BY <1>1, <1>2 DEF RequestsFit

\* A request is about one integration from its first statement to its answer: an edit
\* edits the config it read, a deletion takes along the connections of the config it
\* marked, and an answer shows a config with what is its own, unless the key got
\* another config, or a deletion left a connection behind or met the request.
THEOREM RequestsStay == Spec => []RequestsFit
<1>1. Init => FitInv
  BY FitInit
<1>2. FitInv /\ [Next]_vars => FitInv'
  BY FitSteps
<1>3. FitInv => RequestsFit
  BY FitFits
<1> QED
  BY <1>1, <1>2, <1>3, PTL DEF Spec

-----------------------------------------------------------------------------

\* What the constants are.
Sized == NumItems \in Nat /\ MaxChanges \in Nat /\ MaxPage \in Nat \ {0}
         /\ MaxRetries \in Nat /\ MaxFaults \in Nat

Types ==
    /\ Sized /\ ProxyTypeOK
    /\ type \in {"cursor", "link", "offset"}
    /\ limit \in 0..MaxPage /\ cap \in 1..MaxPage /\ hidden \subseteq Items
    /\ items \subseteq Items /\ changes \in 0..MaxChanges /\ steady \subseteq items
    /\ script \in {"starts", "runs", "returned", "threw"}
    /\ next \in 0..NumItems
    /\ page \in [items : SUBSET Items, next : Items \cup {Done}]
    /\ delivered \subseteq Items /\ repeated \in BOOLEAN /\ reasons \subseteq Reasons

(***************************************************************************)
(* The place of an item in the collection.                                 *)
(***************************************************************************)

LEMMA ItemsFinite ==
    ASSUME Sized, NEW S \in SUBSET Items
    PROVE  IsFiniteSet(S) /\ Cardinality(S) \in 0..NumItems /\ S \subseteq Int
<1>1. IsFiniteSet(1..NumItems) /\ Cardinality(1..NumItems) = NumItems
  BY FS_Interval DEF Sized
<1>2. IsFiniteSet(S) /\ Cardinality(S) <= NumItems
  BY <1>1, FS_Subset DEF Items
<1>3. Cardinality(S) \in Nat
  BY <1>2, FS_CardinalityType
<1> QED BY <1>2, <1>3 DEF Items, Sized

LEMMA BeforeNat ==
    ASSUME Sized, NEW S \in SUBSET Items, NEW i \in Int
    PROVE  Before(S, i) \in 0..NumItems
<1>1. {j \in S : j < i} \in SUBSET Items
  OBVIOUS
<1> QED BY <1>1, ItemsFinite DEF Before

LEMMA BeforeMore ==
    ASSUME Sized, NEW S \in SUBSET Items, NEW T \in SUBSET S, NEW i \in Int
    PROVE  Before(T, i) <= Before(S, i)
<1>1. {j \in S : j < i} \in SUBSET Items /\ {j \in T : j < i} \in SUBSET {j \in S : j < i}
  OBVIOUS
<1> QED BY <1>1, ItemsFinite, FS_Subset DEF Before

LEMMA BeforeLater ==
    ASSUME Sized, NEW S \in SUBSET Items, NEW i \in Int, NEW k \in Int, i <= k
    PROVE  Before(S, i) <= Before(S, k) /\ (i \in S /\ i < k => Before(S, i) < Before(S, k))
<1> DEFINE A == {j \in S : j < i}
           B == {j \in S : j < k}
<1>1. A \in SUBSET Items /\ B \in SUBSET Items /\ A \in SUBSET B
  BY ItemsFinite
<1>2. IsFiniteSet(A) /\ IsFiniteSet(B) /\ Cardinality(A) \in Nat /\ Cardinality(B) \in Nat
  BY <1>1, ItemsFinite
<1>3. Cardinality(A) <= Cardinality(B) /\ (Cardinality(A) = Cardinality(B) => A = B)
  BY <1>1, <1>2, FS_Subset
<1>4. i \in S /\ i < k => A # B
  OBVIOUS
<1>5. Before(S, i) = Cardinality(A) /\ Before(S, k) = Cardinality(B)
  BY DEF Before
<1> HIDE DEF A, B
<1> QED BY <1>2, <1>3, <1>4, <1>5

\* As many items as there are places for them.
LEMMA Places ==
    ASSUME Sized, NEW S \in SUBSET Items, NEW T \in SUBSET S, NEW a \in Nat, NEW n \in Nat, a <= n,
           \A i \in T : a <= Before(S, i) /\ Before(S, i) < n
    PROVE  Cardinality(T) <= n - a
<1> DEFINE f == [i \in T |-> Before(S, i)]
<1>1. \A i \in T : i \in Int /\ Before(S, i) \in Int
  BY BeforeNat, ItemsFinite
<1>2. f \in [T -> a..(n - 1)]
  BY <1>1
<1>3. \A i, k \in T : Before(S, i) = Before(S, k) => i = k
  <2> SUFFICES ASSUME NEW i \in T, NEW k \in T, Before(S, i) = Before(S, k), i # k
               PROVE  FALSE
    OBVIOUS
  <2>1. i \in Int /\ k \in Int /\ i \in S /\ k \in S
    BY <1>1
  <2>2. CASE i < k
    BY <1>1, <2>1, <2>2, BeforeLater
  <2>3. CASE k < i
    BY <1>1, <2>1, <2>3, BeforeLater
  <2> QED BY <2>1, <2>2, <2>3
<1>4. f \in Injection(T, a..(n - 1))
  BY <1>2, <1>3 DEF Injection, IsInjective
<1>5. IsFiniteSet(a..(n - 1)) /\ Cardinality(a..(n - 1)) = n - a
  <2>1. a \in Int /\ n - 1 \in Int /\ (IF a > n - 1 THEN 0 ELSE (n - 1) - a + 1) = n - a
    OBVIOUS
  <2> QED BY <2>1, FS_Interval
<1> HIDE DEF f
<1> QED BY <1>4, <1>5, FS_Injection

LEMMA LeastItem ==
    ASSUME Sized, NEW S \in SUBSET Items, S # {}
    PROVE  \E m \in S : \A i \in S : m <= i
<1> DEFINE R == OpToRel(<, Nat)
<1>1. IsWellFoundedOn(R, Nat)
  BY NatLessThanWellFounded
<1>2. S \subseteq Nat
  BY DEF Items
<1>3. PICK m \in S : \A i \in S : ~(<<i, m>> \in R)
  BY <1>1, <1>2, WFMin, Zenon
<1>4. \A i \in S : ~(i < m)
  BY <1>2, <1>3 DEF OpToRel
<1>5. \A i \in S : m <= i
  BY <1>2, <1>4
<1> QED BY <1>5

(***************************************************************************)
(* The page that the provider cuts.                                        *)
(***************************************************************************)

LEMMA CutIs ==
    ASSUME Types
    PROVE  /\ Rest \in SUBSET items /\ Cut \in SUBSET Rest
           /\ items \in SUBSET Items /\ Rest \in SUBSET Items /\ Cut \in SUBSET Items
           /\ Size \in Nat \ {0}
           /\ \A i \in items : i \in Rest <=> (IF type = "offset" THEN Before(items, i) >= next ELSE i > next)
           /\ \A i \in Rest : i \in Cut <=> Before(Rest, i) < Size
<1>1. Size \in Nat \ {0}
  BY DEF Types, Sized, Size, Smaller, NoLimit
<1> QED BY <1>1 DEF Types, Rest, Cut

LEMMA CutFits ==
    ASSUME Types
    PROVE  Cardinality(Cut) <= Size
<1>1. /\ Cut \in SUBSET Rest /\ Rest \in SUBSET Items /\ Size \in Nat
      /\ \A i \in Cut : Before(Rest, i) < Size
  BY CutIs
<1>2. \A i \in Cut : 0 <= Before(Rest, i) /\ Before(Rest, i) < Size
  BY <1>1, BeforeNat, ItemsFinite DEF Types
<1>3. Cardinality(Cut) <= Size - 0
  <2>1. 0 \in Nat /\ 0 <= Size /\ Sized
    BY <1>1 DEF Types
  <2> QED BY <1>1, <1>2, <2>1, Places
<1>4. Cardinality(Cut) \in Nat
  BY CutIs, ItemsFinite DEF Types
<1> QED BY <1>1, <1>3, <1>4

\* By offset, a place in the collection is one in what is left.
LEMMA RestPlaces ==
    ASSUME Types, type = "offset", NEW i \in Rest
    PROVE  Before(Rest, i) <= Before(items, i) - next
<1> DEFINE T == {j \in Rest : j < i}
<1>1. T \in SUBSET items /\ items \in SUBSET Items /\ next \in Nat /\ i \in Int /\ i \in items
  BY CutIs, ItemsFinite DEF Types
<1>2. Before(items, i) \in Nat /\ next <= Before(items, i)
  BY <1>1, CutIs, BeforeNat DEF Types
<1>3. ASSUME NEW j \in T PROVE next <= Before(items, j) /\ Before(items, j) < Before(items, i)
  <2>1. j \in Rest /\ j \in items /\ j \in Int /\ j < i
    BY <1>1, CutIs, ItemsFinite DEF Types
  <2>2. Before(items, j) \in Nat
    BY <1>1, <2>1, BeforeNat DEF Types
  <2> QED BY <1>1, <2>1, <2>2, CutIs, BeforeLater DEF Types
<1>4. Cardinality(T) <= Before(items, i) - next
  <2> HIDE DEF T
  <2> QED BY <1>1, <1>2, <1>3, Places DEF Types
<1> QED BY <1>4 DEF Before

\* The first of what is left are on the page.
LEMMA FirstAreCut ==
    ASSUME Types, type = "offset", NEW i \in items, Before(items, i) < next + Cardinality(Cut)
    PROVE  Before(items, i) < next \/ i \in Cut
<1>1. i \in Int /\ Before(items, i) \in Nat /\ next \in Nat /\ Size \in Nat /\ Cardinality(Cut) \in Nat
  <2>1. Sized /\ items \in SUBSET Items /\ Cut \in SUBSET Items /\ Size \in Nat /\ next \in Nat
    BY CutIs DEF Types
  <2>2. i \in Int
    BY <2>1, ItemsFinite
  <2>3. Cardinality(Cut) \in Nat
    BY <2>1, ItemsFinite
  <2> QED BY <2>1, <2>2, <2>3, BeforeNat
<1>2. CASE Before(items, i) < next
  BY <1>2
<1>3. CASE Before(items, i) >= next
  <2>1. i \in Rest
    BY <1>3, CutIs
  <2>2. Before(Rest, i) <= Before(items, i) - next /\ Before(Rest, i) \in Nat
    BY <1>1, <2>1, RestPlaces, CutIs, BeforeNat DEF Types
  <2>3. Before(Rest, i) < Size
    BY <1>1, <2>2, CutFits
  <2> QED BY <2>1, <2>3, CutIs
<1> QED BY <1>1, <1>2, <1>3

\* The items on the page have the next places.
LEMMA CutPlaces ==
    ASSUME Types, type = "offset", NEW i \in Cut
    PROVE  next <= Before(items, i) /\ Before(items, i) < next + Cardinality(Cut)
<1> DEFINE A == {j \in items : Before(items, j) < next}
           B == {j \in items : j < i}
           C == Cut \ {i}
<1>1. /\ i \in Rest /\ i \in items /\ i \in Int /\ items \in SUBSET Items /\ next \in Nat
      /\ Size \in Nat /\ Cardinality(Cut) \in Nat /\ IsFiniteSet(Cut) /\ Before(items, i) \in Nat
      /\ Before(Rest, i) < Size
  <2>1. Sized /\ items \in SUBSET Items /\ Cut \in SUBSET Items /\ Size \in Nat /\ next \in Nat
        /\ i \in Rest /\ i \in items /\ Before(Rest, i) < Size
    BY CutIs DEF Types
  <2>2. i \in Int /\ Cardinality(Cut) \in Nat /\ IsFiniteSet(Cut)
    BY <2>1, ItemsFinite
  <2> QED BY <2>1, <2>2, BeforeNat
<1>2. A \in SUBSET Items /\ B \in SUBSET Items /\ C \in SUBSET Items /\ A \in SUBSET items
  BY <1>1, CutIs
<1>3. Cardinality(A) <= next
  <2>1. \A j \in A : 0 <= Before(items, j) /\ Before(items, j) < next
    BY <1>1, BeforeNat, ItemsFinite DEF Types
  <2>2. Cardinality(A) <= next - 0
    <3>1. 0 \in Nat /\ 0 <= next /\ Sized
      BY <1>1 DEF Types
    <3> HIDE DEF A
    <3> QED BY <1>1, <1>2, <2>1, <3>1, Places
  <2> QED BY <1>1, <2>2
<1>4. Cardinality(C) = Cardinality(Cut) - 1
  BY <1>1, FS_RemoveElement
<1>5. B \subseteq A \cup C
  <2> SUFFICES ASSUME NEW j \in B, j \notin A PROVE j \in C
    OBVIOUS
  <2>1. j \in items /\ j < i /\ j \in Int /\ Before(items, j) \in Int
    BY <1>1, ItemsFinite, BeforeNat DEF Types
  <2>2. j \in Rest
    BY <1>1, <2>1, CutIs
  <2>3. Before(Rest, j) <= Before(Rest, i) /\ Before(Rest, j) \in Int /\ Before(Rest, i) \in Int
    BY <1>1, <2>1, BeforeLater, BeforeNat, CutIs DEF Types
  <2>4. Before(Rest, j) < Size
    BY <1>1, <2>3
  <2>5. j # i
    BY <1>1, <2>1
  <2> QED BY <2>2, <2>4, <2>5, CutIs
<1>6. Before(items, i) = Cardinality(B)
  BY DEF Before
<1> HIDE DEF A, B, C
<1>7. /\ IsFiniteSet(A) /\ IsFiniteSet(C) /\ A \cap C \in SUBSET Items
      /\ Cardinality(A) \in Nat /\ Cardinality(C) \in Nat /\ Cardinality(B) \in Nat
  BY <1>2, ItemsFinite DEF Types
<1>8. Cardinality(A \cap C) \in Nat
  BY <1>7, ItemsFinite DEF Types
<1>9. IsFiniteSet(A \cup C) /\ Cardinality(A \cup C) = Cardinality(A) + Cardinality(C) - Cardinality(A \cap C)
  BY <1>7, FS_Union
<1>10. Cardinality(B) <= Cardinality(A \cup C)
  BY <1>5, <1>9, FS_Subset
<1>11. Before(items, i) < next + Cardinality(Cut)
  BY <1>1, <1>3, <1>4, <1>6, <1>7, <1>8, <1>9, <1>10
<1>12. next <= Before(items, i)
  BY <1>1, CutIs
<1> QED BY <1>11, <1>12

\* The offset after a page is no more than the items that there may be.
LEMMA CutEnds ==
    ASSUME Types, type = "offset", Cut # {}
    PROVE  next + Cardinality(Cut) <= NumItems
<1>1. Rest \in SUBSET Items /\ Rest # {} /\ Cut \in SUBSET Rest /\ Cut \in SUBSET Items /\ next \in Nat
      /\ items \in SUBSET Items
  BY CutIs DEF Types
<1>2. PICK m \in Rest : \A i \in Rest : m <= i
  BY <1>1, LeastItem DEF Types
<1> DEFINE B == {j \in items : j < m}
<1>3. B \in SUBSET Items /\ m \in Int /\ Before(items, m) = Cardinality(B) /\ next <= Before(items, m)
  BY <1>1, <1>2, CutIs, ItemsFinite, BeforeNat DEF Types, Before
<1>4. B \cap Cut = {}
  <2> SUFFICES ASSUME NEW j \in B, j \in Cut PROVE FALSE
    OBVIOUS
  <2>1. j < m /\ m <= j /\ j \in Int
    BY <1>1, <1>2, ItemsFinite DEF Types
  <2> QED BY <1>3, <2>1
<1> HIDE DEF B
<1>5. /\ IsFiniteSet(B) /\ IsFiniteSet(Cut) /\ Cardinality(B) \in Nat /\ Cardinality(Cut) \in Nat
      /\ B \cup Cut \in SUBSET Items
  BY <1>1, <1>3, ItemsFinite DEF Types
<1>6. Cardinality(B \cup Cut) = Cardinality(B) + Cardinality(Cut) - Cardinality(B \cap Cut)
  BY <1>5, FS_Union
<1>7. Cardinality(B \cap Cut) = 0
  BY <1>4, FS_EmptySet
<1>8. Cardinality(B \cup Cut) \in 0..NumItems
  BY <1>5, ItemsFinite DEF Types
<1> QED BY <1>1, <1>3, <1>5, <1>6, <1>7, <1>8 DEF Types, Sized

(***************************************************************************)
(* What holds of the loop.                                                 *)
(***************************************************************************)

\* A call that has not failed for the last time may be tried again.
MayTry == pc \in {"checks", "send", "failed"} /\ retries # NotANumber => attempt < AttemptLimit

\* Before the loop, nothing is given.
Starting == script = "starts" => delivered = {} /\ next = 0

\* The loop waits for its call.
Waits == pc \notin {"idle", "refused", "stopped"} => script = "runs"

Pending == pc \in {"respond", "answered"}

\* By cursor or link, what comes before the position is given; of the page, what comes
\* before the next position.
GivenBefore ==
    type # "offset" /\ script = "runs" =>
        /\ \A i \in delivered : i <= next
        /\ \A i \in steady : i <= next => i \in delivered \cup hidden

PageAfter ==
    type # "offset" /\ Pending =>
        /\ \A i \in page.items : i > next /\ (page.next # Done => i <= page.next)
        /\ page.next # Done => \A i \in steady : i <= page.next => i \in delivered \cup hidden \cup page.items

\* By offset, as long as nothing is removed, what has an earlier place is given.
GivenPlaces ==
    type = "offset" /\ script = "runs" /\ "removed" \notin reasons =>
        \A i \in steady : Before(items, i) < next => i \in delivered \cup hidden

PagePlaces ==
    type = "offset" /\ Pending /\ "removed" \notin reasons =>
        \A i \in steady : Before(items, i) < next + Cardinality(page.items) =>
            i \in delivered \cup hidden \cup page.items

\* As long as nothing is added or hidden, what was given has an earlier place.
Unfiltered == type = "offset" /\ "added" \notin reasons /\ hidden = {}

PlacesGiven ==
    Unfiltered /\ script = "runs" => \A i \in delivered \cap items : Before(items, i) < next

PlacesPage ==
    Unfiltered /\ Pending =>
        /\ \A i \in page.items \cap items : Before(items, i) < next + Cardinality(page.items)
        /\ delivered \cap page.items = {}

\* The offset stays a number of items; the last page leaves nothing out; why a page that is
\* not the last is empty or short is known.
PageFits ==
    Pending =>
        /\ type = "offset" => next + Cardinality(page.items) <= NumItems
        /\ page.next = Done /\ (type = "offset" => "removed" \notin reasons) =>
               steady \subseteq delivered \cup hidden \cup page.items
        /\ page.next # Done /\ page.items = {} => "emptied" \in reasons
        /\ page.next # Done /\ Cardinality(page.items) < limit => "short" \in reasons

LoopInv ==
    /\ Types /\ Starting /\ MayTry /\ Waits
    /\ GivenBefore /\ PageAfter /\ GivenPlaces /\ PagePlaces /\ PlacesGiven /\ PlacesPage /\ PageFits
    /\ LoopIsComplete /\ NothingTwice

LEMMA LoopHolds ==
    ASSUME LoopInv
    PROVE  /\ Types /\ Sized /\ Starting /\ MayTry /\ Waits
           /\ GivenBefore /\ PageAfter /\ GivenPlaces /\ PagePlaces /\ PlacesGiven /\ PlacesPage /\ PageFits
           /\ LoopIsComplete /\ NothingTwice
BY DEF LoopInv, Types

LEMMA InitLoop ==
    ASSUME Sized, LoopInit
    PROVE  LoopInv
<1>1. /\ retries \in 0..MaxRetries \cup {NotANumber} /\ down \in BOOLEAN
      /\ pc = "idle" /\ attempt = 0 /\ retryable = FALSE /\ faults = 0
  BY DEF LoopInit, ProxyInit
<1>2. attempt \in 0..(IF retries = NotANumber THEN MaxRetries + 1 ELSE AttemptLimit)
  BY <1>1 DEF Sized, AttemptLimit, NotANumber
<1>3. ProxyTypeOK
  <2>1. pc \in CallLocations
    BY <1>1 DEF CallLocations
  <2>2. faults \in 0..MaxFaults
    BY <1>1 DEF Sized
  <2>3. retryable \in BOOLEAN
    BY <1>1
  <2> QED BY <1>1, <1>2, <2>1, <2>2, <2>3 DEF ProxyTypeOK
<1>4. /\ type \in {"cursor", "link", "offset"}
      /\ limit \in 0..MaxPage /\ cap \in 1..MaxPage /\ hidden \subseteq Items
      /\ items \subseteq Items /\ changes = 0 /\ steady = items
      /\ script = "starts" /\ next = 0 /\ page = NoPage
      /\ delivered = {} /\ repeated = FALSE /\ reasons = {}
  BY DEF Sized, LoopInit, NoLimit, Few, Start
<1>5. Types
  <2>1. page \in [items : SUBSET Items, next : Items \cup {Done}]
    BY <1>4 DEF NoPage
  <2>2. changes \in 0..MaxChanges /\ next \in 0..NumItems
    BY <1>4 DEF Sized
  <2> QED BY <1>3, <1>4, <2>1, <2>2 DEF Types
<1>6. Starting /\ MayTry /\ Waits
  BY <1>1, <1>4 DEF Starting, MayTry, Waits
<1>7. GivenBefore /\ PageAfter /\ GivenPlaces /\ PagePlaces /\ PlacesGiven /\ PlacesPage /\ PageFits
  BY <1>1, <1>4 DEF GivenBefore, PageAfter, GivenPlaces, PagePlaces, PlacesGiven, PlacesPage,
     PageFits, Pending
<1>8. LoopIsComplete /\ NothingTwice
  BY <1>4 DEF LoopIsComplete, NothingTwice
<1> QED BY <1>5, <1>6, <1>7, <1>8 DEF LoopInv

(***************************************************************************)
(* The call.                                                               *)
(***************************************************************************)

\* What a step of the call leaves of what is said of it.
CallFits ==
    /\ ProxyTypeOK' /\ MayTry'
    /\ Pending' => Pending
    /\ pc' \notin {"idle", "refused", "stopped"} => pc \notin {"idle", "refused", "stopped"}

LEMMA CallGoes ==
    ASSUME LoopInv, Proceeds \/ Fails, UNCHANGED given
    PROVE  CallFits
<1> USE DEF Pass, Same, Fault, CallLocations, NotANumber
<1>1. /\ retries \in 0..MaxRetries \cup {NotANumber} /\ down \in BOOLEAN
      /\ pc \in CallLocations /\ retryable \in BOOLEAN
      /\ attempt \in 0..(IF retries = NotANumber THEN MaxRetries + 1 ELSE AttemptLimit)
      /\ faults \in 0..MaxFaults
      /\ MaxRetries \in Nat /\ MaxFaults \in Nat
      /\ pc \in {"checks", "send", "failed"} /\ retries # NotANumber => attempt < AttemptLimit
      /\ UNCHANGED <<retries, down>>
  BY LoopHolds DEF Types, Sized, ProxyTypeOK, MayTry, given
<1>2. /\ AttemptLimit' = AttemptLimit
      /\ retries # NotANumber => AttemptLimit \in Nat /\ (AttemptLimit = 1 \/ AttemptLimit <= MaxRetries)
  BY <1>1 DEF AttemptLimit
<1> DEFINE Top == IF retries = NotANumber THEN MaxRetries + 1 ELSE AttemptLimit
<1>3. SUFFICES /\ pc' \in CallLocations /\ retryable' \in BOOLEAN /\ attempt' \in 0..Top /\ faults' \in 0..MaxFaults
               /\ pc' \in {"checks", "send", "failed"} /\ retries # NotANumber => attempt' < AttemptLimit
               /\ pc' \in {"respond", "answered"} => pc \in {"respond", "answered"}
               /\ pc' \notin {"idle", "refused", "stopped"} => pc \notin {"idle", "refused", "stopped"}
  BY <1>1, <1>2 DEF CallFits, ProxyTypeOK, MayTry, Pending
<1>4. CASE RouteCall
  BY <1>1, <1>4 DEF RouteCall
<1>5. CASE Down
  BY <1>1, <1>5 DEF Down
<1>6. CASE Retry \/ RetryHandler
  <2>1. pc = "failed" /\ pc' \in {"again", "error", "wait"} /\ UNCHANGED <<retryable, faults>>
        /\ attempt' = IF attempt > MaxRetries THEN attempt ELSE attempt + 1
    BY <1>6 DEF Retry, RetryHandler, Counted
  <2>2. CASE retries = NotANumber
    <3>1. attempt \in 0..(MaxRetries + 1) /\ Top = MaxRetries + 1
      BY <1>1, <2>2
    <3>2. attempt' \in 0..(MaxRetries + 1)
      BY <1>1, <2>1, <3>1
    <3> QED BY <1>1, <2>1, <3>1, <3>2
  <2>3. CASE retries # NotANumber
    <3>1. attempt \in 0..AttemptLimit /\ attempt < AttemptLimit /\ AttemptLimit \in Nat /\ Top = AttemptLimit
      BY <1>1, <1>2, <2>1, <2>3
    <3>2. attempt' \in 0..AttemptLimit
      BY <1>1, <2>1, <3>1
    <3> QED BY <1>1, <2>1, <3>1, <3>2
  <2> QED BY <2>2, <2>3
<1>7. CASE WaitEnds
  BY <1>1, <1>7 DEF WaitEnds
<1>8. CASE BackOff
  <2>1. pc = "again" /\ pc' = (IF LimitReached THEN "error" ELSE "send") /\ UNCHANGED <<attempt, retryable, faults>>
    BY <1>8 DEF BackOff
  <2>2. pc' = "send" /\ retries # NotANumber => attempt < AttemptLimit
    BY <1>1, <1>2, <2>1 DEF LimitReached
  <2> QED BY <1>1, <2>1, <2>2
<1>9. CASE HandleResponse
  BY <1>1, <1>9 DEF HandleResponse
<1>10. CASE HandleErrorResponse
  BY <1>1, <1>10 DEF HandleErrorResponse
<1>11. CASE Refuse
  BY <1>1, <1>11 DEF Refuse
<1>12. ASSUME NEW accepted \in BOOLEAN, FailsOnce(accepted)
       PROVE  /\ pc' \in CallLocations /\ retryable' \in BOOLEAN /\ attempt' \in 0..Top /\ faults' \in 0..MaxFaults
              /\ pc' \in {"checks", "send", "failed"} /\ retries # NotANumber => attempt' < AttemptLimit
              /\ pc' \in {"respond", "answered"} => pc \in {"respond", "answered"}
              /\ pc' \notin {"idle", "refused", "stopped"} => pc \notin {"idle", "refused", "stopped"}
  BY <1>1, <1>12 DEF FailsOnce
<1>13. CASE ResponseLost
  BY <1>1, <1>13 DEF ResponseLost
<1>14. CASE ServerStops
  BY <1>1, <1>14 DEF ServerStops
<1> QED BY <1>4, <1>5, <1>6, <1>7, <1>8, <1>9, <1>10, <1>11, <1>12, <1>13, <1>14 DEF Proceeds,
           Fails

\* Nothing but the call changes.
LEMMA CallStays ==
    ASSUME LoopInv, CallFits, UNCHANGED <<given, settings, provider, loop, page, reasons>>
    PROVE  LoopInv'
<1> USE LoopHolds
<1>1. UNCHANGED <<type, limit, cap, hidden, items, changes, steady, script, next, delivered, repeated, page, reasons>>
  BY DEF settings, provider, loop
<1>2. Types' /\ Starting' /\ MayTry' /\ Waits'
  BY <1>1 DEF CallFits, Types, Starting, Waits
<1>3. GivenBefore' /\ PageAfter' /\ PageFits'
  BY <1>1 DEF CallFits, GivenBefore, PageAfter, PageFits
<1>4. GivenPlaces' /\ PagePlaces'
  BY <1>1 DEF CallFits, GivenPlaces, PagePlaces, Before
<1>5. PlacesGiven' /\ PlacesPage'
  BY <1>1 DEF CallFits, PlacesGiven, PlacesPage, Unfiltered, Before
<1>6. LoopIsComplete' /\ NothingTwice'
  BY <1>1 DEF LoopIsComplete, NothingTwice
<1> QED BY <1>2, <1>3, <1>4, <1>5, <1>6 DEF LoopInv

(***************************************************************************)
(* The loop's steps.                                                       *)
(***************************************************************************)

LEMMA StepFetch ==
    ASSUME LoopInv, Fetch
    PROVE  LoopInv'
<1>1. /\ script = "runs" /\ pc = "idle" /\ pc' = "checks" /\ attempt' = 0 /\ retryable' = FALSE
      /\ UNCHANGED <<given, settings, provider, page, reasons, loop, faults>>
  BY DEF Fetch, Call, Pass, Around
<1> USE LoopHolds
<1>2. UNCHANGED <<type, limit, cap, hidden, items, changes, steady, script, next, delivered, repeated, page, reasons,
                  retries, down>>
  BY <1>1 DEF settings, provider, loop, given
<1>3. ProxyTypeOK' /\ MayTry'
  <2>1. retries \in 0..MaxRetries \cup {NotANumber} /\ MaxRetries \in Nat
    BY DEF Types, Sized, ProxyTypeOK
  <2>2. AttemptLimit' = AttemptLimit /\ (retries # NotANumber => AttemptLimit \in Nat /\ 0 < AttemptLimit)
    BY <1>2, <2>1 DEF AttemptLimit, NotANumber
  <2>3. attempt' \in 0..(IF retries = NotANumber THEN MaxRetries + 1 ELSE AttemptLimit)
    BY <1>1, <2>1, <2>2
  <2>4. ProxyTypeOK'
    BY <1>1, <1>2, <2>2, <2>3 DEF Types, ProxyTypeOK, CallLocations
  <2> QED BY <1>1, <1>2, <2>2, <2>4 DEF MayTry
<1>4. Types' /\ Starting' /\ Waits'
  BY <1>1, <1>2, <1>3 DEF Types, Starting, Waits
<1>5. GivenBefore' /\ PageAfter' /\ PageFits' /\ PagePlaces' /\ PlacesPage'
  BY <1>1, <1>2 DEF GivenBefore, PageAfter, PageFits, PagePlaces, PlacesPage, Pending
<1>6. GivenPlaces' /\ PlacesGiven'
  BY <1>2 DEF GivenPlaces, PlacesGiven, Unfiltered, Before
<1>7. LoopIsComplete' /\ NothingTwice'
  BY <1>2 DEF LoopIsComplete, NothingTwice
<1> QED BY <1>3, <1>4, <1>5, <1>6, <1>7 DEF LoopInv

\* The loop begins, or throws.
LEMMA StepScript ==
    ASSUME LoopInv, Paginate \/ InvalidConfiguration \/ Throws
    PROVE  LoopInv'
<1>1. /\ \/ script = "starts" /\ script' \in {"runs", "threw"}
         \/ script = "runs" /\ script' = "threw" /\ pc \in {"refused", "stopped"}
      /\ UNCHANGED <<given, call, settings, provider, page, reasons, next, delivered, repeated>>
  BY DEF Paginate, InvalidConfiguration, Throws, Script, Around
<1> USE LoopHolds
<1>2. UNCHANGED <<type, limit, cap, hidden, items, changes, steady, next, delivered, repeated, page, reasons,
                  retries, down, pc, attempt, retryable, faults>>
  BY <1>1 DEF settings, provider, given, call
<1>3. pc \in {"idle", "refused", "stopped"}
  BY <1>1 DEF Waits
<1>4. Types' /\ Starting' /\ MayTry' /\ Waits'
  BY <1>1, <1>2, <1>3 DEF Types, ProxyTypeOK, AttemptLimit, Starting, MayTry, Waits
<1>5. PageAfter' /\ PageFits' /\ PagePlaces' /\ PlacesPage'
  BY <1>2, <1>3 DEF PageAfter, PageFits, PagePlaces, PlacesPage, Pending
<1>6. script' = "runs" => delivered = {} /\ next = 0
  BY <1>1 DEF Starting
<1>7. Sized /\ items \in SUBSET Items /\ steady \in SUBSET items /\ \A i \in items : i \in Int /\ i > 0
  BY DEF Types, Items
<1>8. GivenBefore' /\ GivenPlaces' /\ PlacesGiven'
  <2>1. \A i \in steady : ~(i <= 0) /\ ~(Before(items, i) < 0)
    <3> SUFFICES ASSUME NEW i \in steady PROVE ~(i <= 0) /\ ~(Before(items, i) < 0)
      OBVIOUS
    <3>1. i \in Int /\ i > 0
      BY <1>7
    <3>2. Before(items, i) \in 0..NumItems
      BY <1>7, <3>1, BeforeNat
    <3> QED BY <3>1, <3>2 DEF Sized
  <2>2. GivenBefore' /\ PlacesGiven'
    BY <1>2, <1>6, <2>1 DEF GivenBefore, PlacesGiven
  <2>3. GivenPlaces'
    <3> SUFFICES ASSUME script' = "runs", NEW i \in steady', Before(items', i) < next' PROVE FALSE
      BY DEF GivenPlaces
    <3> QED BY <1>2, <1>6, <2>1
  <2> QED BY <2>2, <2>3
<1>9. LoopIsComplete' /\ NothingTwice'
  BY <1>1, <1>2 DEF LoopIsComplete, NothingTwice
<1> QED BY <1>4, <1>5, <1>8, <1>9 DEF LoopInv

\* What the script makes of an answer.
LEMMA YieldIs ==
    ASSUME LoopInv, NEW goesOn \in BOOLEAN, NEW position, Yield(goesOn, position),
           goesOn => position \in 0..NumItems
    PROVE  /\ script = "runs" /\ Pending /\ pc' = "idle" /\ page' = NoPage
           /\ script' = (IF goesOn THEN "runs" ELSE "returned")
           /\ next' = (IF goesOn THEN position ELSE next)
           /\ delivered' = delivered \cup page.items
           /\ repeated' = (repeated \/ delivered \cap page.items # {})
           /\ UNCHANGED <<type, limit, cap, hidden, items, changes, steady, reasons, retries, down>>
           /\ Types' /\ Starting' /\ MayTry' /\ Waits' /\ PageAfter' /\ PagePlaces' /\ PlacesPage' /\ PageFits'
<1>1. pc = "answered" /\ pc' = "idle" /\ UNCHANGED <<attempt, retryable, faults, given, settings, provider, reasons>>
      /\ page' = NoPage /\ script' = (IF goesOn THEN script ELSE "returned")
      /\ next' = (IF goesOn THEN position ELSE next)
      /\ delivered' = delivered \cup page.items
      /\ repeated' = (repeated \/ delivered \cap page.items # {})
  BY DEF Yield, Receive, Pass, Same
<1>2. UNCHANGED <<type, limit, cap, hidden, items, changes, steady, retries, down>>
  BY <1>1 DEF given, settings, provider
<1>3. script = "runs" /\ Pending
  BY <1>1, LoopHolds DEF Waits, Pending
<1>4. ProxyTypeOK' /\ MayTry' /\ ~Pending'
  BY <1>1, <1>2, LoopHolds DEF Types, ProxyTypeOK, AttemptLimit, MayTry, CallLocations, Pending
<1>5. page' \in [items : SUBSET Items, next : Items \cup {Done}]
  BY <1>1 DEF NoPage
<1>6. next' \in 0..NumItems /\ script' \in {"runs", "returned"} /\ delivered' \subseteq Items
  BY <1>1, <1>3, LoopHolds DEF Types
<1>7. repeated' \in BOOLEAN
  BY <1>1
<1>8. Types'
  BY <1>1, <1>2, <1>4, <1>5, <1>6, <1>7, LoopHolds DEF Types, Sized
<1>9. Starting' /\ Waits'
  BY <1>1, <1>6 DEF Starting, Waits
<1>10. PageAfter' /\ PagePlaces' /\ PlacesPage' /\ PageFits'
  BY <1>4 DEF PageAfter, PagePlaces, PlacesPage, PageFits
<1> QED BY <1>1, <1>2, <1>3, <1>4, <1>8, <1>9, <1>10

LEMMA StepForward ==
    ASSUME LoopInv, Cursor \/ Link
    PROVE  LoopInv'
<1> DEFINE goesOn == ~Empty /\ page.next # Done
<1>1. type # "offset" /\ Yield(goesOn, page.next)
  BY DEF Cursor, Link
<1>2. goesOn \in BOOLEAN /\ (goesOn => page.items # {} /\ page.next \in Items /\ page.next \in 0..NumItems)
      /\ (~goesOn => page.items = {} \/ page.next = Done)
  BY LoopHolds DEF Types, Empty, Items
<1> HIDE DEF goesOn
<1>3. /\ script = "runs" /\ Pending
      /\ script' = (IF goesOn THEN "runs" ELSE "returned")
      /\ next' = (IF goesOn THEN page.next ELSE next)
      /\ delivered' = delivered \cup page.items
      /\ repeated' = (repeated \/ delivered \cap page.items # {})
      /\ UNCHANGED <<type, limit, cap, hidden, items, changes, steady, reasons>>
      /\ Types' /\ Starting' /\ MayTry' /\ Waits' /\ PageAfter' /\ PagePlaces' /\ PlacesPage' /\ PageFits'
  BY <1>1, <1>2, YieldIs
<1> USE LoopHolds
<1>4. /\ \A i \in delivered : i <= next /\ i \in Int
      /\ \A i \in page.items : i > next /\ i \in Int /\ (page.next # Done => i <= page.next)
      /\ page.next # Done => \A i \in steady : i <= page.next => i \in delivered \cup hidden \cup page.items
      /\ next \in Int
  BY <1>1, <1>3 DEF GivenBefore, PageAfter, Types, Items
<1>5. GivenBefore'
  <2> SUFFICES ASSUME goesOn
               PROVE  /\ \A i \in delivered \cup page.items : i <= page.next
                      /\ \A i \in steady : i <= page.next => i \in delivered \cup page.items \cup hidden
    BY <1>3 DEF GivenBefore
  <2>1. page.next # Done /\ page.next \in Int /\ page.items # {}
    BY <1>2 DEF Items, Done
  <2>2. next < page.next
    BY <1>4, <2>1
  <2>3. \A i \in delivered \cup page.items : i <= page.next
    BY <1>4, <2>1, <2>2
  <2> QED BY <1>4, <2>1, <2>3
<1>6. GivenPlaces' /\ PlacesGiven'
  BY <1>1, <1>3 DEF GivenPlaces, PlacesGiven, Unfiltered
<1>7. LoopIsComplete'
  <2> SUFFICES ASSUME ~goesOn, "emptied" \notin reasons
               PROVE  steady \ hidden \subseteq delivered \cup page.items
    BY <1>3 DEF LoopIsComplete
  <2>1. page.next = Done
    BY <1>2, <1>3 DEF PageFits
  <2> QED BY <1>1, <1>3, <2>1 DEF PageFits
<1>8. NothingTwice'
  <2>1. delivered \cap page.items = {}
    BY <1>4
  <2> QED BY <1>1, <1>3, <2>1 DEF NothingTwice
<1> QED BY <1>3, <1>5, <1>6, <1>7, <1>8 DEF LoopInv

LEMMA StepOffset ==
    ASSUME LoopInv, Offset
    PROVE  LoopInv'
<1> DEFINE count == Cardinality(page.items)
           goesOn == ~Empty /\ ~(limit # NoLimit /\ count < limit)
<1>1. type = "offset" /\ Yield(goesOn, next + count)
  BY DEF Offset
<1> USE LoopHolds
<1>2. page.items \in SUBSET Items /\ count \in Nat /\ next \in Nat /\ limit \in Nat /\ NumItems \in Nat
  BY ItemsFinite DEF Types, Sized
<1> HIDE DEF count
<1>3. Pending
  BY <1>1 DEF Yield, Receive, Pass, Pending
<1>4. next + count \in 0..NumItems
  <2>1. next + count <= NumItems
    BY <1>1, <1>3 DEF PageFits, count
  <2> QED BY <1>2, <2>1
<1>5. goesOn \in BOOLEAN /\ (~goesOn => page.items = {} \/ count < limit)
  BY DEF Empty
<1> HIDE DEF goesOn
<1>6. /\ script = "runs" /\ Pending
      /\ script' = (IF goesOn THEN "runs" ELSE "returned")
      /\ next' = (IF goesOn THEN next + count ELSE next)
      /\ delivered' = delivered \cup page.items
      /\ repeated' = (repeated \/ delivered \cap page.items # {})
      /\ UNCHANGED <<type, limit, cap, hidden, items, changes, steady, reasons>>
      /\ Types' /\ Starting' /\ MayTry' /\ Waits' /\ PageAfter' /\ PagePlaces' /\ PlacesPage' /\ PageFits'
  BY <1>1, <1>4, <1>5, YieldIs
<1>7. GivenBefore'
  BY <1>1, <1>6 DEF GivenBefore
<1>8. GivenPlaces'
  <2> SUFFICES ASSUME goesOn, "removed" \notin reasons, NEW i \in steady, Before(items, i) < next + count
               PROVE  i \in delivered \cup page.items \cup hidden
    BY <1>6 DEF GivenPlaces, Before
  <2> QED BY <1>1, <1>6 DEF PagePlaces, count
<1>9. PlacesGiven'
  <2> SUFFICES ASSUME goesOn, Unfiltered, NEW i \in delivered \cup page.items, i \in items
               PROVE  Before(items, i) < next + count
    BY <1>6 DEF PlacesGiven, Unfiltered, Before
  <2>1. CASE i \in page.items
    BY <1>6, <2>1 DEF PlacesPage, count
  <2>2. CASE i \in delivered
    <3>1. Before(items, i) < next
      BY <1>6, <2>2 DEF PlacesGiven
    <3>2. Before(items, i) \in Int
      <4>1. items \in SUBSET Items /\ i \in Int
        BY DEF Types, Items
      <4>2. Before(items, i) \in 0..NumItems
        BY <4>1, BeforeNat
      <4> QED BY <4>2
    <3> QED BY <1>2, <3>1, <3>2
  <2> QED BY <2>1, <2>2
<1>10. LoopIsComplete'
  <2> SUFFICES ASSUME ~goesOn, "emptied" \notin reasons, reasons \cap {"short", "removed"} = {}
               PROVE  steady \ hidden \subseteq delivered \cup page.items
    BY <1>1, <1>6 DEF LoopIsComplete
  <2>1. page.next = Done
    BY <1>5, <1>6 DEF PageFits, count
  <2> QED BY <1>6, <2>1 DEF PageFits
<1>11. NothingTwice'
  <2> SUFFICES ASSUME delivered \cap page.items # {}, "added" \notin reasons
               PROVE  hidden # {}
    BY <1>1, <1>6 DEF NothingTwice
  <2> QED BY <1>1, <1>6 DEF PlacesPage, Unfiltered
<1> QED BY <1>6, <1>7, <1>8, <1>9, <1>10, <1>11 DEF LoopInv

(***************************************************************************)
(* The provider's steps.                                                   *)
(***************************************************************************)

LEMMA StepServes ==
    ASSUME LoopInv, Serves
    PROVE  LoopInv'
<1> DEFINE kept == Cut \ hidden
<1>1. /\ pc = "send" /\ pc' = "respond" /\ UNCHANGED <<attempt, retryable, faults>>
      /\ \/ ~More /\ page' = [items |-> kept, next |-> Done]
         \/ /\ More
            /\ \E last \in Cut : (\A i \in Cut : i <= last) /\ page' = [items |-> kept, next |-> last]
      /\ reasons' = reasons \cup (IF More /\ kept = {} THEN {"emptied"} ELSE {})
                            \cup (IF More /\ Cardinality(kept) < limit THEN {"short"} ELSE {})
      /\ UNCHANGED <<given, settings, provider, loop>>
  BY DEF Serves, Succeeds, Pass, Same
<1>2. /\ kept \in SUBSET Cut /\ kept \subseteq Items /\ Cut \subseteq Items /\ Rest \subseteq Items
      /\ Cut \subseteq Rest /\ Rest \subseteq items /\ items \subseteq Items
      /\ Cardinality(kept) \in Nat /\ Cardinality(Cut) \in Nat /\ Cardinality(kept) <= Cardinality(Cut)
      /\ next \in Nat /\ Sized /\ IsFiniteSet(Cut)
  <2>1. /\ kept \in SUBSET Cut /\ kept \in SUBSET Items /\ Cut \in SUBSET Items /\ Rest \in SUBSET Items
        /\ Cut \subseteq Rest /\ Rest \subseteq items /\ items \subseteq Items /\ next \in Nat /\ Sized
    BY CutIs, LoopHolds DEF Types
  <2> HIDE DEF kept
  <2>2. IsFiniteSet(Cut) /\ Cardinality(Cut) \in 0..NumItems
    BY <2>1, ItemsFinite
  <2>3. Cardinality(kept) \in 0..NumItems
    BY <2>1, ItemsFinite
  <2>4. Cardinality(kept) <= Cardinality(Cut)
    BY <2>1, <2>2, FS_Subset
  <2> QED BY <2>1, <2>2, <2>3, <2>4
<1>3. UNCHANGED <<type, limit, cap, hidden, items, changes, steady, script, next, delivered, repeated, retries, down>>
      /\ script = "runs"
  BY <1>1, LoopHolds DEF given, settings, provider, loop, Waits
<1>4. hidden = {} => kept = Cut
  OBVIOUS
<1>5. Cut \subseteq kept \cup hidden
  OBVIOUS
<1> HIDE DEF kept
<1>6. /\ page'.items = kept /\ page'.next \in Items \cup {Done} /\ page' \in [items : SUBSET Items, next : Items \cup {Done}]
      /\ page'.next = Done => Cut = Rest
      /\ page'.next # Done => /\ page'.next \in Cut /\ (\A i \in Cut : i <= page'.next) /\ More
  <2>1. CASE ~More
    <3>1. page' = [items |-> kept, next |-> Done] /\ Cut = Rest
      BY <1>1, <2>1 DEF More
    <3> QED BY <1>2, <3>1
  <2>2. CASE More
    <3>1. PICK last \in Cut : (\A i \in Cut : i <= last) /\ page' = [items |-> kept, next |-> last]
      BY <1>1, <2>2
    <3>2. page'.items = kept /\ page'.next = last /\ last \in Items
      BY <1>2, <3>1
    <3>3. page' \in [items : SUBSET Items, next : Items \cup {Done}]
      BY <1>2, <3>1, <3>2
    <3>4. last # Done
      BY <3>2 DEF Items, Done
    <3> QED BY <2>2, <3>1, <3>2, <3>3, <3>4
  <2> QED BY <2>1, <2>2
<1>7. reasons \subseteq reasons' /\ reasons' \subseteq Reasons
      /\ ("removed" \in reasons' <=> "removed" \in reasons) /\ ("added" \in reasons' <=> "added" \in reasons)
      /\ (More /\ kept = {} => "emptied" \in reasons') /\ (More /\ Cardinality(kept) < limit => "short" \in reasons')
  BY <1>1, LoopHolds DEF Types, Reasons
<1>8. Types' /\ Starting' /\ MayTry' /\ Waits'
  BY <1>1, <1>3, <1>6, <1>7, LoopHolds DEF Types, Sized, ProxyTypeOK, AttemptLimit,
     CallLocations, Starting, MayTry, Waits
<1>9. GivenBefore' /\ GivenPlaces' /\ PlacesGiven'
  BY <1>3, <1>7, LoopHolds DEF GivenBefore, GivenPlaces, PlacesGiven, Unfiltered, Before
<1>10. \A i \in items : i \in Int /\ i \in Items /\ Before(items, i) \in Int
  <2> SUFFICES ASSUME NEW i \in items PROVE i \in Int /\ i \in Items /\ Before(items, i) \in Int
    OBVIOUS
  <2>1. i \in Int /\ i \in Items
    BY <1>2 DEF Items
  <2>2. Before(items, i) \in 0..NumItems
    BY <1>2, <2>1, BeforeNat
  <2> QED BY <2>1, <2>2
<1>11. steady \subseteq items
  BY LoopHolds DEF Types
<1>12. ASSUME type # "offset" PROVE PageAfter'
  <2> SUFFICES /\ \A i \in kept : i > next /\ (page'.next # Done => i <= page'.next)
               /\ page'.next # Done => \A i \in steady : i <= page'.next => i \in delivered \cup hidden \cup kept
    BY <1>3, <1>6 DEF PageAfter
  <2>1. \A i \in items : i \in Rest <=> i > next
    BY <1>12, CutIs, LoopHolds
  <2>2. \A i \in kept : i > next /\ (page'.next # Done => i <= page'.next)
    BY <1>2, <1>6, <2>1
  <2>3. ASSUME page'.next # Done, NEW i \in steady, i <= page'.next PROVE i \in delivered \cup hidden \cup kept
    <3>1. CASE i <= next
      BY <1>3, <1>12, <3>1, LoopHolds DEF GivenBefore
    <3>2. CASE i > next
      <4>1. i \in Rest /\ page'.next \in Rest /\ page'.next \in Int /\ i \in Int
        BY <1>2, <1>6, <1>10, <1>11, <2>1, <2>3, <3>2
      <4>2. Before(Rest, i) <= Before(Rest, page'.next) /\ Before(Rest, page'.next) < Size
        BY <1>2, <1>6, <2>3, <4>1, BeforeLater, CutIs, LoopHolds
      <4>3. Before(Rest, i) \in 0..NumItems /\ Before(Rest, page'.next) \in 0..NumItems /\ Size \in Nat
        BY <1>2, <4>1, BeforeNat, CutIs, LoopHolds
      <4>4. Before(Rest, i) < Size
        BY <4>2, <4>3
      <4>5. i \in Cut
        BY <4>1, <4>4, CutIs, LoopHolds
      <4> QED BY <1>5, <4>5
    <3> QED BY <1>2, <1>10, <1>11, <3>1, <3>2
  <2> QED BY <2>2, <2>3
<1>13. ASSUME type = "offset", "removed" \notin reasons, NEW i \in steady, Before(items, i) < next + Cardinality(kept)
       PROVE  i \in delivered \cup hidden \cup kept
  <2>1. i \in items /\ Before(items, i) < next + Cardinality(Cut)
    BY <1>2, <1>10, <1>11, <1>13
  <2>2. Before(items, i) < next \/ i \in Cut
    BY <1>13, <2>1, FirstAreCut, LoopHolds
  <2> QED BY <1>3, <1>5, <1>13, <2>2, LoopHolds DEF GivenPlaces
<1>14. PagePlaces'
  BY <1>3, <1>6, <1>7, <1>13 DEF PagePlaces, Before
<1>15. ASSUME Unfiltered
       PROVE  /\ \A i \in kept : Before(items, i) < next + Cardinality(kept)
              /\ delivered \cap kept = {}
  <2>1. kept = Cut /\ type = "offset"
    BY <1>4, <1>15 DEF Unfiltered
  <2>2. \A i \in Cut : next <= Before(items, i) /\ Before(items, i) < next + Cardinality(Cut)
    BY <2>1, CutPlaces, LoopHolds
  <2>3. \A i \in delivered \cap items : Before(items, i) < next
    BY <1>3, <1>15, LoopHolds DEF PlacesGiven
  <2> QED BY <1>2, <1>10, <2>1, <2>2, <2>3
<1>16. PlacesPage'
  BY <1>3, <1>6, <1>7, <1>15 DEF PlacesPage, Unfiltered, Before
<1>17. ASSUME type = "offset" PROVE next + Cardinality(kept) <= NumItems
  <2>1. CASE Cut = {}
    <3>1. Cardinality(Cut) = 0
      BY <2>1, FS_EmptySet
    <3> QED BY <1>2, <3>1, LoopHolds DEF Types, Sized
  <2>2. CASE Cut # {}
    BY <1>2, <1>17, <2>2, CutEnds, LoopHolds DEF Sized
  <2> QED BY <2>1, <2>2
<1>18. ASSUME page'.next = Done, type = "offset" => "removed" \notin reasons, NEW i \in steady
       PROVE  i \in delivered \cup hidden \cup kept
  <2>1. Cut = Rest /\ i \in items /\ i \in Int /\ Before(items, i) \in Int
    BY <1>6, <1>10, <1>11, <1>18
  <2>2. CASE i \in Rest
    BY <1>5, <2>1, <2>2
  <2>3. CASE i \notin Rest
    <3>1. CASE type = "offset"
      <4>1. Before(items, i) < next
        BY <1>2, <2>1, <2>3, <3>1, CutIs, LoopHolds
      <4> QED BY <1>3, <1>18, <3>1, <4>1, LoopHolds DEF GivenPlaces
    <3>2. CASE type # "offset"
      <4>1. i <= next
        BY <1>2, <2>1, <2>3, <3>2, CutIs, LoopHolds
      <4> QED BY <1>3, <3>2, <4>1, LoopHolds DEF GivenBefore
    <3> QED BY <3>1, <3>2
  <2> QED BY <2>2, <2>3
<1>19. PageFits'
  <2> SUFFICES /\ type = "offset" => next + Cardinality(kept) <= NumItems
               /\ page'.next = Done /\ (type = "offset" => "removed" \notin reasons) =>
                      steady \subseteq delivered \cup hidden \cup kept
               /\ page'.next # Done /\ kept = {} => "emptied" \in reasons'
               /\ page'.next # Done /\ Cardinality(kept) < limit => "short" \in reasons'
    BY <1>3, <1>6, <1>7 DEF PageFits
  <2> QED BY <1>6, <1>7, <1>17, <1>18
<1>20. LoopIsComplete' /\ NothingTwice'
  BY <1>3, <1>7, LoopHolds DEF LoopIsComplete, NothingTwice
<1>21. PageAfter'
  BY <1>3, <1>12 DEF PageAfter
<1> QED BY <1>8, <1>9, <1>14, <1>16, <1>19, <1>20, <1>21 DEF LoopInv


\* The collection changes.
LEMMA ChangesIs ==
    ASSUME LoopInv, NEW what \in {"added", "removed"}, NEW new \in SUBSET Items, Changes(what, new)
    PROVE  /\ script = "runs" /\ items' = new /\ steady' \subseteq steady /\ steady' \subseteq new
           /\ reasons' = reasons \cup {what}
           /\ UNCHANGED <<type, limit, cap, hidden, script, next, delivered, repeated, page>>
           /\ Types' /\ Starting' /\ MayTry' /\ Waits' /\ (Pending' <=> Pending)
           /\ GivenBefore' /\ PageAfter' /\ PageFits' /\ LoopIsComplete' /\ NothingTwice'
<1> USE LoopHolds
<1>1. /\ script = "runs" /\ changes < MaxChanges /\ changes' = changes + 1 /\ items' = new
      /\ steady' = steady \cap new /\ reasons' = reasons \cup {what}
      /\ UNCHANGED <<given, call, settings, loop, page>>
  BY DEF Changes
<1>2. UNCHANGED <<type, limit, cap, hidden, script, next, delivered, repeated, page,
                  retries, down, pc, attempt, retryable, faults>>
  BY <1>1 DEF settings, loop, given, call
<1>3. ProxyTypeOK' /\ MayTry' /\ (Pending' <=> Pending)
  BY <1>2 DEF Types, ProxyTypeOK, AttemptLimit, MayTry, Pending
<1>4. changes' \in 0..MaxChanges
  BY <1>1 DEF Types, Sized
<1>5. steady' \subseteq items' /\ items' \subseteq Items /\ reasons' \subseteq Reasons
  BY <1>1 DEF Types, Reasons
<1>6. Types'
  BY <1>2, <1>3, <1>4, <1>5 DEF Types
<1>7. Starting' /\ Waits'
  BY <1>1, <1>2 DEF Starting, Waits
<1>8. steady' \subseteq steady /\ steady' \subseteq new /\ reasons \subseteq reasons'
  BY <1>1
<1>9. GivenBefore' /\ PageAfter'
  BY <1>2, <1>3, <1>8 DEF GivenBefore, PageAfter
<1>10. PageFits'
  BY <1>2, <1>3, <1>8 DEF PageFits
<1>11. LoopIsComplete' /\ NothingTwice'
  BY <1>1, <1>2, <1>8 DEF LoopIsComplete, NothingTwice
<1> QED BY <1>1, <1>2, <1>3, <1>6, <1>7, <1>8, <1>9, <1>10, <1>11

\* What comes into a collection puts the others at a later place.
LEMMA StepAdds ==
    ASSUME LoopInv, Adds
    PROVE  LoopInv'
<1> USE LoopHolds
<1>1. PICK a \in Items \ items : Changes("added", items \cup {a})
  BY DEF Adds
<1>2. items \cup {a} \in SUBSET Items /\ "added" \in {"added", "removed"}
  BY DEF Types
<1>3. /\ script = "runs" /\ items' = items \cup {a} /\ steady' \subseteq steady /\ steady \subseteq items
      /\ reasons' = reasons \cup {"added"}
      /\ UNCHANGED <<type, limit, cap, hidden, script, next, delivered, repeated, page>>
      /\ Types' /\ Starting' /\ MayTry' /\ Waits' /\ (Pending' <=> Pending)
      /\ GivenBefore' /\ PageAfter' /\ PageFits' /\ LoopIsComplete' /\ NothingTwice'
  BY <1>1, <1>2, ChangesIs DEF Types
<1>4. ASSUME NEW i \in steady, NEW n \in Int, Before(items', i) < n
      PROVE  Before(items, i) < n
  <2>1. i \in Int /\ items \in SUBSET items' /\ items' \in SUBSET Items /\ items \in SUBSET Items
    BY <1>2, <1>3 DEF Types, Items
  <2>2. Before(items, i) \in 0..NumItems /\ Before(items', i) \in 0..NumItems
    BY <2>1, BeforeNat
  <2>3. Before(items, i) <= Before(items', i)
    BY <2>1, BeforeMore
  <2> QED BY <1>4, <2>2, <2>3
<1>5. next \in Int /\ Cardinality(page.items) \in Int /\ next + Cardinality(page.items) \in Int
  <2>1. page.items \in SUBSET Items /\ next \in 0..NumItems
    BY DEF Types
  <2>2. Cardinality(page.items) \in 0..NumItems
    BY <2>1, ItemsFinite
  <2> QED BY <2>1, <2>2
<1>6. GivenPlaces'
  <2> SUFFICES ASSUME type = "offset", "removed" \notin reasons, NEW i \in steady', Before(items', i) < next
               PROVE  i \in delivered \cup hidden
    BY <1>3 DEF GivenPlaces
  <2>1. i \in steady
    BY <1>3
  <2>2. Before(items, i) < next
    BY <1>4, <1>5, <2>1
  <2> QED BY <1>3, <2>1, <2>2 DEF GivenPlaces
<1>7. PagePlaces'
  <2> SUFFICES ASSUME type = "offset", Pending, "removed" \notin reasons, NEW i \in steady',
                      Before(items', i) < next + Cardinality(page.items)
               PROVE  i \in delivered \cup hidden \cup page.items
    BY <1>3 DEF PagePlaces
  <2>1. i \in steady
    BY <1>3
  <2>2. Before(items, i) < next + Cardinality(page.items)
    BY <1>4, <1>5, <2>1
  <2> QED BY <1>3, <2>1, <2>2 DEF PagePlaces
<1>8. PlacesGiven' /\ PlacesPage'
  BY <1>3 DEF PlacesGiven, PlacesPage, Unfiltered
<1> QED BY <1>3, <1>6, <1>7, <1>8 DEF LoopInv

\* What goes from it puts the others at an earlier place.
LEMMA StepRemoves ==
    ASSUME LoopInv, Removes
    PROVE  LoopInv'
<1> USE LoopHolds
<1>1. PICK a \in items : Changes("removed", items \ {a})
  BY DEF Removes
<1>2. items \ {a} \in SUBSET Items /\ "removed" \in {"added", "removed"}
  BY DEF Types
<1>3. /\ script = "runs" /\ items' = items \ {a} /\ reasons' = reasons \cup {"removed"}
      /\ UNCHANGED <<type, limit, cap, hidden, script, next, delivered, repeated, page>>
      /\ Types' /\ Starting' /\ MayTry' /\ Waits' /\ (Pending' <=> Pending)
      /\ GivenBefore' /\ PageAfter' /\ PageFits' /\ LoopIsComplete' /\ NothingTwice'
  BY <1>1, <1>2, ChangesIs
<1>4. ASSUME NEW i \in items', NEW n \in Int, Before(items, i) < n
      PROVE  Before(items', i) < n
  <2>1. i \in Int /\ items' \in SUBSET items /\ items' \in SUBSET Items /\ items \in SUBSET Items
    BY <1>2, <1>3 DEF Types, Items
  <2>2. Before(items, i) \in 0..NumItems /\ Before(items', i) \in 0..NumItems
    BY <2>1, BeforeNat
  <2>3. Before(items', i) <= Before(items, i)
    BY <2>1, BeforeMore
  <2> QED BY <1>4, <2>2, <2>3
<1>5. next \in Int /\ Cardinality(page.items) \in Int /\ next + Cardinality(page.items) \in Int
  <2>1. page.items \in SUBSET Items /\ next \in 0..NumItems
    BY DEF Types
  <2>2. Cardinality(page.items) \in 0..NumItems
    BY <2>1, ItemsFinite
  <2> QED BY <2>1, <2>2
<1>6. GivenPlaces' /\ PagePlaces'
  BY <1>3 DEF GivenPlaces, PagePlaces
<1>7. PlacesGiven'
  <2> SUFFICES ASSUME Unfiltered, NEW i \in delivered, i \in items'
               PROVE  Before(items', i) < next
    BY <1>3 DEF PlacesGiven, Unfiltered
  <2>1. i \in items /\ Before(items, i) < next
    BY <1>3 DEF PlacesGiven
  <2> QED BY <1>4, <1>5, <2>1
<1>8. PlacesPage'
  <2> SUFFICES ASSUME Unfiltered, Pending
               PROVE  /\ \A i \in page.items \cap items' : Before(items', i) < next + Cardinality(page.items)
                      /\ delivered \cap page.items = {}
    BY <1>3 DEF PlacesPage, Unfiltered
  <2>1. ASSUME NEW i \in page.items, i \in items'
        PROVE  Before(items', i) < next + Cardinality(page.items)
    <3>1. i \in items /\ Before(items, i) < next + Cardinality(page.items)
      BY <1>3, <2>1 DEF PlacesPage
    <3> QED BY <1>4, <1>5, <2>1, <3>1
  <2> QED BY <2>1 DEF PlacesPage
<1> QED BY <1>3, <1>6, <1>7, <1>8 DEF LoopInv

LEMMA StepStutters ==
    ASSUME LoopInv, UNCHANGED loopVars
    PROVE  LoopInv'
<1>1. UNCHANGED <<given, call, settings, provider, loop, page, reasons>>
  BY DEF loopVars
<1>2. CallFits
  BY <1>1, LoopHolds DEF given, call, CallFits, Types, ProxyTypeOK, AttemptLimit, MayTry,
     Pending
<1> QED BY <1>1, <1>2, CallStays

LEMMA StepLoop ==
    ASSUME LoopInv, [LoopNext]_loopVars
    PROVE  LoopInv'
<1>1. CASE Paginate \/ InvalidConfiguration \/ Throws
  BY <1>1, StepScript
<1>2. CASE Fetch
  BY <1>2, StepFetch
<1>3. CASE Cursor \/ Link
  BY <1>3, StepForward
<1>4. CASE Offset
  BY <1>4, StepOffset
<1>5. CASE Serves
  BY <1>5, StepServes
<1>6. CASE Running /\ (Proceeds \/ Fails)
  <2>1. UNCHANGED <<given, settings, provider, loop, page, reasons>>
    BY <1>6 DEF Running
  <2>2. CallFits
    BY <1>6, <2>1, CallGoes
  <2> QED BY <2>1, <2>2, CallStays
<1>7. CASE Adds
  BY <1>7, StepAdds
<1>8. CASE Removes
  BY <1>8, StepRemoves
<1>9. CASE UNCHANGED loopVars
  BY <1>9, StepStutters
<1> QED BY <1>1, <1>2, <1>3, <1>4, <1>5, <1>6, <1>7, <1>8, <1>9 DEF LoopNext, Steps

\* For every collection and every limit, cap and filter of its pages: a loop of
\* nango.paginate that returns has given the script every item that was there all the
\* time, no item twice, but for the reasons that LoopIsComplete and NothingTwice name.
THEOREM LoopsAreExact == LoopSpec => []LoopIsExact
<1>1. Sized
  BY ItemsAssumption, ChangesAssumption, PageAssumption, RetriesAssumption, FaultsAssumption DEF Sized
<1>2. LoopInit => LoopInv
  BY <1>1, InitLoop
<1>3. LoopInv /\ [LoopNext]_loopVars => LoopInv'
  BY StepLoop
<1>4. LoopInv => LoopIsExact
  BY DEF LoopInv, Types, LoopTypeOK, LoopIsExact, Start
<1> QED BY <1>2, <1>3, <1>4, PTL DEF LoopSpec
=============================================================================
