------------------------- MODULE NotificationsProofs -------------------------
(***************************************************************************)
(* Theorems about Notifications, for any connections, any number of runs   *)
(* and of other events.                                                    *)
(***************************************************************************)
EXTENDS Notifications, FiniteSetTheorems, TLAPS

(***************************************************************************)
(* The rows and the messages that runs have used so far are the first ones *)
(* of their kind, and every run uses one of each at most.                  *)
(***************************************************************************)

UsedRows == {n \in Rows : row[n].state # "none"}
UsedMessages == {n \in Messages : message[n].status # "none"}

\* The reports that may still insert a row, and those that may still post a message.
Undecided == {c \in Connections : task[c].pc \in {"look", "create"}}
Unposted == {c \in Connections : task[c].pc \notin {"idle", "stamp"}}

RoomForRows ==
    \E k \in 0..MaxRuns : UsedRows = 1..k /\ k + Cardinality(Undecided) <= runs
RoomForMessages ==
    \E k \in 0..MaxRuns : UsedMessages = 1..k /\ k + Cardinality(Unposted) <= runs

\* Every timestamp is one that Slack has answered.
StampsKnown ==
    /\ \A n \in Rows : row[n].ts \in UsedMessages \cup {NoMessage}
    /\ \A c \in Connections : task[c].ts \in UsedMessages \cup {NoMessage}

\* What the locals of a report say at each of its awaits.
ReportFits(c) ==
    LET t == task[c] IN
    /\ t.pc = "idle" <=> t = Idle
    /\ t.pc \in {"look", "create"} => t.ts = NoMessage
    /\ t.pc \in {"create", "add", "report", "stamp"} => c \in failing
    /\ t.pc \in {"remove", "resolve"} => c \notin failing
    /\ t.pc = "look" => (t.fails <=> c \in failing)
    /\ t.pc \in {"add", "remove", "report", "stamp", "resolve"} => t.id \in UsedRows
    /\ t.pc = "stamp" => t.ts # NoMessage
    /\ t.pc # "idle" => c \notin accounted

ReportsFit == \A c \in Connections : ReportFits(c)

CoreInv == TypeOK /\ RoomForRows /\ RoomForMessages /\ StampsKnown /\ ReportsFit

(***************************************************************************)
(* The list.                                                               *)
(***************************************************************************)

Listed(c) == \E n \in Open : c \in row[n].list

\* While somebody is accounted for, one report at a time is under way, and the row
\* is as it has read it; it is closed under it by CloseAllOpenNotifications only.
OneAtATime == accounted # {} => \A c, d \in Reporting : c = d
ReadIsCurrent ==
    accounted # {} =>
    \A c \in Connections : task[c].pc \in {"add", "remove"} =>
       /\ task[c].list = row[task[c].id].list
       /\ task[c].id \in Open \/ accounted \cap task[c].list = {}

\* A report that is alone finds one notification at most, and works on that one.
AloneFits(c) ==
    LET t == task[c] IN
    /\ \A d \in Reporting : d = c
    /\ \A m, n \in Open : m = n
    /\ t.pc = "create" => Open = {}
    /\ t.pc \in {"add", "remove"} => t.id \in Open
    /\ t.pc \in {"report", "stamp"} => Listed(c)
    /\ t.pc = "resolve" => ~Listed(c)

AloneIsExact == \A c \in Reporting : task[c].alone => AloneFits(c)

AccountedHolds == \A c \in accounted : c \in failing <=> Listed(c)

ListInv == CoreInv /\ OneAtATime /\ ReadIsCurrent /\ AloneIsExact /\ AccountedHolds

(***************************************************************************)
(* The channel.                                                            *)
(***************************************************************************)

OpenMessages == {n \in Messages : message[n].status = "open"}

\* The message of the open notification, with the number of its connections.
Shown ==
    /\ OpenMessages = {row[n].ts : n \in Open}
    /\ \A n \in Open : message[row[n].ts].count = Cardinality(row[n].list)

\* What a report that nothing has met relies on, from what it has read to its message.
InStep(c) ==
    LET t == task[c] IN
    /\ t.pc \in {"look", "create", "add", "remove"} => Shown
    /\ t.pc = "create" => Open = {}
    /\ t.pc \in {"add", "remove", "report", "stamp"} => t.id \in Open
    /\ t.pc \in {"add", "remove", "report", "resolve"} =>
          t.list = row[t.id].list /\ t.ts = row[t.id].ts
    /\ t.pc = "report" => OpenMessages = {t.ts} \ {NoMessage}
    /\ t.pc = "stamp" => OpenMessages = {t.ts}
                         /\ message[t.ts].count = Cardinality(row[t.id].list)
    /\ t.pc = "resolve" => /\ OpenMessages = {t.ts}
                           /\ Open = IF t.list = {} THEN {} ELSE {t.id}

ChannelInStep ==
    reasons = {} =>
       /\ \A c, d \in Reporting : c = d
       /\ \A m, n \in Open : m = n
       /\ \A c \in Reporting : InStep(c)
       /\ Reporting = {} => Shown

ChannelInv == CoreInv /\ ChannelInStep
(***************************************************************************)
(* Rows and messages.                                                      *)
(***************************************************************************)

LocalsType ==
    [pc : Locations, fails : BOOLEAN, id : Rows \cup {NoRow}, list : SUBSET Connections,
     ts : Messages \cup {NoMessage}, alone : BOOLEAN]

LEMMA LeastIsFirst ==
    ASSUME NEW k \in Nat, NEW m \in Nat, k < m PROVE Least((k+1)..m) = k + 1
<1>1. k + 1 \in (k+1)..m /\ \A j \in (k+1)..m : k + 1 <= j
  OBVIOUS
<1>2. \A n \in (k+1)..m : (\A j \in (k+1)..m : n <= j) => n = k + 1
  BY <1>1
<1> QED
  BY <1>1, <1>2 DEF Least

\* While a report may still insert a row, there is room for it.
LEMMA RoomForOne ==
    ASSUME NEW S \in SUBSET Connections, NEW c \in S, NEW k \in Nat, NEW n \in Nat,
           k + Cardinality(S) <= n
    PROVE  k < n /\ Cardinality(S \ {c}) \in Nat /\ k + 1 + Cardinality(S \ {c}) <= n
<1>1. IsFiniteSet(S)
  BY ConnectionsAssumption, FS_Subset
<1>2. Cardinality(S) \in Nat /\ IsFiniteSet(S \ {c}) /\ Cardinality(S \ {c}) = Cardinality(S) - 1
  BY <1>1, FS_CardinalityType, FS_RemoveElement
<1>3. Cardinality(S \ {c}) \in Nat
  BY <1>2, FS_CardinalityType
<1> QED
  BY <1>2, <1>3

LEMMA FewerFit ==
    ASSUME NEW S \in SUBSET Connections, NEW T \in SUBSET S, NEW k \in Nat, NEW n \in Nat,
           k + Cardinality(S) <= n
    PROVE  k + Cardinality(T) <= n
<1>1. IsFiniteSet(S) /\ IsFiniteSet(T)
  BY ConnectionsAssumption, FS_Subset
<1>2. Cardinality(S) \in Nat /\ Cardinality(T) \in Nat /\ Cardinality(T) <= Cardinality(S)
  BY <1>1, FS_CardinalityType, FS_Subset
<1> QED
  BY <1>2

LEMMA OneMoreFits ==
    ASSUME NEW S \in SUBSET Connections, NEW c \in Connections, NEW k \in Nat, NEW n \in Nat,
           k + Cardinality(S) <= n
    PROVE  k + Cardinality(S \cup {c}) <= n + 1
<1>1. IsFiniteSet(S)
  BY ConnectionsAssumption, FS_Subset
<1>2. Cardinality(S) \in Nat
  BY <1>1, FS_CardinalityType
<1>3. Cardinality(S \cup {c}) = Cardinality(S) \/ Cardinality(S \cup {c}) = Cardinality(S) + 1
  BY <1>1, FS_AddElement
<1> QED
  BY <1>2, <1>3

\* The row that CreateNotification inserts.
LEMMA FreeRow ==
    ASSUME TypeOK, RoomForRows, NEW c \in Connections, At(c, "create")
    PROVE  \E k \in 0..MaxRuns :
              /\ UsedRows = 1..k /\ k + Cardinality(Undecided) <= runs
              /\ Least(Unused) = k + 1 /\ k + 1 \in Rows /\ k + 1 \notin UsedRows
<1>1. PICK k \in 0..MaxRuns : UsedRows = 1..k /\ k + Cardinality(Undecided) <= runs
  BY DEF RoomForRows
<1>2. Undecided \in SUBSET Connections /\ c \in Undecided
  BY DEF Undecided, At
<1>3. runs \in Nat /\ runs <= MaxRuns /\ MaxRuns \in Nat
  BY RunsAssumption DEF TypeOK
<1>4. k \in Nat /\ k < runs
  <2>1. k \in Nat /\ runs \in Nat /\ k + Cardinality(Undecided) <= runs
    BY <1>1, <1>3
  <2> QED
    BY <1>2, <2>1, RoomForOne
<1>5. Unused = (k+1)..MaxRuns
  <2>1. Unused = Rows \ UsedRows
    BY DEF Unused, UsedRows
  <2> QED
    BY <1>1, <1>3, <2>1 DEF Rows
<1>6. Least(Unused) = k + 1
  BY <1>3, <1>4, <1>5, LeastIsFirst
<1> QED
  BY <1>1, <1>3, <1>4, <1>6 DEF Rows

\* The message that a report updates, or posts.
LEMMA TargetFound ==
    ASSUME TypeOK, RoomForMessages, StampsKnown, NEW c \in Connections,
           task[c].pc \in {"report", "resolve"}
    PROVE  /\ Target(c) \in Messages
           /\ task[c].ts # NoMessage => Target(c) = task[c].ts /\ Target(c) \in UsedMessages
           /\ task[c].ts = NoMessage =>
                 \E k \in 0..MaxRuns :
                    /\ UsedMessages = 1..k /\ k + Cardinality(Unposted) <= runs
                    /\ Target(c) = k + 1 /\ k + 1 \notin UsedMessages
<1>1. CASE task[c].ts # NoMessage
  <2>1. Target(c) = task[c].ts /\ task[c].ts \in UsedMessages
    BY <1>1 DEF Target, StampsKnown
  <2> QED
    BY <1>1, <2>1 DEF UsedMessages
<1>2. CASE task[c].ts = NoMessage
  <2>1. PICK k \in 0..MaxRuns : UsedMessages = 1..k /\ k + Cardinality(Unposted) <= runs
    BY DEF RoomForMessages
  <2>2. Unposted \in SUBSET Connections /\ c \in Unposted
    BY DEF Unposted
  <2>3. runs \in Nat /\ runs <= MaxRuns /\ MaxRuns \in Nat
    BY RunsAssumption DEF TypeOK
  <2>4. k \in Nat /\ k < MaxRuns
    <3>1. k \in Nat /\ runs \in Nat /\ k + Cardinality(Unposted) <= runs
      BY <2>1, <2>3
    <3>2. k < runs
      BY <2>2, <3>1, RoomForOne
    <3> QED
      BY <2>3, <3>1, <3>2
  <2>5. {n \in Messages : message[n].status = "none"} = (k+1)..MaxRuns
    <3>1. {n \in Messages : message[n].status = "none"} = Messages \ UsedMessages
      BY DEF UsedMessages
    <3> QED
      BY <2>1, <2>3, <3>1 DEF Messages
  <2>6. Target(c) = k + 1
    <3>1. Target(c) = Least((k+1)..MaxRuns)
      BY <1>2, <2>5 DEF Target
    <3> QED
      BY <2>3, <2>4, <3>1, LeastIsFirst
  <2> QED
    BY <1>2, <2>1, <2>3, <2>4, <2>6 DEF Messages
<1> QED
  BY <1>1, <1>2

(***************************************************************************)
(* Type correctness.                                                       *)
(***************************************************************************)

LEMMA IdleType == Idle \in LocalsType
BY DEF Idle, LocalsType, Locations

LEMMA BecomeType ==
    ASSUME TypeOK, NEW c \in Connections, NEW t \in LocalsType, Become(c, t)
    PROVE  task' \in [Connections -> LocalsType]
BY DEF TypeOK, Become, LocalsType

LEMMA NewRunType ==
    ASSUME NEW f \in BOOLEAN, NEW a \in BOOLEAN
    PROVE  [Idle EXCEPT !.pc = "look", !.fails = f, !.alone = a] \in LocalsType
BY DEF Idle, LocalsType, Locations

LEMMA NotAloneType ==
    ASSUME NEW t \in LocalsType PROVE [t EXCEPT !.alone = FALSE] \in LocalsType
BY DEF LocalsType

LEMMA LocalsKept ==
    ASSUME NEW t \in LocalsType, NEW pc \in Locations, NEW id \in Rows \cup {NoRow},
           NEW list \in SUBSET Connections, NEW ts \in Messages \cup {NoMessage}
    PROVE  /\ [t EXCEPT !.pc = pc] \in LocalsType
           /\ [t EXCEPT !.pc = pc, !.list = list] \in LocalsType
           /\ [t EXCEPT !.pc = pc, !.ts = ts] \in LocalsType
           /\ [t EXCEPT !.pc = pc, !.id = id, !.list = list] \in LocalsType
           /\ [t EXCEPT !.pc = pc, !.id = id, !.list = list, !.ts = ts] \in LocalsType
BY DEF LocalsType

RowType ==
    [state : {"none", "open", "closed"}, list : SUBSET Connections, ts : Messages \cup {NoMessage}]

\* A row is written whose list is empty only if it is closed.
LEMMA RowsKept ==
    ASSUME TypeOK, NEW n \in Rows, NEW new \in RowType, new.state = "open" => new.list # {},
           row' = [row EXCEPT ![n] = new]
    PROVE  row' \in [Rows -> RowType] /\ \A m \in Open' : row'[m].list # {}
<1>1. row \in [Rows -> RowType]
  BY DEF TypeOK, RowType
<1>2. row' \in [Rows -> RowType]
  BY <1>1
<1>3. \A m \in Rows : row'[m].state = "open" => row'[m].list # {}
  BY <1>1 DEF TypeOK, Open
<1> QED
  BY <1>2, <1>3 DEF Open

\* Most reports' steps write a row, a message and their locals, and no more.
LEMMA TypesKept ==
    ASSUME TypeOK, UNCHANGED <<settings, failing, runs>>, NEW c \in Connections,
           NEW t \in LocalsType, Become(c, t),
           row' \in [Rows -> RowType],
           message' \in [Messages -> [status : {"none", "open", "closed"},
                                      count : 0..Cardinality(Connections)]],
           accounted' \subseteq Connections, reasons' \subseteq Reasons, events' \in 0..MaxEvents,
           \A n \in Open' : row'[n].list # {}
    PROVE  TypeOK'
<1>1. task' \in [Connections -> LocalsType]
  BY BecomeType
<1>2. enabled' \in BOOLEAN /\ connected' \in BOOLEAN /\ closing' \in BOOLEAN
      /\ live' \subseteq Connections /\ failing' \subseteq Connections /\ runs' \in 0..MaxRuns
  BY DEF TypeOK, settings
<1> QED
  BY <1>1, <1>2 DEF TypeOK, LocalsType, RowType

LEMMA TriggerType ==
    ASSUME TypeOK, NEW c \in Connections, TriggerAction(c)
    PROVE  message' \in [Messages -> [status : {"none", "open", "closed"},
                                      count : 0..Cardinality(Connections)]]
<1>1. task[c].list \in SUBSET Connections
  BY DEF TypeOK
<1>2. Cardinality(task[c].list) \in 0..Cardinality(Connections)
  <2>1. IsFiniteSet(task[c].list) /\ Cardinality(task[c].list) <= Cardinality(Connections)
    BY <1>1, ConnectionsAssumption, FS_Subset
  <2> QED
    BY <2>1, ConnectionsAssumption, FS_CardinalityType
<1> DEFINE says == [status |-> IF task[c].list = {} THEN "closed" ELSE "open",
                    count |-> Cardinality(task[c].list)]
<1>3. says \in [status : {"none", "open", "closed"}, count : 0..Cardinality(Connections)]
  BY <1>2
<1>4. message' = [message EXCEPT ![Target(c)] = says]
  BY DEF TriggerAction
<1> HIDE DEF says
<1> QED
  BY <1>3, <1>4 DEF TypeOK

LEMMA InitTypeOK == Init => TypeOK
<1> SUFFICES ASSUME Init PROVE TypeOK
  OBVIOUS
<1>1. task \in [Connections -> LocalsType]
  BY IdleType DEF Init
<1>2. Cardinality(Connections) \in Nat
  BY ConnectionsAssumption, FS_CardinalityType
<1>3. runs \in 0..MaxRuns /\ events \in 0..MaxEvents
  BY RunsAssumption, EventsAssumption DEF Init
<1>4. row \in [Rows -> RowType] /\ \A n \in Open : row[n].list # {}
  BY DEF Init, NewRow, RowType, Open
<1>5. message \in [Messages -> [status : {"none", "open", "closed"},
                               count : 0..Cardinality(Connections)]]
  BY <1>2 DEF Init, NewMessage
<1> QED
  BY <1>1, <1>3, <1>4, <1>5 DEF Init, TypeOK, LocalsType, RowType

LEMMA NextTypeOK ==
    ASSUME CoreInv, [Next]_vars
    PROVE  TypeOK'
<1> USE DEF settings
<1>c. TypeOK /\ RoomForRows /\ RoomForMessages /\ StampsKnown /\ ReportsFit
  BY DEF CoreInv
<1> USE <1>c
<1>a. \A c \in Connections : task[c] \in LocalsType
  BY DEF TypeOK, LocalsType
<1>b. \A n \in Rows : row[n].list \subseteq Connections /\ row[n].ts \in Messages \cup {NoMessage}
  BY DEF TypeOK
<1>d. NoRow \in Rows \cup {NoRow} /\ {} \in SUBSET Connections
      /\ NoMessage \in Messages \cup {NoMessage}
  OBVIOUS
<1>1. ASSUME NEW c \in Connections, NEW fails \in BOOLEAN, RunEnds(c, fails)
      PROVE  TypeOK'
  <2>1. task' \in [Connections -> LocalsType]
    <3>1. CASE enabled
      <4> DEFINE one == Reporting = {} /\ Cardinality(Open) <= 1
      <4> DEFINE new == [Idle EXCEPT !.pc = "look", !.fails = fails, !.alone = one]
      <4>1. one \in BOOLEAN
        OBVIOUS
      <4>2. new \in LocalsType
        <5> HIDE DEF one
        <5> QED
          BY <4>1, NewRunType
      <4>3. task' = [d \in Connections |-> IF d = c THEN new ELSE [task[d] EXCEPT !.alone = FALSE]]
        BY <1>1, <3>1 DEF RunEnds
      <4> HIDE DEF new
      <4> QED
        BY <4>2, <4>3, <1>a, NotAloneType
    <3>2. CASE ~enabled
      BY <1>1, <3>2 DEF RunEnds, TypeOK, LocalsType
    <3> QED
      BY <3>1, <3>2
  <2>2. runs' \in 0..MaxRuns /\ UNCHANGED <<settings, row, message, events>>
    <3>1. runs < MaxRuns /\ runs' = runs + 1 /\ UNCHANGED <<settings, row, message, events>>
      BY <1>1 DEF RunEnds
    <3>2. runs \in 0..MaxRuns
      BY DEF TypeOK
    <3> QED
      BY <3>1, <3>2, RunsAssumption
  <2>3. failing' \subseteq Connections /\ accounted' \subseteq Connections
        /\ reasons' \subseteq Reasons
    BY <1>1 DEF RunEnds, TypeOK, Reasons
  <2> QED
    BY <2>1, <2>2, <2>3 DEF TypeOK, LocalsType, Open
<1>2. ASSUME NEW c \in Connections, AddFailingConnection(c) PROVE TypeOK'
  <2>1. PICK t \in LocalsType : Become(c, t)
    <3>1. CASE Become(c, [task[c] EXCEPT !.pc = "create"])
      BY <1>a, <3>1 DEF LocalsType, Locations
    <3>2. ASSUME NEW n \in Open, Read(c, n, IF c \in row[n].list THEN "report" ELSE "add")
          PROVE  \E t \in LocalsType : Become(c, t)
      <4>1. n \in Rows
        BY DEF Open
      <4>2. (IF c \in row[n].list THEN "report" ELSE "add") \in Locations
        BY DEF Locations
      <4>3. [task[c] EXCEPT !.pc = IF c \in row[n].list THEN "report" ELSE "add", !.id = n,
                            !.list = row[n].list, !.ts = row[n].ts] \in LocalsType
        BY <1>a, <1>b, <4>1, <4>2, LocalsKept
      <4> QED
        BY <3>2, <4>3 DEF Read
    <3> QED
      BY <1>2, <3>1, <3>2 DEF AddFailingConnection
  <2>2. UNCHANGED <<settings, failing, runs, events, row, message, accounted, reasons>>
    BY <1>2 DEF AddFailingConnection, Quiet, Same, bounds
  <2> QED
    BY <2>1, <2>2, TypesKept DEF TypeOK, Open, RowType
<1>3. ASSUME NEW c \in Connections, CreateNotification(c) PROVE TypeOK'
  <2>1. At(c, "create")
    BY <1>3 DEF CreateNotification
  <2>2. Least(Unused) \in Rows
    BY <2>1, FreeRow
  <2>3. [task[c] EXCEPT !.pc = "report", !.id = Least(Unused), !.list = {c}] \in LocalsType
    <3>1. {c} \in SUBSET Connections
      OBVIOUS
    <3> QED
      BY <1>a, <2>2, <3>1, LocalsKept DEF Locations
  <2>4. Become(c, [task[c] EXCEPT !.pc = "report", !.id = Least(Unused), !.list = {c}])
        /\ row' = [row EXCEPT ![Least(Unused)] = [state |-> "open", list |-> {c}, ts |-> NoMessage]]
        /\ UNCHANGED <<settings, failing, runs, events, message, accounted, reasons>>
    BY <1>3 DEF CreateNotification, Quiet, Same, bounds
  <2>5. row' \in [Rows -> RowType] /\ \A n \in Open' : row'[n].list # {}
    <3>1. [state |-> "open", list |-> {c}, ts |-> NoMessage] \in RowType
      BY DEF RowType
    <3> QED
      BY <2>2, <2>4, <3>1, RowsKept
  <2> QED
    BY <2>3, <2>4, <2>5, TypesKept DEF TypeOK
<1>4. ASSUME NEW c \in Connections, Push(c) PROVE TypeOK'
  <2> DEFINE list == task[c].list \cup {c}
  <2>1. list \in SUBSET Connections /\ list # {}
    BY DEF TypeOK
  <2>2. Become(c, [task[c] EXCEPT !.pc = "report", !.list = list])
        /\ row' = [row EXCEPT ![task[c].id].list = list]
        /\ UNCHANGED <<settings, failing, runs, events, message, accounted, reasons>>
    BY <1>4 DEF Push, Quiet, Same, bounds
  <2> HIDE DEF list
  <2>3. [task[c] EXCEPT !.pc = "report", !.list = list] \in LocalsType
    BY <1>a, <1>d, <2>1, LocalsKept DEF Locations
  <2>4. row' \in [Rows -> RowType] /\ \A n \in Open' : row'[n].list # {}
    <3>1. task[c].id \in Rows /\ row[task[c].id] \in RowType
      BY <1>4 DEF Push, At, ReportsFit, ReportFits, UsedRows, TypeOK, RowType
    <3>2. row' = [row EXCEPT ![task[c].id] = [row[task[c].id] EXCEPT !.list = list]]
      BY <2>2, <3>1 DEF TypeOK, RowType
    <3>3. [row[task[c].id] EXCEPT !.list = list] \in RowType
      BY <2>1, <3>1 DEF RowType
    <3>4. [row[task[c].id] EXCEPT !.list = list].state = "open"
          => [row[task[c].id] EXCEPT !.list = list].list # {}
      BY <2>1, <3>1 DEF RowType
    <3> QED
      BY <3>1, <3>2, <3>3, <3>4, RowsKept
  <2> QED
    BY <2>2, <2>3, <2>4, TypesKept DEF TypeOK
<1>5. ASSUME NEW c \in Connections, RemoveFailingConnection(c) PROVE TypeOK'
  <2>1. PICK t \in LocalsType : Become(c, t)
    <3>1. CASE Ended(c)
      BY <3>1, IdleType DEF Ended
    <3>2. ASSUME NEW n \in Open, Read(c, n, "remove")
          PROVE  \E t \in LocalsType : Become(c, t)
      <4>1. n \in Rows
        BY DEF Open
      <4>2. [task[c] EXCEPT !.pc = "remove", !.id = n, !.list = row[n].list, !.ts = row[n].ts]
            \in LocalsType
        BY <1>a, <1>b, <4>1, LocalsKept DEF Locations
      <4> QED
        BY <3>2, <4>2 DEF Read
    <3> QED
      BY <1>5, <3>1, <3>2 DEF RemoveFailingConnection
  <2>2. UNCHANGED <<settings, failing, runs, events, row, message, reasons>>
        /\ accounted' \subseteq Connections
    BY <1>5 DEF RemoveFailingConnection, Quiet, Same, bounds, Ended, TypeOK
  <2> QED
    BY <2>1, <2>2, TypesKept DEF TypeOK, Open, RowType
<1>6. ASSUME NEW c \in Connections, Splice(c) PROVE TypeOK'
  <2> DEFINE list == task[c].list \ {c}
  <2>1. list \in SUBSET Connections
    BY DEF TypeOK
  <2>2. Become(c, [task[c] EXCEPT !.pc = "resolve", !.list = list])
        /\ row' = [row EXCEPT ![task[c].id].list = list,
                              ![task[c].id].state = IF list = {} THEN "closed" ELSE "open"]
        /\ UNCHANGED <<settings, failing, runs, events, message, accounted, reasons>>
    BY <1>6 DEF Splice, Quiet, Same, bounds
  <2> HIDE DEF list
  <2>3. [task[c] EXCEPT !.pc = "resolve", !.list = list] \in LocalsType
    BY <1>a, <1>d, <2>1, LocalsKept DEF Locations
  <2>4. row' \in [Rows -> RowType] /\ \A n \in Open' : row'[n].list # {}
    <3> DEFINE new == [row[task[c].id] EXCEPT
                         !.list = list, !.state = IF list = {} THEN "closed" ELSE "open"]
    <3>1. task[c].id \in Rows /\ row[task[c].id] \in RowType
      BY <1>6 DEF Splice, At, ReportsFit, ReportFits, UsedRows, TypeOK, RowType
    <3>2. row' = [row EXCEPT ![task[c].id] = new]
      BY <2>2, <3>1 DEF TypeOK, RowType
    <3>3. new \in RowType
      BY <2>1, <3>1 DEF RowType
    <3>4. new.state = "open" => new.list # {}
      BY <2>1, <3>1 DEF RowType
    <3> QED
      BY <3>1, <3>2, <3>3, <3>4, RowsKept
  <2> QED
    BY <2>2, <2>3, <2>4, TypesKept DEF TypeOK
<1>7. ASSUME NEW c \in Connections, ReportFailure(c) PROVE TypeOK'
  <2>1. Target(c) \in Messages
    BY <1>7, TargetFound DEF ReportFailure, At
  <2>2. Become(c, [task[c] EXCEPT !.pc = "stamp", !.ts = Target(c)])
        /\ UNCHANGED <<settings, failing, runs, events, row, accounted, reasons>>
    BY <1>7 DEF ReportFailure, Quiet, Same, bounds
  <2>3. [task[c] EXCEPT !.pc = "stamp", !.ts = Target(c)] \in LocalsType
    BY <1>a, <1>d, <2>1, LocalsKept DEF Locations
  <2>4. message' \in [Messages -> [status : {"none", "open", "closed"},
                                   count : 0..Cardinality(Connections)]]
    BY <1>7, TriggerType DEF ReportFailure
  <2> QED
    BY <2>2, <2>3, <2>4, TypesKept DEF TypeOK, Open, RowType
<1>8. ASSUME NEW c \in Connections, UpdateNotificationWithTimestamp(c) PROVE TypeOK'
  <2>1. Become(c, Idle) /\ row' = [row EXCEPT ![task[c].id].ts = task[c].ts]
        /\ UNCHANGED <<settings, failing, runs, events, message, reasons>>
        /\ accounted' \subseteq Connections
    BY <1>8 DEF UpdateNotificationWithTimestamp, Same, bounds, Ended, TypeOK
  <2>2. task[c].ts \in Messages \cup {NoMessage}
    BY DEF TypeOK
  <2>3. row' \in [Rows -> RowType] /\ \A n \in Open' : row'[n].list # {}
    <3>1. task[c].id \in Rows /\ row[task[c].id] \in RowType
      BY <1>8 DEF UpdateNotificationWithTimestamp, At, ReportsFit, ReportFits, UsedRows, TypeOK,
                  RowType
    <3>2. row' = [row EXCEPT ![task[c].id] = [row[task[c].id] EXCEPT !.ts = task[c].ts]]
      BY <2>1
    <3>3. [row[task[c].id] EXCEPT !.ts = task[c].ts] \in RowType
          /\ (row[task[c].id].state = "open" => row[task[c].id].list # {})
      BY <2>2, <3>1 DEF RowType, TypeOK, Open
    <3> QED
      BY <3>1, <3>2, <3>3, RowsKept DEF RowType
  <2> QED
    BY <2>1, <2>3, IdleType, TypesKept DEF TypeOK
<1>9. ASSUME NEW c \in Connections, ReportResolution(c) PROVE TypeOK'
  <2>1. Become(c, Idle) /\ UNCHANGED <<settings, failing, runs, events, row, reasons>>
        /\ accounted' \subseteq Connections
    BY <1>9 DEF ReportResolution, Same, bounds, Ended, TypeOK
  <2>2. message' \in [Messages -> [status : {"none", "open", "closed"},
                                   count : 0..Cardinality(Connections)]]
    BY <1>9, TriggerType DEF ReportResolution
  <2> QED
    BY <2>1, <2>2, IdleType, TypesKept DEF TypeOK, Open, RowType
<1>10. ASSUME NEW c \in Connections, NotConnected(c) \/ ActionFails(c) \/ ReportStops(c)
       PROVE  TypeOK'
  <2>1. Become(c, Idle) /\ UNCHANGED <<settings, failing, runs, row, message>>
        /\ accounted' \subseteq Connections /\ reasons' \subseteq Reasons
    BY <1>10 DEF NotConnected, ActionFails, ReportStops, Same, bounds, Ended, Quiet, Event,
       TypeOK,
                 Reasons
  <2>2. events' \in 0..MaxEvents
    BY <1>10, EventsAssumption
       DEF NotConnected, ActionFails, ReportStops, Same, bounds, Event, TypeOK
  <2> QED
    BY <2>1, <2>2, IdleType, TypesKept DEF TypeOK, Open, RowType
<1>11. ASSUME NEW e \in BOOLEAN, NEW k \in BOOLEAN, NEW l \in SUBSET Connections, Setting(e, k, l)
       PROVE  TypeOK'
  <2>1. events' \in 0..MaxEvents
    BY <1>11, EventsAssumption DEF Setting, Event, TypeOK
  <2>2. enabled' \in BOOLEAN /\ connected' \in BOOLEAN /\ live' \subseteq Connections
        /\ UNCHANGED <<closing, runs, failing, task, row, message, accounted, reasons>>
    BY <1>11 DEF Setting, Event, Quiet
  <2> QED
    BY <2>1, <2>2 DEF TypeOK, Open
<1>12. CASE DeleteAdminConnection
  <2>1. events' \in 0..MaxEvents
    BY <1>12, EventsAssumption DEF DeleteAdminConnection, Event, TypeOK
  <2>2. connected' = FALSE /\ closing' = TRUE
        /\ UNCHANGED <<enabled, live, runs, failing, task, row, message, accounted, reasons>>
    BY <1>12 DEF DeleteAdminConnection, Event, Quiet
  <2> QED
    BY <2>1, <2>2 DEF TypeOK, Open
<1>13. CASE CloseAllOpenNotifications
  <2>1. task' \in [Connections -> LocalsType]
    BY <1>13, <1>a, NotAloneType DEF CloseAllOpenNotifications
  <2>2. /\ row' \in [Rows -> RowType]
        /\ Open' = {}
    BY <1>13 DEF CloseAllOpenNotifications, TypeOK, Open, RowType
  <2>3. closing' = FALSE /\ UNCHANGED <<enabled, connected, live, runs, events, failing, message>>
        /\ accounted' \subseteq Connections /\ reasons' \subseteq Reasons
    BY <1>13 DEF CloseAllOpenNotifications, TypeOK, bounds, Reasons
  <2> QED
    BY <2>1, <2>2, <2>3 DEF TypeOK, LocalsType, RowType
<1>14. CASE UNCHANGED vars
  BY <1>14 DEF vars, bounds, TypeOK, Open
<1>15. SetSlackNotificationsEnabled \/ ConnectSlack \/ (\E c \in Connections : DeleteConnection(c))
       => TypeOK'
  <2>1. enabled \in BOOLEAN /\ connected \in BOOLEAN /\ live \subseteq Connections
    BY DEF TypeOK
  <2>2. ASSUME SetSlackNotificationsEnabled PROVE TypeOK'
    <3> DEFINE e == ~enabled
    <3>1. e \in BOOLEAN /\ Setting(e, connected, live)
      BY <2>1, <2>2 DEF SetSlackNotificationsEnabled
    <3> HIDE DEF e
    <3> QED
      BY <1>11, <2>1, <3>1
  <2>3. ConnectSlack => TypeOK'
    BY <1>11, <2>1 DEF ConnectSlack
  <2>4. ASSUME NEW c \in Connections, DeleteConnection(c) PROVE TypeOK'
    <3>1. live \ {c} \in SUBSET Connections
      BY <2>1
    <3> QED
      BY <1>11, <2>1, <2>4, <3>1 DEF DeleteConnection
  <2> QED
    BY <2>2, <2>3, <2>4
<1> QED
  BY <1>1, <1>2, <1>3, <1>4, <1>5, <1>6, <1>7, <1>8, <1>9, <1>10, <1>12, <1>13, <1>14, <1>15
     DEF Next

(***************************************************************************)
(* The steps, as far as the rows, the messages and the reports go.         *)
(***************************************************************************)

\* A report ends without what it had to send.
GivesUp(c) ==
    /\ task[c].pc # "idle" /\ Become(c, Idle)
    /\ Quiet \/ (task[c].pc \in {"report", "resolve"} /\ Ended(c))
    /\ reasons' = reasons \cup {"unsent"}
    /\ UNCHANGED <<row, message, failing, runs>>

\* A setting changes, or nothing does.
Aside == UNCHANGED <<row, message, task, failing, runs, accounted, reasons>>

StepOf(c) ==
    \/ \E fails \in BOOLEAN : RunEnds(c, fails)
    \/ AddFailingConnection(c)
    \/ CreateNotification(c)
    \/ Push(c)
    \/ RemoveFailingConnection(c)
    \/ Splice(c)
    \/ ReportFailure(c)
    \/ UpdateNotificationWithTimestamp(c)
    \/ ReportResolution(c)
    \/ GivesUp(c)

LEMMA StepsAre ==
    ASSUME ReportsFit, [Next]_vars
    PROVE  (\E c \in Connections : StepOf(c)) \/ CloseAllOpenNotifications \/ Aside
<1>1. ASSUME NEW c \in Connections, NotConnected(c) \/ ActionFails(c) \/ ReportStops(c)
      PROVE  GivesUp(c)
  <2>1. task[c].pc # "idle"
    BY <1>1 DEF NotConnected, ActionFails, ReportStops, ReportsFit, ReportFits
  <2>2. Become(c, Idle) /\ reasons' = reasons \cup {"unsent"}
        /\ UNCHANGED <<row, message, failing, runs>>
    BY <1>1 DEF NotConnected, ActionFails, ReportStops, Ended, Same, bounds, Event
  <2>3. CASE ReportStops(c)
    <3>1. Quiet
      BY <2>3 DEF ReportStops
    <3> QED
      BY <2>1, <2>2, <3>1 DEF GivesUp
  <2>4. CASE NotConnected(c) \/ ActionFails(c)
    <3>1. task[c].pc \in {"report", "resolve"} /\ Ended(c)
      BY <2>4 DEF NotConnected, ActionFails
    <3> QED
      BY <2>1, <2>2, <3>1 DEF GivesUp
  <2> QED
    BY <1>1, <2>3, <2>4
<1>2. ASSUME NEW e, NEW k, NEW l, Setting(e, k, l) PROVE Aside
  BY <1>2 DEF Setting, Event, Quiet, Aside
<1>3. SetSlackNotificationsEnabled \/ ConnectSlack \/ (\E c \in Connections : DeleteConnection(c))
      => Aside
  BY <1>2 DEF SetSlackNotificationsEnabled, ConnectSlack, DeleteConnection
<1>4. DeleteAdminConnection \/ UNCHANGED vars => Aside
  BY DEF DeleteAdminConnection, Event, Quiet, Aside, vars, bounds
<1> QED
  BY <1>1, <1>3, <1>4 DEF Next, StepOf

\* The other reports keep their locals.
LEMMA OnlyMine ==
    ASSUME TypeOK, NEW c \in Connections, NEW t, Become(c, t)
    PROVE  task'[c] = t /\ \A d \in Connections : d # c => task'[d] = task[d]
BY DEF TypeOK, Become

\* The run of c that has ended looks next, and no other report is alone any more.
LEMMA NewRun ==
    ASSUME TypeOK, NEW c \in Connections, NEW fails \in BOOLEAN, RunEnds(c, fails), enabled
    PROVE  /\ task[c] = Idle
           /\ \E one \in BOOLEAN :
                 /\ one = TRUE => Reporting = {} /\ Cardinality(Open) <= 1
                 /\ task'[c] = [Idle EXCEPT !.pc = "look", !.fails = fails, !.alone = one]
           /\ \A d \in Connections : d # c => task'[d] = [task[d] EXCEPT !.alone = FALSE]
<1> DEFINE one == Reporting = {} /\ Cardinality(Open) <= 1
<1> DEFINE new == [Idle EXCEPT !.pc = "look", !.fails = fails, !.alone = one]
<1>1. task' = [d \in Connections |-> IF d = c THEN new ELSE [task[d] EXCEPT !.alone = FALSE]]
      /\ task[c] = Idle
  BY DEF RunEnds
<1>2. one \in BOOLEAN /\ (one = TRUE => Reporting = {} /\ Cardinality(Open) <= 1)
  OBVIOUS
<1>3. new = [Idle EXCEPT !.pc = "look", !.fails = fails, !.alone = one]
  OBVIOUS
<1> HIDE DEF new
<1>4. task'[c] = new /\ \A d \in Connections : d # c => task'[d] = [task[d] EXCEPT !.alone = FALSE]
  BY <1>1
<1> HIDE DEF one
<1> QED
  BY <1>1, <1>2, <1>3, <1>4

LEMMA NextRoomForRows == ASSUME CoreInv, [Next]_vars PROVE RoomForRows'
<1> USE DEF CoreInv
<1>1. PICK k \in 0..MaxRuns : UsedRows = 1..k /\ k + Cardinality(Undecided) <= runs
  BY DEF RoomForRows
<1>2. runs \in Nat /\ MaxRuns \in Nat /\ k \in Nat /\ Undecided \in SUBSET Connections
  BY <1>1, RunsAssumption DEF TypeOK, Undecided
<1>3. ASSUME UsedRows' = UsedRows, Undecided' \subseteq Undecided, runs' = runs
      PROVE  RoomForRows'
  BY <1>1, <1>2, <1>3, FewerFit DEF RoomForRows
<1>4. ASSUME NEW c \in Connections, NEW fails \in BOOLEAN, RunEnds(c, fails)
      PROVE  RoomForRows'
  <2>1. Undecided' \subseteq Undecided \cup {c}
    <3>1. ASSUME NEW d \in Connections, d # c PROVE task'[d].pc = task[d].pc
      <4>1. CASE enabled
        <5>1. task'[d] = [task[d] EXCEPT !.alone = FALSE]
          BY <1>4, <3>1, <4>1, NewRun
        <5> QED
          BY <5>1 DEF TypeOK
      <4>2. CASE ~enabled
        BY <1>4, <4>2 DEF RunEnds
      <4> QED
        BY <4>1, <4>2
    <3> QED
      BY <3>1 DEF Undecided
  <2>2. k + Cardinality(Undecided \cup {c}) <= runs + 1
    BY <1>1, <1>2, OneMoreFits
  <2>3. k + Cardinality(Undecided') <= runs + 1
    <3>1. Undecided \cup {c} \in SUBSET Connections /\ runs + 1 \in Nat
      BY <1>2
    <3> QED
      BY <1>2, <2>1, <2>2, <3>1, FewerFit
  <2>4. UsedRows' = UsedRows /\ runs' = runs + 1
    BY <1>4 DEF RunEnds, UsedRows
  <2> QED
    BY <1>1, <2>3, <2>4 DEF RoomForRows
<1>5. ASSUME NEW c \in Connections, CreateNotification(c) PROVE RoomForRows'
  <2>1. At(c, "create")
    BY <1>5 DEF CreateNotification
  <2>2. PICK j \in 0..MaxRuns :
           /\ UsedRows = 1..j /\ j + Cardinality(Undecided) <= runs
           /\ Least(Unused) = j + 1 /\ j + 1 \in Rows /\ j + 1 \notin UsedRows
    BY <2>1, FreeRow
  <2>3. row' = [row EXCEPT ![j + 1] = [state |-> "open", list |-> {c}, ts |-> NoMessage]]
        /\ Become(c, [task[c] EXCEPT !.pc = "report", !.id = j + 1, !.list = {c}]) /\ runs' = runs
    BY <1>5, <2>2 DEF CreateNotification, Same, bounds
  <2>4. UsedRows' = UsedRows \cup {j + 1}
    BY <2>2, <2>3 DEF UsedRows, TypeOK
  <2>5. Undecided' = Undecided \ {c} /\ c \in Undecided
    BY <2>1, <2>3 DEF Undecided, At, Become, TypeOK
  <2>6. j + 1 + Cardinality(Undecided \ {c}) <= runs
    BY <1>2, <2>2, <2>5, RoomForOne
  <2>7. j + 1 \in 0..MaxRuns /\ UsedRows' = 1..(j + 1)
    BY <2>2, <2>4 DEF Rows
  <2> QED
    BY <2>3, <2>5, <2>6, <2>7 DEF RoomForRows
<1>6. ASSUME NEW c \in Connections, AddFailingConnection(c) PROVE RoomForRows'
  <2>1. Undecided' \subseteq Undecided
    BY <1>6 DEF AddFailingConnection, Undecided, Become, Read, At, TypeOK
  <2>2. UsedRows' = UsedRows /\ runs' = runs
    BY <1>6 DEF AddFailingConnection, UsedRows, Same, bounds
  <2> QED
    BY <1>3, <2>1, <2>2
<1>7. ASSUME NEW c \in Connections, Push(c) PROVE RoomForRows'
  <2>1. Undecided' \subseteq Undecided
    BY <1>7 DEF Push, Undecided, Become, TypeOK
  <2>2. UsedRows' = UsedRows /\ runs' = runs
    BY <1>7 DEF Push, UsedRows, Same, bounds, TypeOK
  <2> QED
    BY <1>3, <2>1, <2>2
<1>8. ASSUME NEW c \in Connections, RemoveFailingConnection(c) PROVE RoomForRows'
  <2>1. Undecided' \subseteq Undecided
    BY <1>8 DEF RemoveFailingConnection, Undecided, Become, Read, At, Ended, Idle, TypeOK
  <2>2. UsedRows' = UsedRows /\ runs' = runs
    BY <1>8 DEF RemoveFailingConnection, UsedRows, Same, bounds
  <2> QED
    BY <1>3, <2>1, <2>2
<1>9. ASSUME NEW c \in Connections, Splice(c) PROVE RoomForRows'
  <2>1. Undecided' \subseteq Undecided
    BY <1>9 DEF Splice, Undecided, Become, TypeOK
  <2>2. task[c].id \in UsedRows
    BY <1>9 DEF Splice, At, ReportsFit, ReportFits
  <2>3. UsedRows' = UsedRows /\ runs' = runs
    BY <1>9, <2>2 DEF Splice, UsedRows, Same, bounds, TypeOK
  <2> QED
    BY <1>3, <2>1, <2>3
<1>10. ASSUME NEW c \in Connections, ReportFailure(c) PROVE RoomForRows'
  <2>1. Undecided' \subseteq Undecided
    BY <1>10 DEF ReportFailure, Undecided, Become, TypeOK
  <2>2. UsedRows' = UsedRows /\ runs' = runs
    BY <1>10 DEF ReportFailure, UsedRows, Same, bounds
  <2> QED
    BY <1>3, <2>1, <2>2
<1>11. ASSUME NEW c \in Connections, UpdateNotificationWithTimestamp(c) PROVE RoomForRows'
  <2>1. Undecided' \subseteq Undecided
    BY <1>11 DEF UpdateNotificationWithTimestamp, Ended, Undecided, Become, Idle, TypeOK
  <2>2. UsedRows' = UsedRows /\ runs' = runs
    BY <1>11 DEF UpdateNotificationWithTimestamp, UsedRows, Same, bounds, TypeOK
  <2> QED
    BY <1>3, <2>1, <2>2
<1>12. ASSUME NEW c \in Connections, ReportResolution(c) \/ GivesUp(c) PROVE RoomForRows'
  <2>1. Undecided' \subseteq Undecided
    BY <1>12 DEF ReportResolution, GivesUp, Ended, Undecided, Become, Idle, TypeOK
  <2>2. UsedRows' = UsedRows /\ runs' = runs
    BY <1>12 DEF ReportResolution, GivesUp, UsedRows, Same, bounds
  <2> QED
    BY <1>3, <2>1, <2>2
<1>13. CASE CloseAllOpenNotifications
  <2>1. Undecided' \subseteq Undecided
    BY <1>13 DEF CloseAllOpenNotifications, Undecided, TypeOK
  <2>2. UsedRows' = UsedRows /\ runs' = runs
    BY <1>13 DEF CloseAllOpenNotifications, UsedRows, Open, bounds, TypeOK
  <2> QED
    BY <1>3, <2>1, <2>2
<1>14. CASE Aside
  BY <1>3, <1>14 DEF Aside, UsedRows, Undecided
<1> QED
  BY StepsAre, <1>4, <1>5, <1>6, <1>7, <1>8, <1>9, <1>10, <1>11, <1>12, <1>13, <1>14 DEF StepOf

LEMMA NextRoomForMessages == ASSUME CoreInv, [Next]_vars PROVE RoomForMessages'
<1> USE DEF CoreInv
<1>1. PICK k \in 0..MaxRuns : UsedMessages = 1..k /\ k + Cardinality(Unposted) <= runs
  BY DEF RoomForMessages
<1>2. runs \in Nat /\ MaxRuns \in Nat /\ k \in Nat /\ Unposted \in SUBSET Connections
  BY <1>1, RunsAssumption DEF TypeOK, Unposted
<1>3. ASSUME UsedMessages' = UsedMessages, Unposted' \subseteq Unposted, runs' = runs
      PROVE  RoomForMessages'
  BY <1>1, <1>2, <1>3, FewerFit DEF RoomForMessages
<1>4. ASSUME NEW c \in Connections, NEW fails \in BOOLEAN, RunEnds(c, fails)
      PROVE  RoomForMessages'
  <2>1. Unposted' \subseteq Unposted \cup {c}
    <3>1. ASSUME NEW d \in Connections, d # c PROVE task'[d].pc = task[d].pc
      <4>1. CASE enabled
        <5>1. task'[d] = [task[d] EXCEPT !.alone = FALSE]
          BY <1>4, <3>1, <4>1, NewRun
        <5> QED
          BY <5>1 DEF TypeOK
      <4>2. CASE ~enabled
        BY <1>4, <4>2 DEF RunEnds
      <4> QED
        BY <4>1, <4>2
    <3> QED
      BY <3>1 DEF Unposted
  <2>2. k + Cardinality(Unposted \cup {c}) <= runs + 1
    BY <1>1, <1>2, OneMoreFits
  <2>3. k + Cardinality(Unposted') <= runs + 1
    <3>1. Unposted \cup {c} \in SUBSET Connections /\ runs + 1 \in Nat
      BY <1>2
    <3> QED
      BY <1>2, <2>1, <2>2, <3>1, FewerFit
  <2>4. UsedMessages' = UsedMessages /\ runs' = runs + 1
    BY <1>4 DEF RunEnds, UsedMessages
  <2> QED
    BY <1>1, <2>3, <2>4 DEF RoomForMessages
<1>5. ASSUME NEW c \in Connections, task[c].pc \in {"report", "resolve"}, TriggerAction(c),
             Unposted' = Unposted \ {c}, runs' = runs
      PROVE  RoomForMessages'
  <2>1. CASE task[c].ts # NoMessage
    <3>1. UsedMessages' = UsedMessages
      <4>1. Target(c) \in UsedMessages
        BY <1>5, <2>1, TargetFound
      <4> QED
        BY <1>5, <4>1 DEF TriggerAction, UsedMessages, TypeOK
    <3> QED
      BY <1>3, <1>5, <3>1
  <2>2. CASE task[c].ts = NoMessage
    <3>1. PICK j \in 0..MaxRuns :
             /\ UsedMessages = 1..j /\ j + Cardinality(Unposted) <= runs
             /\ Target(c) = j + 1 /\ j + 1 \notin UsedMessages
      BY <1>5, <2>2, TargetFound
    <3>2. j + 1 \in Messages
      BY <1>5, <3>1, TargetFound
    <3>3. UsedMessages' = UsedMessages \cup {j + 1}
      BY <1>5, <3>1, <3>2 DEF TriggerAction, UsedMessages, TypeOK
    <3>4. j \in Nat /\ c \in Unposted
      BY <1>5 DEF Unposted
    <3>5. j + 1 + Cardinality(Unposted \ {c}) <= runs
      BY <1>2, <3>1, <3>4, RoomForOne
    <3>6. j + 1 \in 0..MaxRuns /\ UsedMessages' = 1..(j + 1)
      BY <3>1, <3>2, <3>3 DEF Messages
    <3> QED
      BY <1>5, <3>5, <3>6 DEF RoomForMessages
  <2> QED
    BY <2>1, <2>2
<1>6. ASSUME NEW c \in Connections, ReportFailure(c) PROVE RoomForMessages'
  <2>1. task[c].pc \in {"report", "resolve"} /\ TriggerAction(c) /\ runs' = runs
    BY <1>6 DEF ReportFailure, At, Same, bounds
  <2>2. Unposted' = Unposted \ {c}
    BY <1>6 DEF ReportFailure, Unposted, Become, TypeOK
  <2> QED
    BY <1>5, <2>1, <2>2
<1>7. ASSUME NEW c \in Connections, ReportResolution(c) PROVE RoomForMessages'
  <2>1. task[c].pc \in {"report", "resolve"} /\ TriggerAction(c) /\ runs' = runs
    BY <1>7 DEF ReportResolution, At, Same, bounds
  <2>2. Unposted' = Unposted \ {c}
    BY <1>7 DEF ReportResolution, Ended, Unposted, Become, Idle, TypeOK
  <2> QED
    BY <1>5, <2>1, <2>2
<1>8. ASSUME NEW c \in Connections, AddFailingConnection(c) PROVE RoomForMessages'
  <2>1. Unposted' \subseteq Unposted
    BY <1>8 DEF AddFailingConnection, Unposted, Become, Read, At, TypeOK
  <2>2. UsedMessages' = UsedMessages /\ runs' = runs
    BY <1>8 DEF AddFailingConnection, UsedMessages, Same, bounds
  <2> QED
    BY <1>3, <2>1, <2>2
<1>9. ASSUME NEW c \in Connections, CreateNotification(c) \/ Push(c) \/ Splice(c)
      PROVE  RoomForMessages'
  <2>1. Unposted' \subseteq Unposted
    BY <1>9 DEF CreateNotification, Push, Splice, At, Unposted, Become, TypeOK
  <2>2. UsedMessages' = UsedMessages /\ runs' = runs
    BY <1>9 DEF CreateNotification, Push, Splice, UsedMessages, Same, bounds
  <2> QED
    BY <1>3, <2>1, <2>2
<1>10. ASSUME NEW c \in Connections, RemoveFailingConnection(c) PROVE RoomForMessages'
  <2>1. Unposted' \subseteq Unposted
    BY <1>10 DEF RemoveFailingConnection, Unposted, Become, Read, At, Ended, Idle, TypeOK
  <2>2. UsedMessages' = UsedMessages /\ runs' = runs
    BY <1>10 DEF RemoveFailingConnection, UsedMessages, Same, bounds
  <2> QED
    BY <1>3, <2>1, <2>2
<1>11. ASSUME NEW c \in Connections, UpdateNotificationWithTimestamp(c) \/ GivesUp(c)
       PROVE  RoomForMessages'
  <2>1. Unposted' \subseteq Unposted
    BY <1>11 DEF UpdateNotificationWithTimestamp, GivesUp, Ended, Unposted, Become, Idle, TypeOK
  <2>2. UsedMessages' = UsedMessages /\ runs' = runs
    BY <1>11 DEF UpdateNotificationWithTimestamp, GivesUp, UsedMessages, Same, bounds
  <2> QED
    BY <1>3, <2>1, <2>2
<1>12. CASE CloseAllOpenNotifications
  <2>1. Unposted' \subseteq Unposted
    BY <1>12 DEF CloseAllOpenNotifications, Unposted, TypeOK
  <2>2. UsedMessages' = UsedMessages /\ runs' = runs
    BY <1>12 DEF CloseAllOpenNotifications, UsedMessages, bounds
  <2> QED
    BY <1>3, <2>1, <2>2
<1>13. CASE Aside
  BY <1>3, <1>13 DEF Aside, UsedMessages, Unposted
<1> QED
  BY StepsAre, <1>4, <1>6, <1>7, <1>8, <1>9, <1>10, <1>11, <1>12, <1>13 DEF StepOf

(***************************************************************************)
(* Timestamps and locals.                                                  *)
(***************************************************************************)

\* A message that was posted stays there.
LEMMA MessagesStay ==
    ASSUME TypeOK, message' = message \/ \E c \in Connections : TriggerAction(c)
    PROVE  UsedMessages \subseteq UsedMessages'
BY DEF TriggerAction, UsedMessages, TypeOK

LEMMA NextStampsKnown == ASSUME CoreInv, [Next]_vars PROVE StampsKnown'
<1> USE DEF CoreInv
<1>1. ASSUME UsedMessages \subseteq UsedMessages', \A n \in Rows : row'[n].ts = row[n].ts,
             \A c \in Connections : task'[c].ts \in UsedMessages' \cup {NoMessage}
      PROVE  StampsKnown'
  BY <1>1 DEF StampsKnown
<1>2. ASSUME NEW c \in Connections, NEW fails \in BOOLEAN, RunEnds(c, fails)
      PROVE  StampsKnown'
  <2>1. UsedMessages' = UsedMessages /\ row' = row
    BY <1>2 DEF RunEnds, UsedMessages
  <2>2. ASSUME NEW d \in Connections PROVE task'[d].ts \in UsedMessages \cup {NoMessage}
    <3>1. CASE enabled /\ d = c
      BY ZenonT(60), <1>2, <3>1, NewRun DEF Idle
    <3>2. CASE enabled /\ d # c
      <4>1. task'[d] = [task[d] EXCEPT !.alone = FALSE]
        BY <1>2, <3>2, NewRun
      <4> QED
        BY <4>1 DEF StampsKnown, TypeOK
    <3>3. CASE ~enabled
      BY <1>2, <3>3 DEF RunEnds, StampsKnown
    <3> QED
      BY <3>1, <3>2, <3>3
  <2> QED
    BY <1>1, <2>1, <2>2
<1>3. ASSUME NEW c \in Connections, NEW t, Become(c, t), t.ts \in UsedMessages' \cup {NoMessage},
             message' = message \/ TriggerAction(c), \A n \in Rows : row'[n].ts = row[n].ts
      PROVE  StampsKnown'
  <2>1. UsedMessages \subseteq UsedMessages'
    BY <1>3, MessagesStay
  <2>2. \A d \in Connections : task'[d].ts \in UsedMessages' \cup {NoMessage}
    BY <1>3, <2>1, OnlyMine DEF StampsKnown
  <2> QED
    BY <1>1, <1>3, <2>1, <2>2
<1>4. ASSUME NEW c \in Connections, AddFailingConnection(c) PROVE StampsKnown'
  <2>1. UsedMessages' = UsedMessages /\ row' = row /\ message' = message
    BY <1>4 DEF AddFailingConnection, UsedMessages
  <2>2. CASE Become(c, [task[c] EXCEPT !.pc = "create"])
    BY <1>3, <2>1, <2>2 DEF StampsKnown, TypeOK
  <2>3. ASSUME NEW n \in Open, Read(c, n, IF c \in row[n].list THEN "report" ELSE "add")
        PROVE  StampsKnown'
    <3>1. n \in Rows /\ row[n].ts \in UsedMessages \cup {NoMessage}
      BY DEF Open, StampsKnown
    <3>2. [task[c] EXCEPT !.pc = IF c \in row[n].list THEN "report" ELSE "add", !.id = n,
                          !.list = row[n].list, !.ts = row[n].ts].ts = row[n].ts
      BY DEF TypeOK
    <3> QED
      BY <1>3, <2>1, <2>3, <3>1, <3>2 DEF Read
  <2> QED
    BY <1>4, <2>2, <2>3 DEF AddFailingConnection
<1>5. ASSUME NEW c \in Connections, CreateNotification(c) PROVE StampsKnown'
  <2>1. UsedMessages' = UsedMessages /\ message' = message /\ Least(Unused) \in Rows
    BY <1>5, FreeRow DEF CreateNotification, UsedMessages
  <2>2. Become(c, [task[c] EXCEPT !.pc = "report", !.id = Least(Unused), !.list = {c}])
        /\ row' = [row EXCEPT ![Least(Unused)] = [state |-> "open", list |-> {c}, ts |-> NoMessage]]
    BY <1>5 DEF CreateNotification
  <2>3. \A n \in Rows : row'[n].ts \in UsedMessages \cup {NoMessage}
    BY <2>1, <2>2 DEF StampsKnown, TypeOK
  <2>4. \A d \in Connections : task'[d].ts \in UsedMessages \cup {NoMessage}
    <3>1. [task[c] EXCEPT !.pc = "report", !.id = Least(Unused), !.list = {c}].ts = task[c].ts
      BY DEF TypeOK
    <3> QED
      BY ZenonT(60), <2>2, <3>1, OnlyMine DEF StampsKnown
  <2> QED
    BY <2>1, <2>3, <2>4 DEF StampsKnown
<1>6. ASSUME NEW c \in Connections, Push(c) \/ Splice(c) PROVE StampsKnown'
  <2>1. PICK pc \in Locations, list \in SUBSET Connections :
           Become(c, [task[c] EXCEPT !.pc = pc, !.list = list])
    BY <1>6 DEF Push, Splice, Locations, TypeOK
  <2>2. message' = message /\ UsedMessages' = UsedMessages /\ \A n \in Rows : row'[n].ts = row[n].ts
    BY <1>6 DEF Push, Splice, UsedMessages, TypeOK
  <2>3. [task[c] EXCEPT !.pc = pc, !.list = list].ts \in UsedMessages' \cup {NoMessage}
    BY <2>2 DEF StampsKnown, TypeOK
  <2> QED
    BY <1>3, <2>1, <2>2, <2>3
<1>7. ASSUME NEW c \in Connections, RemoveFailingConnection(c) PROVE StampsKnown'
  <2>1. UsedMessages' = UsedMessages /\ row' = row /\ message' = message
    BY <1>7 DEF RemoveFailingConnection, UsedMessages
  <2>2. CASE Ended(c)
    BY <1>3, <2>1, <2>2 DEF Ended, Idle
  <2>3. ASSUME NEW n \in Open, Read(c, n, "remove") PROVE StampsKnown'
    <3>1. n \in Rows /\ row[n].ts \in UsedMessages \cup {NoMessage}
      BY DEF Open, StampsKnown
    <3>2. [task[c] EXCEPT !.pc = "remove", !.id = n,
                          !.list = row[n].list, !.ts = row[n].ts].ts = row[n].ts
      BY DEF TypeOK
    <3> QED
      BY <1>3, <2>1, <2>3, <3>1, <3>2 DEF Read
  <2> QED
    BY <1>7, <2>2, <2>3 DEF RemoveFailingConnection
<1>8. ASSUME NEW c \in Connections, ReportFailure(c) PROVE StampsKnown'
  <2>1. TriggerAction(c) /\ row' = row /\ task[c].pc = "report"
        /\ Become(c, [task[c] EXCEPT !.pc = "stamp", !.ts = Target(c)])
    BY <1>8 DEF ReportFailure, At
  <2>2. Target(c) \in UsedMessages'
    BY <2>1, TargetFound DEF TriggerAction, UsedMessages, TypeOK
  <2>3. [task[c] EXCEPT !.pc = "stamp", !.ts = Target(c)].ts \in UsedMessages' \cup {NoMessage}
    BY <2>2 DEF TypeOK
  <2> QED
    BY <1>3, <2>1, <2>3
<1>9. ASSUME NEW c \in Connections, UpdateNotificationWithTimestamp(c) PROVE StampsKnown'
  <2>1. Become(c, Idle) /\ UsedMessages' = UsedMessages
        /\ row' = [row EXCEPT ![task[c].id].ts = task[c].ts]
    BY <1>9 DEF UpdateNotificationWithTimestamp, Ended, UsedMessages
  <2>2. \A n \in Rows : row'[n].ts \in UsedMessages \cup {NoMessage}
    BY <2>1 DEF StampsKnown, TypeOK
  <2>3. \A d \in Connections : task'[d].ts \in UsedMessages \cup {NoMessage}
    BY <2>1, OnlyMine DEF StampsKnown, Idle
  <2> QED
    BY <2>1, <2>2, <2>3 DEF StampsKnown
<1>10. ASSUME NEW c \in Connections, ReportResolution(c) \/ GivesUp(c) PROVE StampsKnown'
  <2>1. Become(c, Idle) /\ row' = row /\ (message' = message \/ TriggerAction(c))
    BY <1>10 DEF ReportResolution, GivesUp, Ended
  <2> QED
    BY <1>3, <2>1 DEF Idle
<1>11. CASE CloseAllOpenNotifications
  <2>1. UsedMessages' = UsedMessages
    BY <1>11 DEF CloseAllOpenNotifications, UsedMessages
  <2>2. \A n \in Rows : row'[n].ts = row[n].ts
    BY <1>11 DEF CloseAllOpenNotifications, TypeOK
  <2>3. \A c \in Connections : task'[c].ts = task[c].ts
    BY <1>11 DEF CloseAllOpenNotifications, TypeOK
  <2> QED
    BY <1>1, <2>1, <2>2, <2>3 DEF StampsKnown
<1>12. CASE Aside
  BY <1>12 DEF Aside, StampsKnown, UsedMessages
<1> QED
  BY StepsAre, <1>2, <1>4, <1>5, <1>6, <1>7, <1>8, <1>9, <1>10, <1>11, <1>12 DEF StepOf

\* A row that was inserted stays there.
LEMMA RowsStay == ASSUME CoreInv, [Next]_vars PROVE UsedRows \subseteq UsedRows'
<1> USE DEF CoreInv
<1>1. ASSUME NEW c \in Connections, StepOf(c) PROVE UsedRows \subseteq UsedRows'
  <2>1. CASE row' = row
    BY <2>1 DEF UsedRows
  <2>2. CASE CreateNotification(c) \/ Push(c) \/ Splice(c) \/ UpdateNotificationWithTimestamp(c)
    BY SMTT(60), <2>2 DEF CreateNotification, Push, Splice, UpdateNotificationWithTimestamp,
       UsedRows, TypeOK
  <2>3. row' = row \/ CreateNotification(c) \/ Push(c) \/ Splice(c)
        \/ UpdateNotificationWithTimestamp(c)
    BY <1>1 DEF StepOf, RunEnds, AddFailingConnection, RemoveFailingConnection, ReportFailure,
                ReportResolution, GivesUp
  <2> QED
    BY <2>1, <2>2, <2>3
<1>2. CloseAllOpenNotifications => UsedRows \subseteq UsedRows'
  BY DEF CloseAllOpenNotifications, UsedRows, Open, TypeOK
<1>3. Aside => UsedRows \subseteq UsedRows'
  BY DEF Aside, UsedRows
<1> QED
  BY StepsAre, <1>1, <1>2, <1>3

LEMMA OthersFit ==
    ASSUME CoreInv, [Next]_vars, NEW c \in Connections, NEW t, Become(c, t), failing' = failing,
           accounted' \subseteq accounted \cup {c}, ReportFits(c)'
    PROVE  ReportsFit'
<1>1. UsedRows \subseteq UsedRows'
  BY RowsStay
<1>2. ASSUME NEW d \in Connections, d # c PROVE ReportFits(d)'
  <2>1. task'[d] = task[d]
    BY <1>2, OnlyMine DEF CoreInv
  <2>2. ReportFits(d)
    BY DEF CoreInv, ReportsFit
  <2> QED
    BY <1>1, <1>2, <2>1, <2>2 DEF ReportFits
<1> QED
  BY <1>2 DEF ReportsFit

LEMMA NotAloneFields ==
    ASSUME NEW t \in LocalsType, NEW u, u = [t EXCEPT !.alone = FALSE]
    PROVE  /\ u.pc = t.pc /\ u.fails = t.fails /\ u.id = t.id /\ u.ts = t.ts /\ u.list = t.list
           /\ u.alone = FALSE
           /\ t = Idle => u = Idle
<1>1. /\ u.pc = t.pc /\ u.fails = t.fails /\ u.id = t.id /\ u.ts = t.ts /\ u.list = t.list
      /\ u.alone = FALSE
  BY DEF LocalsType
<1>2. ASSUME t = Idle PROVE u = Idle
  BY <1>2 DEF Idle
<1> QED
  BY <1>1, <1>2

LEMMA NextReportsFit == ASSUME CoreInv, [Next]_vars PROVE ReportsFit'
<1> USE DEF CoreInv
<1>a. \A c \in Connections : ReportFits(c) /\ task[c] \in LocalsType
  BY DEF ReportsFit, TypeOK, LocalsType
<1>1. ASSUME NEW c \in Connections, NEW fails \in BOOLEAN, RunEnds(c, fails) PROVE ReportsFit'
  <2>1. UsedRows' = UsedRows /\ failing' = IF fails THEN failing \cup {c} ELSE failing \ {c}
    BY <1>1 DEF RunEnds, UsedRows
  <2>2. accounted' \subseteq accounted \ {c} /\ task[c] = Idle
    BY <1>1 DEF RunEnds
  <2>3. ASSUME NEW d \in Connections, d # c PROVE ReportFits(d)'
    <3>1. CASE enabled
      <4>1. task'[d] = [task[d] EXCEPT !.alone = FALSE]
        BY <1>1, <2>3, <3>1, NewRun
      <4>2. /\ task'[d].pc = task[d].pc /\ task'[d].fails = task[d].fails
            /\ task'[d].id = task[d].id /\ task'[d].ts = task[d].ts
            /\ task[d] = Idle => task'[d] = Idle
        BY ZenonT(60), <4>1, <1>a, NotAloneFields
      <4>3. task'[d] = Idle => task'[d].pc = "idle"
        BY DEF Idle
      <4> QED
        BY <1>a, <2>1, <2>2, <2>3, <4>2, <4>3 DEF ReportFits
    <3>2. CASE ~enabled
      <4>1. task'[d] = task[d]
        BY <1>1, <3>2 DEF RunEnds
      <4> QED
        BY <1>a, <2>1, <2>2, <2>3, <4>1 DEF ReportFits
    <3> QED
      BY <3>1, <3>2
  <2>4. ReportFits(c)'
    <3>1. CASE enabled
      <4>1. task'[c].pc = "look" /\ task'[c].fails = fails /\ task'[c].ts = NoMessage
        <5>1. PICK one \in BOOLEAN :
                 task'[c] = [Idle EXCEPT !.pc = "look", !.fails = fails, !.alone = one]
          BY <1>1, <3>1, NewRun
        <5> QED
          BY <5>1 DEF Idle
      <4>2. task'[c] # Idle
        BY <4>1 DEF Idle
      <4> QED
        BY <2>1, <2>2, <4>1, <4>2 DEF ReportFits
    <3>2. CASE ~enabled
      <4>1. task'[c] = Idle /\ Idle.pc = "idle"
        BY <1>1, <3>2 DEF RunEnds, Idle
      <4> QED
        BY <4>1 DEF ReportFits
    <3> QED
      BY <3>1, <3>2
  <2> QED
    BY <2>3, <2>4 DEF ReportsFit
<1>2. ASSUME NEW c \in Connections, NEW t, Become(c, t), failing' = failing,
             accounted' = accounted, t.pc \in Locations, t.pc # "idle",
             task[c].pc # "idle", t.pc # "look",
             t.pc = "create" => t.ts = NoMessage,
             t.pc \in {"create", "add", "report", "stamp"} => c \in failing,
             t.pc \in {"remove", "resolve"} => c \notin failing,
             t.pc # "create" => t.id \in UsedRows',
             t.pc = "stamp" => t.ts # NoMessage
      PROVE  ReportsFit'
  <2>1. task'[c] = t /\ t # Idle
    BY <1>2, OnlyMine DEF Idle
  <2>2. c \notin accounted
    BY <1>2, <1>a DEF ReportFits
  <2>3. ReportFits(c)'
    BY <1>2, <2>1, <2>2 DEF ReportFits, Locations
  <2> QED
    BY <1>2, <2>3, OthersFit
<1>3. ASSUME NEW c \in Connections, Become(c, Idle), failing' = failing,
             accounted' \subseteq accounted \cup {c}
      PROVE  ReportsFit'
  <2>1. task'[c] = Idle /\ Idle.pc = "idle"
    BY <1>3, OnlyMine DEF Idle
  <2>2. ReportFits(c)'
    BY <2>1 DEF ReportFits
  <2> QED
    BY <1>3, <2>2, OthersFit
<1>4. ASSUME NEW c \in Connections, AddFailingConnection(c) PROVE ReportsFit'
  <2>1. task[c].pc = "look" /\ c \in failing /\ task[c].ts = NoMessage
    BY <1>4, <1>a DEF AddFailingConnection, At, ReportFits
  <2>2. failing' = failing /\ accounted' = accounted /\ UsedRows' = UsedRows
    BY <1>4 DEF AddFailingConnection, Quiet, Same, UsedRows
  <2>3. CASE Become(c, [task[c] EXCEPT !.pc = "create"])
    <3> DEFINE t == [task[c] EXCEPT !.pc = "create"]
    <3>1. t.pc = "create" /\ t.ts = NoMessage /\ t.pc \in Locations
      BY <1>a, <2>1 DEF LocalsType, Locations
    <3>2. Become(c, t)
      BY <2>3
    <3> HIDE DEF t
    <3> QED
      BY <1>2, <2>1, <2>2, <3>1, <3>2
  <2>4. ASSUME NEW n \in Open, Read(c, n, IF c \in row[n].list THEN "report" ELSE "add")
        PROVE  ReportsFit'
    <3> DEFINE t == [task[c] EXCEPT !.pc = IF c \in row[n].list THEN "report" ELSE "add", !.id = n,
                                    !.list = row[n].list, !.ts = row[n].ts]
    <3>1. t.pc \in {"report", "add"} /\ t.id = n /\ t.pc \in Locations
      BY <1>a DEF LocalsType, Locations
    <3>2. Become(c, t) /\ n \in UsedRows'
      BY <2>2, <2>4 DEF Read, Open, UsedRows
    <3> HIDE DEF t
    <3> QED
      BY <1>2, <2>1, <2>2, <3>1, <3>2
  <2> QED
    BY <1>4, <2>3, <2>4 DEF AddFailingConnection
<1>5. ASSUME NEW c \in Connections, CreateNotification(c) PROVE ReportsFit'
  <2>1. task[c].pc = "create" /\ c \in failing /\ Least(Unused) \in Rows
    BY <1>5, <1>a, FreeRow DEF CreateNotification, At, ReportFits
  <2>2. failing' = failing /\ accounted' = accounted
        /\ row' = [row EXCEPT ![Least(Unused)] = [state |-> "open", list |-> {c}, ts |-> NoMessage]]
    BY <1>5 DEF CreateNotification, Quiet, Same
  <2> DEFINE t == [task[c] EXCEPT !.pc = "report", !.id = Least(Unused), !.list = {c}]
  <2>3. t.pc = "report" /\ t.id = Least(Unused) /\ t.pc \in Locations
    BY <1>a DEF LocalsType, Locations
  <2>4. Least(Unused) \in UsedRows'
    BY <2>1, <2>2 DEF UsedRows, TypeOK
  <2>5. Become(c, t)
    BY <1>5 DEF CreateNotification
  <2> HIDE DEF t
  <2> QED
    BY <1>2, <2>1, <2>2, <2>3, <2>4, <2>5
<1>6. ASSUME NEW c \in Connections, Push(c) PROVE ReportsFit'
  <2>1. task[c].pc = "add" /\ c \in failing /\ task[c].id \in UsedRows'
    BY <1>6, <1>a, RowsStay DEF Push, At, ReportFits
  <2>2. failing' = failing /\ accounted' = accounted
    BY <1>6 DEF Push, Quiet, Same
  <2> DEFINE t == [task[c] EXCEPT !.pc = "report", !.list = task[c].list \cup {c}]
  <2>3. t.pc = "report" /\ t.id = task[c].id /\ t.pc \in Locations
    BY <1>a DEF LocalsType, Locations
  <2>4. Become(c, t)
    BY <1>6 DEF Push
  <2> HIDE DEF t
  <2> QED
    BY <1>2, <2>1, <2>2, <2>3, <2>4
<1>7. ASSUME NEW c \in Connections, RemoveFailingConnection(c) PROVE ReportsFit'
  <2>1. task[c].pc = "look" /\ c \notin failing
    BY <1>7, <1>a DEF RemoveFailingConnection, At, ReportFits
  <2>2. failing' = failing /\ UsedRows' = UsedRows
    BY <1>7 DEF RemoveFailingConnection, Same, UsedRows
  <2>3. CASE Ended(c)
    BY <1>3, <2>2, <2>3 DEF Ended
  <2>4. ASSUME NEW n \in Open, Read(c, n, "remove"), Quiet PROVE ReportsFit'
    <3> DEFINE t == [task[c] EXCEPT !.pc = "remove", !.id = n, !.list = row[n].list,
                                    !.ts = row[n].ts]
    <3>1. t.pc = "remove" /\ t.id = n /\ t.pc \in Locations
      BY <1>a DEF LocalsType, Locations
    <3>2. Become(c, t) /\ n \in UsedRows' /\ accounted' = accounted
      BY <2>2, <2>4 DEF Read, Open, UsedRows, Quiet
    <3> HIDE DEF t
    <3> QED
      BY <1>2, <2>1, <2>2, <3>1, <3>2
  <2> QED
    BY <1>7, <2>3, <2>4 DEF RemoveFailingConnection
<1>8. ASSUME NEW c \in Connections, Splice(c) PROVE ReportsFit'
  <2>1. task[c].pc = "remove" /\ c \notin failing /\ task[c].id \in UsedRows'
    BY <1>8, <1>a, RowsStay DEF Splice, At, ReportFits
  <2>2. failing' = failing /\ accounted' = accounted
    BY <1>8 DEF Splice, Quiet, Same
  <2> DEFINE t == [task[c] EXCEPT !.pc = "resolve", !.list = task[c].list \ {c}]
  <2>3. t.pc = "resolve" /\ t.id = task[c].id /\ t.pc \in Locations
    BY <1>a DEF LocalsType, Locations
  <2>4. Become(c, t)
    BY <1>8 DEF Splice
  <2> HIDE DEF t
  <2> QED
    BY <1>2, <2>1, <2>2, <2>3, <2>4
<1>9. ASSUME NEW c \in Connections, ReportFailure(c) PROVE ReportsFit'
  <2>1. task[c].pc = "report" /\ c \in failing /\ task[c].id \in UsedRows'
    BY <1>9, <1>a, RowsStay DEF ReportFailure, At, ReportFits
  <2>2. failing' = failing /\ accounted' = accounted
    BY <1>9 DEF ReportFailure, Quiet, Same
  <2>3. Target(c) # NoMessage
    BY <2>1, TargetFound DEF Messages, NoMessage
  <2> DEFINE t == [task[c] EXCEPT !.pc = "stamp", !.ts = Target(c)]
  <2>4. t.pc = "stamp" /\ t.id = task[c].id /\ t.ts # NoMessage /\ t.pc \in Locations
    BY <1>a, <2>3 DEF LocalsType, Locations
  <2>5. Become(c, t)
    BY <1>9 DEF ReportFailure
  <2> HIDE DEF t
  <2> QED
    BY <1>2, <2>1, <2>2, <2>4, <2>5
<1>10. ASSUME NEW c \in Connections,
              UpdateNotificationWithTimestamp(c) \/ ReportResolution(c) \/ GivesUp(c)
       PROVE  ReportsFit'
  BY <1>3, <1>10 DEF UpdateNotificationWithTimestamp, ReportResolution, GivesUp, Ended, Same,
     Quiet
<1>11. CASE CloseAllOpenNotifications
  <2>1. UsedRows \subseteq UsedRows' /\ failing' = failing /\ accounted' \subseteq accounted
    BY <1>11, RowsStay DEF CloseAllOpenNotifications
  <2>2. ASSUME NEW c \in Connections PROVE ReportFits(c)'
    <3>1. task'[c] = [task[c] EXCEPT !.alone = FALSE]
      BY <1>11 DEF CloseAllOpenNotifications
    <3>2. /\ task'[c].pc = task[c].pc /\ task'[c].fails = task[c].fails
          /\ task'[c].id = task[c].id /\ task'[c].ts = task[c].ts
          /\ task[c] = Idle => task'[c] = Idle
      BY ZenonT(60), <3>1, <1>a, NotAloneFields
    <3>3. task'[c] = Idle => task'[c].pc = "idle"
      BY DEF Idle
    <3> QED
      BY <1>a, <2>1, <3>2, <3>3 DEF ReportFits
  <2> QED
    BY <2>2 DEF ReportsFit
<1>12. CASE Aside
  BY <1>12 DEF Aside, ReportsFit, ReportFits, UsedRows
<1> QED
  BY StepsAre, <1>1, <1>4, <1>5, <1>6, <1>7, <1>8, <1>9, <1>10, <1>11, <1>12 DEF StepOf

LEMMA CoreInvAlways == Spec => []CoreInv
<1>1. Init => CoreInv
  <2> SUFFICES ASSUME Init PROVE CoreInv
    OBVIOUS
  <2>1. TypeOK
    BY InitTypeOK
  <2>2. UsedRows = {} /\ UsedMessages = {} /\ Undecided = {} /\ Unposted = {} /\ runs = 0
    BY DEF Init, UsedRows, UsedMessages, Undecided, Unposted, NewRow, NewMessage, Idle
  <2>3. RoomForRows /\ RoomForMessages
    BY <2>2, RunsAssumption, FS_EmptySet DEF RoomForRows, RoomForMessages
  <2>4. StampsKnown
    BY DEF Init, StampsKnown, NewRow, Idle
  <2>5. ReportsFit
    BY DEF Init, ReportsFit, ReportFits, Idle
  <2> QED
    BY <2>1, <2>3, <2>4, <2>5 DEF CoreInv
<1>2. CoreInv /\ [Next]_vars => CoreInv'
  BY NextTypeOK, NextRoomForRows, NextRoomForMessages, NextStampsKnown, NextReportsFit
     DEF CoreInv
<1> QED
  BY <1>1, <1>2, PTL DEF Spec

\* Every variable keeps its type, and an open notification lists somebody: there is a
\* row and a message for every run, whatever the reports meet.
THEOREM TypeCorrect == Spec => []TypeOK
<1>1. CoreInv => TypeOK
  BY DEF CoreInv
<1> QED
  BY <1>1, CoreInvAlways, PTL

(***************************************************************************)
(* The list says who fails.                                                *)
(***************************************************************************)

ListHangsTogether == OneAtATime /\ ReadIsCurrent /\ AloneIsExact /\ AccountedHolds

LEMMA WhoReports ==
    ASSUME ReportsFit
    PROVE  /\ \A c \in Connections : c \in Reporting <=> task[c].pc # "idle"
           /\ \A c \in Reporting : c \in Connections /\ c \notin accounted
BY DEF ReportsFit, ReportFits, Reporting

\* A report goes on: whoever is accounted for, and whoever is alone, has no other beside it.
LEMMA Ongoing ==
    ASSUME ListInv, ReportsFit', NEW c \in Connections, NEW t \in LocalsType, Become(c, t),
           task[c].pc # "idle", t.pc # "idle", t.alone = task[c].alone,
           accounted' = accounted, failing' = failing,
           accounted # {} /\ t.pc \in {"add", "remove"} =>
              t.list = row'[t.id].list /\ (t.id \in Open' \/ accounted \cap t.list = {}),
           t.alone = TRUE =>
              /\ \A m, n \in Open' : m = n
              /\ t.pc = "create" => Open' = {}
              /\ t.pc \in {"add", "remove"} => t.id \in Open'
              /\ t.pc \in {"report", "stamp"} => Listed(c)'
              /\ t.pc = "resolve" => ~Listed(c)',
           accounted # {} => \A d \in accounted : d # c => (Listed(d)' <=> Listed(d))
    PROVE  ListHangsTogether'
<1> USE DEF ListInv, CoreInv
<1>1. task'[c] = t /\ \A d \in Connections : d # c => task'[d] = task[d]
  BY OnlyMine
<1>2. Reporting' = Reporting /\ c \in Reporting
  BY <1>1, WhoReports DEF Reporting, Idle
<1>3. OneAtATime'
  BY <1>2 DEF OneAtATime
<1>4. ReadIsCurrent'
  <2> SUFFICES ASSUME accounted # {}, NEW d \in Connections, task'[d].pc \in {"add", "remove"}
               PROVE  /\ task'[d].list = row'[task'[d].id].list
                      /\ task'[d].id \in Open' \/ accounted \cap task'[d].list = {}
    BY DEF ReadIsCurrent
  <2>1. d = c
    <3>1. task'[d] # Idle
      BY DEF Idle
    <3>2. d \in Reporting
      BY <1>2, <3>1 DEF Reporting
    <3> QED
      BY <1>2, <3>2 DEF OneAtATime
  <2> QED
    BY <1>1, <2>1
<1>5. AloneIsExact'
  <2> SUFFICES ASSUME NEW d \in Reporting, task'[d].alone = TRUE PROVE AloneFits(d)'
    BY <1>2 DEF AloneIsExact
  <2>1. CASE d = c
    <3>1. task[c].alone = TRUE
      BY <1>1, <2>1
    <3>2. \A e \in Reporting' : e = c
      BY <1>2, <3>1 DEF AloneIsExact, AloneFits
    <3> QED
      BY <1>1, <2>1, <3>1, <3>2 DEF AloneFits
  <2>2. CASE d # c
    <3>1. task[d].alone = TRUE
      BY <1>1, <2>2 DEF Reporting
    <3>2. c = d
      BY <1>2, <3>1 DEF AloneIsExact, AloneFits
    <3> QED
      BY <2>2, <3>2
  <2> QED
    BY <2>1, <2>2
<1>6. AccountedHolds'
  <2>1. c \notin accounted
    BY <1>2, WhoReports
  <2> QED
    BY <2>1 DEF AccountedHolds
<1> QED
  BY <1>3, <1>4, <1>5, <1>6 DEF ListHangsTogether

\* A report ends: if anybody is accounted for now, none is under way any more.
LEMMA Ending ==
    ASSUME ListInv, NEW c \in Connections, task[c].pc # "idle", Become(c, Idle),
           Quiet \/ Ended(c), failing' = failing,
           \A d \in accounted : Listed(d)' <=> Listed(d),
           task[c].alone = TRUE /\ accounted' # accounted => (c \in failing <=> Listed(c)')
    PROVE  ListHangsTogether'
<1> USE DEF ListInv, CoreInv
<1>1. task'[c] = Idle /\ \A d \in Connections : d # c => task'[d] = task[d]
  BY OnlyMine
<1>2. c \in Reporting /\ Reporting' = Reporting \ {c}
  BY <1>1, WhoReports DEF Reporting
<1>3. accounted' = accounted \/ (task[c].alone = TRUE /\ accounted' = accounted \cup {c})
  <2>1. task[c].alone \in BOOLEAN
    BY DEF TypeOK
  <2> QED
    BY <2>1 DEF Quiet, Ended
<1>4. accounted' # {} => Reporting' = {}
  BY <1>2, <1>3 DEF OneAtATime, AloneIsExact, AloneFits
<1>5. OneAtATime'
  BY <1>4 DEF OneAtATime
<1>6. ReadIsCurrent'
  <2>1. accounted' # {} => \A d \in Connections : task'[d] = Idle
    BY <1>4 DEF Reporting
  <2> QED
    BY <2>1 DEF ReadIsCurrent, Idle
<1>7. AloneIsExact'
  <2> SUFFICES ASSUME NEW d \in Reporting', task'[d].alone = TRUE PROVE FALSE
    BY DEF AloneIsExact
  <2>1. d \in Reporting /\ d # c /\ task[d].alone = TRUE
    BY <1>1, <1>2 DEF Reporting
  <2> QED
    BY <1>2, <2>1 DEF AloneIsExact, AloneFits
<1>8. AccountedHolds'
  BY <1>3 DEF AccountedHolds
<1> QED
  BY <1>5, <1>6, <1>7, <1>8 DEF ListHangsTogether

LEMMA NextListHangsTogether ==
    ASSUME ListInv, CoreInv', [Next]_vars
    PROVE  ListHangsTogether'
<1> USE DEF ListInv, CoreInv
<1>a. \A c \in Connections : ReportFits(c) /\ task[c] \in LocalsType
  BY DEF ReportsFit, TypeOK, LocalsType
<1>b. \A c \in Connections : task[c].alone = TRUE /\ task[c].pc # "idle" => AloneFits(c)
  BY WhoReports DEF AloneIsExact
<1>c. ASSUME row' = row PROVE Open' = Open /\ \A d : Listed(d)' <=> Listed(d)
  BY <1>c DEF Open, Listed
<1>1. ASSUME NEW c \in Connections, NEW fails \in BOOLEAN, RunEnds(c, fails)
      PROVE  ListHangsTogether'
  <2>1. task[c] = Idle /\ row' = row /\ c \notin Reporting
        /\ (\A d \in Connections : d # c => (d \in failing' <=> d \in failing))
    BY <1>1 DEF RunEnds, Reporting
  <2>2. CASE ~enabled
    <3>1. task' = task /\ accounted' = accounted \ {c} /\ Reporting' = Reporting
      BY <1>1, <2>2 DEF RunEnds, Reporting
    <3>2. OneAtATime'
      BY <3>1 DEF OneAtATime
    <3>3. ReadIsCurrent'
      BY <2>1, <3>1 DEF ReadIsCurrent, Open
    <3>4. AloneIsExact'
      <4> SUFFICES ASSUME NEW d \in Reporting, task[d].alone = TRUE PROVE AloneFits(d)'
        BY <3>1 DEF AloneIsExact
      <4>1. AloneFits(d)
        BY DEF AloneIsExact
      <4> QED
        BY <2>1, <3>1, <4>1, <1>c DEF AloneFits
    <3>5. AccountedHolds'
      BY <2>1, <3>1, <1>c DEF AccountedHolds, TypeOK
    <3> QED
      BY <3>2, <3>3, <3>4, <3>5 DEF ListHangsTogether
  <2>3. CASE enabled
    <3>1. PICK one \in BOOLEAN :
             /\ one = TRUE => Reporting = {} /\ Cardinality(Open) <= 1
             /\ task'[c] = [Idle EXCEPT !.pc = "look", !.fails = fails, !.alone = one]
      BY <1>1, <2>3, NewRun
    <3>2. \A d \in Connections : d # c => task'[d] = [task[d] EXCEPT !.alone = FALSE]
      BY ZenonT(60), <1>1, <2>3, NewRun
    <3>3. task'[c].pc = "look" /\ task'[c].alone = one
      BY <3>1 DEF Idle
    <3>4. \A d \in Connections : d # c => task'[d].pc = task[d].pc /\ task'[d].alone = FALSE
      <4>1. ASSUME NEW d \in Connections, d # c
            PROVE  task'[d].pc = task[d].pc /\ task'[d].alone = FALSE
        <5>1. task'[d] = [task[d] EXCEPT !.alone = FALSE]
          BY <3>2, <4>1
        <5> QED
          BY <5>1, <1>a, NotAloneFields
      <4> QED
        BY <4>1
    <3>5. Reporting' = Reporting \cup {c}
      <4>1. \A d \in Connections : d \in Reporting' <=> task'[d].pc # "idle"
        BY WhoReports DEF ReportsFit, ReportFits, Reporting
      <4>2. \A d \in Connections : d \in Reporting <=> task[d].pc # "idle"
        BY WhoReports
      <4> QED
        BY <3>3, <3>4, <4>1, <4>2 DEF Reporting
    <3>6. accounted' = IF Reporting # {} THEN {} ELSE accounted \ {c}
      BY <1>1, <2>3 DEF RunEnds
    <3>7. OneAtATime'
      BY <3>5, <3>6 DEF OneAtATime
    <3>8. ReadIsCurrent'
      <4>1. ASSUME accounted' # {}, NEW d \in Connections, task'[d].pc \in {"add", "remove"}
            PROVE  FALSE
        <5>1. d # c /\ Reporting = {}
          BY <3>3, <3>6, <4>1
        <5>2. task[d].pc # "idle"
          BY <3>4, <4>1, <5>1
        <5> QED
          BY <5>1, <5>2, WhoReports
      <4> QED
        BY <4>1 DEF ReadIsCurrent
    <3>9. AloneIsExact'
      <4> SUFFICES ASSUME NEW d \in Reporting', task'[d].alone = TRUE PROVE AloneFits(d)'
        BY DEF AloneIsExact
      <4>1. d = c /\ one = TRUE
        BY <3>3, <3>4 DEF Reporting
      <4>2. Reporting' = {c} /\ Open' = Open
        BY <2>1, <3>1, <3>5, <4>1, <1>c
      <4>3. \A m, n \in Open : m = n
        <5>1. IsFiniteSet(Rows)
          BY RunsAssumption, FS_Interval DEF Rows
        <5>2. IsFiniteSet(Open) /\ Cardinality(Open) \in Nat /\ Cardinality(Open) <= 1
          BY <3>1, <4>1, <5>1, FS_Subset, FS_CardinalityType DEF Open
        <5>3. Cardinality(Open) = 0 \/ Cardinality(Open) = 1
          BY <5>2
        <5> QED
          BY <5>2, <5>3, FS_EmptySet, FS_Singleton
      <4> QED
        BY <3>3, <4>1, <4>2, <4>3 DEF AloneFits
    <3>10. AccountedHolds'
      BY <2>1, <3>6, <1>c DEF AccountedHolds, TypeOK
    <3> QED
      BY <3>7, <3>8, <3>9, <3>10 DEF ListHangsTogether
  <2> QED
    BY <2>2, <2>3
<1>2. ASSUME NEW c \in Connections, AddFailingConnection(c) PROVE ListHangsTogether'
  <2>1. task[c].pc = "look" /\ row' = row /\ accounted' = accounted /\ failing' = failing
    BY <1>2 DEF AddFailingConnection, At, Quiet, Same
  <2>2. task[c].alone = TRUE => \A m, n \in Open : m = n
    BY <2>1, <1>b DEF AloneFits
  <2>3. CASE Open = {} /\ Become(c, [task[c] EXCEPT !.pc = "create"])
    <3> DEFINE t == [task[c] EXCEPT !.pc = "create"]
    <3>1. t.pc = "create" /\ t.alone = task[c].alone
      BY <1>a DEF LocalsType
    <3>2. t \in LocalsType
      BY <1>a DEF LocalsType, Locations
    <3>3. Become(c, t)
      BY <2>3
    <3> HIDE DEF t
    <3> QED
      BY <2>1, <2>2, <2>3, <3>1, <3>2, <3>3, <1>c, Ongoing
  <2>4. ASSUME NEW n \in Open, Read(c, n, IF c \in row[n].list THEN "report" ELSE "add")
        PROVE  ListHangsTogether'
    <3> DEFINE t == [task[c] EXCEPT !.pc = IF c \in row[n].list THEN "report" ELSE "add", !.id = n,
                                    !.list = row[n].list, !.ts = row[n].ts]
    <3>1. t.pc = (IF c \in row[n].list THEN "report" ELSE "add") /\ t.alone = task[c].alone
          /\ t.id = n /\ t.list = row[n].list
      BY <1>a DEF LocalsType
    <3>2. Become(c, t) /\ task'[c] = t
      BY <2>4, OnlyMine DEF Read
    <3>3. t \in LocalsType
      BY <3>2 DEF LocalsType, TypeOK
    <3> HIDE DEF t
    <3>4. t.pc = "report" => Listed(c)
      BY <3>1 DEF Listed
    <3>5. t.pc \in {"report", "add"}
      BY <3>1
    <3> QED
      BY <2>1, <2>2, <3>1, <3>2, <3>3, <3>4, <3>5, <1>c, Ongoing
  <2> QED
    BY <1>2, <2>3, <2>4 DEF AddFailingConnection
<1>3. ASSUME NEW c \in Connections, CreateNotification(c) PROVE ListHangsTogether'
  <2> DEFINE n == Least(Unused)
  <2> DEFINE t == [task[c] EXCEPT !.pc = "report", !.id = n, !.list = {c}]
  <2>1. task[c].pc = "create" /\ accounted' = accounted /\ failing' = failing /\ Become(c, t)
        /\ row' = [row EXCEPT ![n] = [state |-> "open", list |-> {c}, ts |-> NoMessage]]
    BY <1>3 DEF CreateNotification, At, Quiet, Same
  <2>2. n \in Rows /\ n \notin UsedRows
    BY <2>1, FreeRow DEF At
  <2>3. t.pc = "report" /\ t.alone = task[c].alone
    BY <1>a DEF LocalsType
  <2>4. t \in LocalsType
    BY <2>1, OnlyMine DEF LocalsType, TypeOK
  <2> HIDE DEF n, t
  <2>5. Open' = Open \cup {n} /\ n \notin Open
    BY <2>1, <2>2 DEF Open, UsedRows, TypeOK
  <2>6. row'[n].list = {c} /\ \A m \in Open : row'[m] = row[m]
    BY <2>1, <2>2, <2>5 DEF TypeOK, Open
  <2>7. Listed(c)' /\ \A d : d # c => (Listed(d)' <=> Listed(d))
    BY <2>5, <2>6 DEF Listed
  <2>8. task[c].alone = TRUE => Open = {}
    BY <2>1, <1>b DEF AloneFits
  <2>9. task[c].alone = TRUE => \A k, m \in Open' : k = m
    BY <2>5, <2>8
  <2> QED
    BY <2>1, <2>3, <2>4, <2>7, <2>9, Ongoing
<1>4. ASSUME NEW c \in Connections, Push(c) PROVE ListHangsTogether'
  <2> DEFINE list == task[c].list \cup {c}
  <2> DEFINE t == [task[c] EXCEPT !.pc = "report", !.list = list]
  <2>1. task[c].pc = "add" /\ accounted' = accounted /\ failing' = failing /\ Become(c, t)
        /\ row' = [row EXCEPT ![task[c].id].list = list]
    BY <1>4 DEF Push, At, Quiet, Same
  <2>2. task[c].id \in Rows
    BY <2>1, <1>a DEF ReportFits, UsedRows
  <2>3. t.pc = "report" /\ t.alone = task[c].alone
    BY <1>a DEF LocalsType
  <2>4. t \in LocalsType
    BY SMTT(60), <2>1, OnlyMine DEF LocalsType, TypeOK
  <2> HIDE DEF t
  <2>5. Open' = Open /\ row'[task[c].id].list = list
        /\ \A m \in Rows : m # task[c].id => row'[m].list = row[m].list
    BY <2>1, <2>2 DEF Open, TypeOK
  <2>6. accounted # {} => \A d \in accounted : d # c => (Listed(d)' <=> Listed(d))
    <3>1. accounted # {} => list = row[task[c].id].list \cup {c}
      BY <2>1 DEF ReadIsCurrent
    <3>2. accounted # {} => \A d : d # c =>
                               \A m \in Open : d \in row'[m].list <=> d \in row[m].list
      BY <2>5, <3>1 DEF Open
    <3> QED
      BY <2>5, <3>2 DEF Listed
  <2>7. task[c].alone = TRUE => Listed(c)' /\ \A m, n \in Open' : m = n
    BY <2>1, <2>5, <1>b DEF AloneFits, Listed
  <2> QED
    BY <2>1, <2>3, <2>4, <2>6, <2>7, Ongoing
<1>5. ASSUME NEW c \in Connections, RemoveFailingConnection(c) PROVE ListHangsTogether'
  <2>1. task[c].pc = "look" /\ row' = row /\ failing' = failing /\ c \notin failing
    BY <1>5, <1>a DEF RemoveFailingConnection, At, Same, ReportFits
  <2>2. task[c].alone = TRUE => \A m, n \in Open : m = n
    BY <2>1, <1>b DEF AloneFits
  <2>3. CASE (Open = {} \/ \E n \in Open : c \notin row[n].list) /\ Ended(c)
    <3>1. task[c].alone = TRUE => ~Listed(c)
      BY <2>2, <2>3 DEF Listed
    <3>2. Become(c, Idle)
      BY <2>3 DEF Ended
    <3> QED
      BY <2>1, <2>3, <3>1, <3>2, <1>c, Ending
  <2>4. ASSUME NEW n \in Open, c \in row[n].list, Read(c, n, "remove"), Quiet
        PROVE  ListHangsTogether'
    <3> DEFINE t == [task[c] EXCEPT !.pc = "remove", !.id = n, !.list = row[n].list,
                                    !.ts = row[n].ts]
    <3>1. t.pc = "remove" /\ t.alone = task[c].alone /\ t.id = n /\ t.list = row[n].list
      BY <1>a DEF LocalsType
    <3>2. Become(c, t) /\ task'[c] = t /\ accounted' = accounted
      BY <2>4, OnlyMine DEF Read, Quiet
    <3>3. t \in LocalsType
      BY <3>2 DEF LocalsType, TypeOK
    <3> HIDE DEF t
    <3> QED
      BY <2>1, <2>2, <3>1, <3>2, <3>3, <1>c, Ongoing
  <2> QED
    BY <1>5, <2>3, <2>4 DEF RemoveFailingConnection
<1>6. ASSUME NEW c \in Connections, Splice(c) PROVE ListHangsTogether'
  <2> DEFINE list == task[c].list \ {c}
  <2> DEFINE t == [task[c] EXCEPT !.pc = "resolve", !.list = list]
  <2> DEFINE id == task[c].id
  <2>1. task[c].pc = "remove" /\ accounted' = accounted /\ failing' = failing /\ Become(c, t)
        /\ row' = [row EXCEPT ![id].list = list,
                              ![id].state = IF list = {} THEN "closed" ELSE "open"]
    BY <1>6 DEF Splice, At, Quiet, Same
  <2>2. id \in Rows
    BY <2>1, <1>a DEF ReportFits, UsedRows
  <2>3. t.pc = "resolve" /\ t.alone = task[c].alone
    BY <1>a DEF LocalsType
  <2>4. t \in LocalsType
    <3>1. list \in SUBSET Connections /\ NoRow \in Rows \cup {NoRow}
          /\ NoMessage \in Messages \cup {NoMessage}
      BY DEF TypeOK
    <3> HIDE DEF list
    <3> QED
      BY <1>a, <3>1, LocalsKept DEF Locations
  <2> HIDE DEF t
  <2>5. /\ Open' = IF list = {} THEN Open \ {id} ELSE Open \cup {id}
        /\ row'[id].list = list
        /\ \A m \in Rows : m # id => row'[m].list = row[m].list
    BY SMTT(60), <2>1, <2>2 DEF Open, TypeOK
  <2>6. ASSUME accounted # {}, NEW d \in accounted, d # c PROVE Listed(d)' <=> Listed(d)
    <3>1. list = row[id].list \ {c} /\ (id \in Open \/ d \notin row[id].list)
      BY <2>1, <2>6 DEF ReadIsCurrent
    <3>2. id \in Open' /\ d \in row'[id].list <=> id \in Open /\ d \in row[id].list
      BY <2>5, <2>6, <3>1
    <3>3. \A m \in Rows : m # id =>
             (m \in Open' /\ d \in row'[m].list <=> m \in Open /\ d \in row[m].list)
      BY <2>5
    <3>4. Open \subseteq Rows /\ Open' \subseteq Rows
      BY DEF Open
    <3> QED
      BY <3>2, <3>3, <3>4 DEF Listed
  <2>7. task[c].alone = TRUE => ~Listed(c)' /\ \A m, n \in Open' : m = n
    <3>1. task[c].alone = TRUE => id \in Open /\ \A m, n \in Open : m = n
      BY <2>1, <1>b DEF AloneFits
    <3>2. task[c].alone = TRUE => \A m \in Open' : m = id
      BY <2>5, <3>1
    <3> QED
      BY <2>5, <3>2 DEF Listed
  <2> QED
    BY <2>1, <2>3, <2>4, <2>6, <2>7, Ongoing
<1>7. ASSUME NEW c \in Connections, ReportFailure(c) PROVE ListHangsTogether'
  <2> DEFINE t == [task[c] EXCEPT !.pc = "stamp", !.ts = Target(c)]
  <2>1. task[c].pc = "report" /\ accounted' = accounted /\ failing' = failing /\ Become(c, t)
        /\ row' = row
    BY <1>7 DEF ReportFailure, At, Quiet, Same
  <2>2. t.pc = "stamp" /\ t.alone = task[c].alone
    BY <1>a DEF LocalsType
  <2>3. t \in LocalsType
    BY <2>1, OnlyMine DEF LocalsType, TypeOK
  <2> HIDE DEF t
  <2>4. task[c].alone = TRUE => Listed(c) /\ \A m, n \in Open : m = n
    BY <2>1, <1>b DEF AloneFits
  <2> QED
    BY <2>1, <2>2, <2>3, <2>4, <1>c, Ongoing
<1>8. ASSUME NEW c \in Connections, UpdateNotificationWithTimestamp(c) PROVE ListHangsTogether'
  <2>1. task[c].pc = "stamp" /\ failing' = failing /\ Ended(c)
        /\ row' = [row EXCEPT ![task[c].id].ts = task[c].ts]
    BY <1>8 DEF UpdateNotificationWithTimestamp, At, Same
  <2>2. Open' = Open /\ \A m \in Rows : row'[m].list = row[m].list
    BY <2>1 DEF Open, TypeOK
  <2>3. \A d : Listed(d)' <=> Listed(d)
    BY <2>2 DEF Listed, Open
  <2>4. c \in failing /\ (task[c].alone = TRUE => Listed(c))
    BY <2>1, <1>a, <1>b DEF ReportFits, AloneFits
  <2> QED
    BY <2>1, <2>3, <2>4, Ending DEF Ended
<1>9. ASSUME NEW c \in Connections, ReportResolution(c) PROVE ListHangsTogether'
  <2>1. task[c].pc = "resolve" /\ failing' = failing /\ Ended(c) /\ row' = row
    BY <1>9 DEF ReportResolution, At, Same
  <2>2. c \notin failing /\ (task[c].alone = TRUE => ~Listed(c))
    BY <2>1, <1>a, <1>b DEF ReportFits, AloneFits
  <2> QED
    BY <2>1, <2>2, <1>c, Ending DEF Ended
<1>10. ASSUME NEW c \in Connections, GivesUp(c) PROVE ListHangsTogether'
  <2>1. task[c].pc # "idle" /\ failing' = failing /\ row' = row /\ Become(c, Idle)
    BY <1>10 DEF GivesUp
  <2>2. Quiet \/ (task[c].pc \in {"report", "resolve"} /\ Ended(c))
    BY <1>10 DEF GivesUp
  <2>3. task[c].alone = TRUE /\ accounted' # accounted => (c \in failing <=> Listed(c))
    BY <2>1, <2>2, <1>a, <1>b DEF ReportFits, AloneFits, Quiet
  <2> QED
    BY <2>1, <2>2, <2>3, <1>c, Ending
<1>11. CASE CloseAllOpenNotifications
  <2>1. accounted' = accounted \ failing /\ failing' = failing /\ Open' = {}
        /\ \A n \in Rows : row'[n].list = row[n].list
    BY <1>11 DEF CloseAllOpenNotifications, Open, TypeOK
  <2>2. \A c \in Connections : task'[c] = [task[c] EXCEPT !.alone = FALSE]
    BY <1>11 DEF CloseAllOpenNotifications
  <2>3. \A c \in Connections : /\ task'[c].pc = task[c].pc /\ task'[c].list = task[c].list
                               /\ task'[c].id = task[c].id /\ task'[c].alone = FALSE
    <3>1. ASSUME NEW c \in Connections
          PROVE  /\ task'[c].pc = task[c].pc /\ task'[c].list = task[c].list
                 /\ task'[c].id = task[c].id /\ task'[c].alone = FALSE
      <4>1. task'[c] = [task[c] EXCEPT !.alone = FALSE]
        BY <2>2
      <4> QED
        BY <4>1, <1>a, NotAloneFields
    <3> QED
      BY <3>1
  <2>4. Reporting' = Reporting
    <3>1. \A d \in Connections : d \in Reporting' <=> task'[d].pc # "idle"
      BY DEF ReportsFit, ReportFits, Reporting
    <3> QED
      BY <2>3, <3>1, WhoReports DEF Reporting
  <2>5. OneAtATime'
    BY <2>1, <2>4 DEF OneAtATime
  <2>6. ReadIsCurrent'
    <3> SUFFICES ASSUME accounted' # {}, NEW c \in Connections, task'[c].pc \in {"add", "remove"}
                 PROVE  /\ task'[c].list = row'[task'[c].id].list
                        /\ accounted' \cap task'[c].list = {}
      BY DEF ReadIsCurrent
    <3>1. accounted # {} /\ task[c].pc \in {"add", "remove"} /\ task[c].id \in Rows
      BY <2>1, <2>3, <1>a DEF ReportFits, UsedRows
    <3>2. task[c].list = row[task[c].id].list
          /\ (task[c].id \in Open \/ accounted \cap task[c].list = {})
      BY <3>1 DEF ReadIsCurrent
    <3>3. ASSUME NEW d \in accounted', d \in task[c].list PROVE FALSE
      <4>1. d \in accounted /\ d \notin failing
        BY <2>1, <3>3
      <4>2. Listed(d)
        BY <3>2, <3>3, <4>1 DEF Listed
      <4> QED
        BY <4>1, <4>2 DEF AccountedHolds
    <3> QED
      BY <2>1, <2>3, <3>1, <3>2, <3>3
  <2>7. AloneIsExact'
    BY <2>3 DEF AloneIsExact, Reporting
  <2>8. AccountedHolds'
    BY <2>1 DEF AccountedHolds, Listed
  <2> QED
    BY <2>5, <2>6, <2>7, <2>8 DEF ListHangsTogether
<1>12. CASE Aside
  <2>1. Open' = Open /\ Reporting' = Reporting
    BY <1>12 DEF Aside, Open, Reporting
  <2>2. OneAtATime' /\ ReadIsCurrent'
    BY <1>12, <2>1 DEF Aside, OneAtATime, ReadIsCurrent
  <2>3. AloneIsExact' /\ AccountedHolds'
    BY <1>12, <2>1 DEF Aside, AloneIsExact, AloneFits, AccountedHolds, Listed
  <2> QED
    BY <2>2, <2>3 DEF ListHangsTogether
<1> QED
  BY StepsAre, <1>1, <1>2, <1>3, <1>4, <1>5, <1>6, <1>7, <1>8, <1>9, <1>10, <1>11, <1>12
     DEF StepOf

(***************************************************************************)
(* The channel shows the list.                                             *)
(***************************************************************************)

LEMMA InStepOngoing ==
    ASSUME ChannelInv, reasons = {}, NEW c \in Connections, NEW t, Become(c, t),
           task[c].pc # "idle", t.pc # "idle", \A m, n \in Open' : m = n, InStep(c)'
    PROVE  ChannelInStep'
<1> USE DEF ChannelInv, CoreInv
<1>1. task'[c] = t /\ \A d \in Connections : d # c => task'[d] = task[d]
  BY OnlyMine
<1>2. c \in Reporting /\ \A d \in Reporting : d = c
  BY WhoReports DEF ChannelInStep
<1>3. c \in Reporting' /\ \A d \in Reporting' : d = c
  <2>1. t # Idle
    BY DEF Idle
  <2> QED
    BY <1>1, <1>2, <2>1 DEF Reporting
<1> QED
  BY <1>3 DEF ChannelInStep

LEMMA InStepEnding ==
    ASSUME ChannelInv, reasons = {}, NEW c \in Connections, Become(c, Idle),
           task[c].pc # "idle", \A m, n \in Open' : m = n, Shown'
    PROVE  ChannelInStep'
<1> USE DEF ChannelInv, CoreInv
<1>1. task'[c] = Idle /\ \A d \in Connections : d # c => task'[d] = task[d]
  BY OnlyMine
<1>2. \A d \in Reporting : d = c
  BY WhoReports DEF ChannelInStep
<1>3. Reporting' = {}
  BY <1>1, <1>2 DEF Reporting
<1> QED
  BY <1>3 DEF ChannelInStep

\* What is shown of the one notification that is open.
LEMMA OneShown ==
    ASSUME Shown, NEW n \in Rows, Open = {n}
    PROVE  /\ OpenMessages = {row[n].ts} /\ row[n].ts \in Messages /\ row[n].ts # NoMessage
           /\ message[row[n].ts].count = Cardinality(row[n].list)
<1>1. OpenMessages = {row[n].ts} /\ message[row[n].ts].count = Cardinality(row[n].list)
  BY DEF Shown
<1>2. row[n].ts \in Messages
  BY <1>1 DEF OpenMessages
<1> QED
  BY <1>1, <1>2 DEF Messages, NoMessage

LEMMA NextChannelInStep ==
    ASSUME ChannelInv, CoreInv', [Next]_vars
    PROVE  ChannelInStep'
<1> SUFFICES ASSUME reasons' = {} PROVE ChannelInStep'
  BY DEF ChannelInStep
<1> USE DEF ChannelInv, CoreInv
<1>a. \A c \in Connections : ReportFits(c) /\ task[c] \in LocalsType
  BY DEF ReportsFit, TypeOK, LocalsType
<1>b. ASSUME NEW c \in Connections, task[c].pc # "idle", reasons = {}
      PROVE  InStep(c) /\ \A m, n \in Open : m = n
  BY <1>b, WhoReports DEF ChannelInStep
<1>c. ASSUME row' = row, message' = message
      PROVE  Open' = Open /\ OpenMessages' = OpenMessages /\ (Shown' <=> Shown)
  BY <1>c DEF Open, OpenMessages, Shown
<1>1. ASSUME NEW c \in Connections, NEW fails \in BOOLEAN, RunEnds(c, fails)
      PROVE  ChannelInStep'
  <2>1. row' = row /\ message' = message
    BY <1>1 DEF RunEnds
  <2>2. CASE ~enabled
    <3>1. task' = task /\ reasons' = reasons /\ Reporting' = Reporting
      BY <1>1, <2>2 DEF RunEnds, Reporting
    <3> QED
      BY <2>1, <3>1, <1>c DEF ChannelInStep, InStep
  <2>3. CASE enabled
    <3>1. Reporting = {} /\ reasons = {}
      BY <1>1, <2>3 DEF RunEnds
    <3>2. task'[c].pc = "look"
      <4>1. PICK one \in BOOLEAN :
               task'[c] = [Idle EXCEPT !.pc = "look", !.fails = fails, !.alone = one]
        BY <1>1, <2>3, NewRun
      <4> QED
        BY <4>1 DEF Idle
    <3>3. \A d \in Reporting' : d = c
      <4> SUFFICES ASSUME NEW d \in Connections, d # c PROVE d \notin Reporting'
        BY DEF Reporting
      <4>1. task[d] = Idle /\ task'[d] = [task[d] EXCEPT !.alone = FALSE]
        BY <1>1, <2>3, <3>1, NewRun DEF Reporting
      <4>2. task'[d] = Idle
        BY <4>1, IdleType, NotAloneFields
      <4> QED
        BY <4>2 DEF Reporting
    <3>4. c \in Reporting'
      BY <3>2 DEF Reporting, Idle
    <3>5. Shown' /\ \A m, n \in Open' : m = n
      BY <2>1, <3>1, <1>c DEF ChannelInStep
    <3>6. InStep(c)'
      BY <3>2, <3>5 DEF InStep
    <3> QED
      BY <3>3, <3>4, <3>5, <3>6 DEF ChannelInStep
  <2> QED
    BY <2>2, <2>3
<1>2. ASSUME NEW c \in Connections, AddFailingConnection(c) PROVE ChannelInStep'
  <2>1. task[c].pc = "look" /\ row' = row /\ message' = message /\ reasons = {}
    BY <1>2 DEF AddFailingConnection, At
  <2>2. Shown /\ Shown' /\ Open' = Open /\ OpenMessages' = OpenMessages
        /\ \A m, n \in Open : m = n
    BY <2>1, <1>b, <1>c DEF InStep
  <2>3. CASE Open = {} /\ Become(c, [task[c] EXCEPT !.pc = "create"])
    <3> DEFINE t == [task[c] EXCEPT !.pc = "create"]
    <3>1. t.pc = "create" /\ Become(c, t)
      BY <1>a, <2>3 DEF LocalsType
    <3> HIDE DEF t
    <3>2. task'[c] = t
      BY <3>1, OnlyMine
    <3>3. InStep(c)'
      BY <2>2, <2>3, <3>1, <3>2 DEF InStep
    <3> QED
      BY <2>1, <2>2, <3>1, <3>3, InStepOngoing
  <2>4. ASSUME NEW n \in Open, Read(c, n, IF c \in row[n].list THEN "report" ELSE "add")
        PROVE  ChannelInStep'
    <3> DEFINE t == [task[c] EXCEPT !.pc = IF c \in row[n].list THEN "report" ELSE "add", !.id = n,
                                    !.list = row[n].list, !.ts = row[n].ts]
    <3>1. t.pc \in {"report", "add"} /\ t.id = n /\ t.list = row[n].list /\ t.ts = row[n].ts
      BY <1>a DEF LocalsType
    <3>2. Become(c, t) /\ task'[c] = t
      BY <2>4, OnlyMine DEF Read
    <3> HIDE DEF t
    <3>3. n \in Rows /\ Open = {n}
      BY <2>2 DEF Open
    <3>4. OpenMessages = {row[n].ts} \ {NoMessage}
      BY <2>2, <3>3, OneShown
    <3>5. InStep(c)'
      BY <2>1, <2>2, <3>1, <3>2, <3>3, <3>4 DEF InStep
    <3>6. t.pc # "idle"
      BY <3>1
    <3> QED
      BY <2>1, <2>2, <3>2, <3>5, <3>6, InStepOngoing
  <2> QED
    BY <1>2, <2>3, <2>4 DEF AddFailingConnection
<1>3. ASSUME NEW c \in Connections, CreateNotification(c) PROVE ChannelInStep'
  <2> DEFINE n == Least(Unused)
  <2> DEFINE t == [task[c] EXCEPT !.pc = "report", !.id = n, !.list = {c}]
  <2>1. task[c].pc = "create" /\ message' = message /\ reasons = {} /\ Become(c, t)
        /\ row' = [row EXCEPT ![n] = [state |-> "open", list |-> {c}, ts |-> NoMessage]]
    BY <1>3 DEF CreateNotification, At
  <2>2. n \in Rows
    BY <2>1, FreeRow DEF At
  <2>3. t.pc = "report" /\ t.id = n /\ t.list = {c} /\ t.ts = NoMessage
    BY <2>1, <1>a DEF LocalsType, ReportFits
  <2> HIDE DEF n, t
  <2>4. Open = {} /\ Shown
    BY <2>1, <1>b DEF InStep
  <2>5. Open' = {n} /\ row'[n].list = {c} /\ row'[n].ts = NoMessage
    BY <2>1, <2>2, <2>4 DEF Open, TypeOK
  <2>6. OpenMessages' = {} /\ OpenMessages' = {NoMessage} \ {NoMessage}
    BY <2>1, <2>4 DEF OpenMessages, Shown
  <2>7. task'[c] = t
    BY <2>1, OnlyMine
  <2>8. InStep(c)'
    BY <2>3, <2>5, <2>6, <2>7 DEF InStep
  <2> QED
    BY <2>1, <2>3, <2>5, <2>8, InStepOngoing
<1>4. ASSUME NEW c \in Connections, Push(c) PROVE ChannelInStep'
  <2> DEFINE list == task[c].list \cup {c}
  <2> DEFINE t == [task[c] EXCEPT !.pc = "report", !.list = list]
  <2> DEFINE id == task[c].id
  <2>1. task[c].pc = "add" /\ message' = message /\ reasons = {} /\ Become(c, t)
        /\ row' = [row EXCEPT ![id].list = list]
    BY <1>4 DEF Push, At
  <2>2. t.pc = "report" /\ t.id = id /\ t.list = list /\ t.ts = task[c].ts
    BY <1>a DEF LocalsType
  <2>3. Shown /\ id \in Open /\ task[c].ts = row[id].ts /\ \A m, n \in Open : m = n
    BY <2>1, <1>b DEF InStep
  <2>4. id \in Rows /\ Open = {id}
    BY <2>3 DEF Open
  <2> HIDE DEF t
  <2>5. Open' = Open /\ row'[id].list = list /\ row'[id].ts = row[id].ts
    BY <2>1, <2>4 DEF Open, TypeOK
  <2>6. OpenMessages' = {row[id].ts} \ {NoMessage}
    <3>1. OpenMessages' = OpenMessages
      BY <2>1 DEF OpenMessages
    <3> QED
      BY <2>3, <2>4, <3>1, OneShown
  <2>7. task'[c] = t
    BY <2>1, OnlyMine
  <2> HIDE DEF list, id
  <2>8. InStep(c)'
    BY <2>2, <2>3, <2>4, <2>5, <2>6, <2>7 DEF InStep
  <2> QED
    BY <2>1, <2>2, <2>3, <2>5, <2>8, InStepOngoing
<1>5. ASSUME NEW c \in Connections, RemoveFailingConnection(c) PROVE ChannelInStep'
  <2>1. task[c].pc = "look" /\ row' = row /\ message' = message /\ reasons = {}
    BY <1>5 DEF RemoveFailingConnection, At
  <2>2. Shown /\ Shown' /\ Open' = Open /\ \A m, n \in Open : m = n
    BY <2>1, <1>b, <1>c DEF InStep
  <2>3. CASE Ended(c)
    BY <2>1, <2>2, <2>3, InStepEnding DEF Ended
  <2>4. ASSUME NEW n \in Open, Read(c, n, "remove") PROVE ChannelInStep'
    <3> DEFINE t == [task[c] EXCEPT !.pc = "remove", !.id = n, !.list = row[n].list,
                                    !.ts = row[n].ts]
    <3>1. t.pc = "remove" /\ t.id = n /\ t.list = row[n].list /\ t.ts = row[n].ts
      BY <1>a DEF LocalsType
    <3>2. Become(c, t) /\ task'[c] = t
      BY <2>4, OnlyMine DEF Read
    <3> HIDE DEF t
    <3>3. InStep(c)'
      BY <2>1, <2>2, <3>1, <3>2 DEF InStep
    <3> QED
      BY <2>1, <2>2, <3>1, <3>2, <3>3, InStepOngoing
  <2> QED
    BY <1>5, <2>3, <2>4 DEF RemoveFailingConnection
<1>6. ASSUME NEW c \in Connections, Splice(c) PROVE ChannelInStep'
  <2> DEFINE list == task[c].list \ {c}
  <2> DEFINE t == [task[c] EXCEPT !.pc = "resolve", !.list = list]
  <2> DEFINE id == task[c].id
  <2>1. task[c].pc = "remove" /\ message' = message /\ reasons = {} /\ Become(c, t)
        /\ row' = [row EXCEPT ![id].list = list,
                              ![id].state = IF list = {} THEN "closed" ELSE "open"]
    BY <1>6 DEF Splice, At
  <2>2. t.pc = "resolve" /\ t.id = id /\ t.list = list /\ t.ts = task[c].ts
    BY <1>a DEF LocalsType
  <2>3. Shown /\ id \in Open /\ task[c].ts = row[id].ts /\ \A m, n \in Open : m = n
    BY <2>1, <1>b DEF InStep
  <2>4. id \in Rows /\ Open = {id}
    BY <2>3 DEF Open
  <2> HIDE DEF t
  <2>5. /\ Open' = IF list = {} THEN Open \ {id} ELSE Open \cup {id}
        /\ row'[id].list = list /\ row'[id].ts = row[id].ts
    BY SMTT(60), <2>1, <2>4 DEF Open, TypeOK
  <2>6. OpenMessages' = {row[id].ts}
    <3>1. OpenMessages' = OpenMessages
      BY <2>1 DEF OpenMessages
    <3> QED
      BY <2>3, <2>4, <3>1, OneShown
  <2>7. task'[c] = t
    BY <2>1, OnlyMine
  <2> HIDE DEF list, id
  <2>8. Open' = IF list = {} THEN {} ELSE {id}
    BY <2>4, <2>5
  <2>9. InStep(c)'
    BY <2>2, <2>3, <2>5, <2>6, <2>7, <2>8 DEF InStep
  <2> QED
    BY <2>1, <2>2, <2>8, <2>9, InStepOngoing
<1>7. ASSUME NEW c \in Connections, ReportFailure(c) PROVE ChannelInStep'
  <2> DEFINE ts == Target(c)
  <2> DEFINE t == [task[c] EXCEPT !.pc = "stamp", !.ts = ts]
  <2> DEFINE id == task[c].id
  <2>1. task[c].pc = "report" /\ row' = row /\ reasons = {} /\ Become(c, t) /\ TriggerAction(c)
    BY <1>7 DEF ReportFailure, At
  <2>2. t.pc = "stamp" /\ t.id = id /\ t.ts = ts
    BY <1>a DEF LocalsType
  <2>3. id \in Open /\ task[c].list = row[id].list /\ task[c].ts = row[id].ts
        /\ OpenMessages = {task[c].ts} \ {NoMessage} /\ \A m, n \in Open : m = n
    BY <2>1, <1>b DEF InStep
  <2>4. task[c].list # {}
    BY <2>3 DEF TypeOK
  <2>5. ts \in Messages /\ (task[c].ts # NoMessage => ts = task[c].ts)
    BY <2>1, TargetFound
  <2>6. message' = [message EXCEPT ![ts] = [status |-> "open", count |-> Cardinality(task[c].list)]]
    BY <2>1, <2>4 DEF TriggerAction
  <2> HIDE DEF t, ts, id
  <2>7. OpenMessages' = OpenMessages \cup {ts} /\ message'[ts].count = Cardinality(row[id].list)
    BY <2>3, <2>5, <2>6 DEF OpenMessages, TypeOK
  <2>8. OpenMessages' = {ts}
    BY <2>3, <2>5, <2>7
  <2>9. Open' = Open /\ task'[c] = t
    BY <2>1, OnlyMine DEF Open
  <2>10. InStep(c)'
    BY <2>1, <2>2, <2>3, <2>7, <2>8, <2>9 DEF InStep
  <2> QED
    BY <2>1, <2>2, <2>3, <2>9, <2>10, InStepOngoing
<1>8. ASSUME NEW c \in Connections, UpdateNotificationWithTimestamp(c) PROVE ChannelInStep'
  <2> DEFINE id == task[c].id
  <2>1. task[c].pc = "stamp" /\ message' = message /\ reasons = {} /\ Become(c, Idle)
        /\ row' = [row EXCEPT ![id].ts = task[c].ts]
    BY <1>8 DEF UpdateNotificationWithTimestamp, At, Ended
  <2>2. id \in Open /\ OpenMessages = {task[c].ts}
        /\ message[task[c].ts].count = Cardinality(row[id].list) /\ \A m, n \in Open : m = n
    BY <2>1, <1>b DEF InStep
  <2>3. id \in Rows /\ Open = {id}
    BY <2>2 DEF Open
  <2> HIDE DEF id
  <2>4. Open' = {id} /\ row'[id].ts = task[c].ts /\ row'[id].list = row[id].list
    BY <2>1, <2>3 DEF Open, TypeOK
  <2>5. OpenMessages' = OpenMessages
    BY <2>1 DEF OpenMessages
  <2>6. Shown'
    BY <2>1, <2>2, <2>4, <2>5 DEF Shown
  <2> QED
    BY <2>1, <2>4, <2>6, InStepEnding
<1>9. ASSUME NEW c \in Connections, ReportResolution(c) PROVE ChannelInStep'
  <2> DEFINE id == task[c].id
  <2> DEFINE ts == task[c].ts
  <2> DEFINE list == task[c].list
  <2>1. task[c].pc = "resolve" /\ row' = row /\ reasons = {} /\ Become(c, Idle) /\ TriggerAction(c)
    BY <1>9 DEF ReportResolution, At, Ended
  <2>2. OpenMessages = {ts} /\ Open = (IF list = {} THEN {} ELSE {id})
        /\ list = row[id].list /\ ts = row[id].ts
    BY <2>1, <1>b DEF InStep
  <2>3. ts \in Messages /\ ts # NoMessage
    BY <2>2 DEF OpenMessages, Messages, NoMessage
  <2>4. message' = [message EXCEPT ![ts] =
                       [status |-> IF list = {} THEN "closed" ELSE "open",
                        count |-> Cardinality(list)]]
    BY <2>1, <2>3, TargetFound DEF TriggerAction
  <2> HIDE DEF id, ts, list
  <2>5. OpenMessages' = (IF list = {} THEN {} ELSE {ts}) /\ message'[ts].count = Cardinality(list)
    BY <2>2, <2>3, <2>4 DEF OpenMessages, TypeOK
  <2>6. Open' = Open
    BY <2>1 DEF Open
  <2>7. Shown'
    BY <2>1, <2>2, <2>5, <2>6 DEF Shown
  <2> QED
    BY <2>1, <2>2, <2>6, <2>7, InStepEnding
<1>10. ASSUME NEW c \in Connections, GivesUp(c) PROVE FALSE
  BY <1>10 DEF GivesUp
<1>11. CASE CloseAllOpenNotifications
  BY <1>11 DEF CloseAllOpenNotifications
<1>12. CASE Aside
  <2>1. Reporting' = Reporting /\ reasons' = reasons /\ row' = row /\ message' = message
        /\ task' = task
    BY <1>12 DEF Aside, Reporting
  <2> QED
    BY <2>1, <1>c DEF ChannelInStep, InStep
<1> QED
  BY StepsAre, <1>1, <1>2, <1>3, <1>4, <1>5, <1>6, <1>7, <1>8, <1>9, <1>10, <1>11, <1>12
     DEF StepOf

\* Of a connection whose last run reported alone the open notification says whether it
\* fails, whatever overlapped before; and the channel shows that notification and its
\* number, unless reports overlapped, one was not sent, or Slack was disconnected.
THEOREM FailuresReachTheChannel == Spec => []FailuresAreReported
<1>1. Init => ListHangsTogether /\ ChannelInStep
  BY DEF Init, ListHangsTogether, OneAtATime, ReadIsCurrent, AloneIsExact, AccountedHolds,
     Listed,
         ChannelInStep, Shown, OpenMessages, Open, Reporting, NewRow, NewMessage, Idle
<1>2. CoreInv /\ CoreInv' /\ ListHangsTogether /\ ChannelInStep /\ [Next]_vars
      => ListHangsTogether' /\ ChannelInStep'
  BY NextListHangsTogether, NextChannelInStep DEF ListInv, ListHangsTogether, ChannelInv
<1>3. ListHangsTogether /\ ChannelInStep => FailuresAreReported
  BY DEF ListHangsTogether, AccountedHolds, Listed, ChannelInStep, Shown, OpenMessages,
         FailuresAreReported, ListIsRight, ChannelAgrees
<1> QED
  BY <1>1, <1>2, <1>3, CoreInvAlways, PTL DEF Spec

=============================================================================
