--------------------------- MODULE Notifications ---------------------------
(***************************************************************************)
(* The Slack notification of a sync that fails: one environment, one name  *)
(* of a sync, the runs of its connections side by side.                    *)
(*                                                                         *)
(*   shared/lib/services/sync/notification/slack.service.ts                *)
(*   shared/lib/services/sync/run.service.ts               the outcomes    *)
(*   server/lib/controllers/connection.controller.ts       the deletions   *)
(*                                                                         *)
(* Each action is one statement or one action sent to Slack, with the code *)
(* up to the next.  The duplicate for the administrators goes the same way *)
(* to another channel and is left out.                                     *)
(***************************************************************************)
EXTENDS Integers, FiniteSets

CONSTANTS
    Connections,    \* the connections of the sync
    MaxRuns,        \* bound: the runs, and so the rows and the messages
    MaxEvents       \* bound: what else happens: settings, deletions, failures

ASSUME ConnectionsAssumption == IsFiniteSet(Connections)
ASSUME RunsAssumption == MaxRuns \in Nat
ASSUME EventsAssumption == MaxEvents \in Nat

Rows == 1..MaxRuns
Messages == 1..MaxRuns
NoRow == 0
NoMessage == 0

VARIABLES
    enabled,    \* slack_notifications of the environment
    connected,  \* the account's Slack connection exists
    closing,    \* the Slack connection is deleted, its notifications not yet closed
    live,       \* the connections that are not deleted
    row,        \* row -> its content in _nango_slack_notifications
    message,    \* message -> what it says in the channel
    task,       \* connection -> the locals of its run's report
    failing,    \* the connections whose last run failed
    runs,       \* bound: the runs so far
    events,     \* bound: the other events so far
    accounted,  \* history: the connections whose last run reported alone, and so did all since
    reasons     \* history: why the channel may differ from the table

settings == <<enabled, connected, closing, live>>
bounds == <<runs, events>>
vars == <<settings, row, message, task, failing, bounds, accounted, reasons>>

Reasons == {"overlap", "unsent", "disconnected"}
Locations == {"idle", "look", "create", "add", "remove", "report", "stamp", "resolve"}

NewRow == [state |-> "none", list |-> {}, ts |-> NoMessage]
NewMessage == [status |-> "none", count |-> 0]

\* id, connection_list and slack_timestamp as they were read.
Idle == [pc |-> "idle", fails |-> FALSE, id |-> NoRow, list |-> {}, ts |-> NoMessage,
         alone |-> FALSE]

Open == {n \in Rows : row[n].state = "open"}
Unused == {n \in Rows : row[n].state = "none"}
Least(S) == CHOOSE n \in S : \A k \in S : n <= k

At(c, pc) == task[c].pc = pc
Become(c, t) == task' = [task EXCEPT ![c] = t]
Event == events < MaxEvents /\ events' = events + 1 /\ UNCHANGED runs
NoEvent == UNCHANGED bounds

Init ==
    /\ enabled \in BOOLEAN /\ connected \in BOOLEAN /\ closing = FALSE /\ live = Connections
    /\ row = [n \in Rows |-> NewRow]
    /\ message = [n \in Messages |-> NewMessage]
    /\ task = [c \in Connections |-> Idle]
    /\ failing = {} /\ runs = 0 /\ events = 0 /\ accounted = Connections /\ reasons = {}
-----------------------------------------------------------------------------
(* A run ends and reports.                                                 *)

Reporting == {c \in Connections : task[c] # Idle}

\* reportFailureForResults and reportResults; nothing happens when notifications are
\* off, and what the table says of the connection is then of an earlier run.  A
\* connection has one report at a time: the one that nobody awaits (reportResults,
\* without its job) is of a sync that was deleted during its run.
RunEnds(c, fails) ==
    /\ c \in live /\ task[c] = Idle /\ runs < MaxRuns
    /\ runs' = runs + 1 /\ UNCHANGED events
    /\ failing' = IF fails THEN failing \cup {c} ELSE failing \ {c}
    /\ IF enabled
       THEN task' = [d \in Connections |->
                       IF d = c
                       THEN [Idle EXCEPT !.pc = "look", !.fails = fails,
                                    !.alone = Reporting = {} /\ Cardinality(Open) <= 1]
                       ELSE [task[d] EXCEPT !.alone = FALSE]]
       ELSE UNCHANGED task
    /\ accounted' = IF enabled /\ Reporting # {} THEN {} ELSE accounted \ {c}
    /\ reasons' = IF enabled /\ Reporting # {} THEN reasons \cup {"overlap"} ELSE reasons
    /\ UNCHANGED <<settings, row, message>>

\* The run's report is over.
Ended(c) ==
    /\ Become(c, Idle)
    /\ accounted' = IF task[c].alone THEN accounted \cup {c} ELSE accounted

Quiet == UNCHANGED accounted
Same == UNCHANGED <<settings, failing, bounds>>

Read(c, n, pc) ==
    Become(c, [task[c] EXCEPT !.pc = pc, !.id = n, !.list = row[n].list, !.ts = row[n].ts])

\* hasOpenNotification takes whichever open row comes first.
AddFailingConnection(c) ==
    /\ At(c, "look") /\ task[c].fails
    /\ \/ Open = {} /\ Become(c, [task[c] EXCEPT !.pc = "create"])
       \/ \E n \in Open : Read(c, n, IF c \in row[n].list THEN "report" ELSE "add")
    /\ Quiet /\ Same /\ UNCHANGED <<row, message, reasons>>

CreateNotification(c) ==
    /\ At(c, "create")
    /\ LET n == Least(Unused)
       IN  /\ row' = [row EXCEPT ![n] = [state |-> "open", list |-> {c}, ts |-> NoMessage]]
           /\ Become(c, [task[c] EXCEPT !.pc = "report", !.id = n, !.list = {c}])
    /\ Quiet /\ Same /\ UNCHANGED <<message, reasons>>

\* Mutant: the update opens the row, whose list it replaces.
PushReplacing(c) ==
    /\ At(c, "add")
    /\ row' = [row EXCEPT ![task[c].id].list = {c}]
    /\ Become(c, [task[c] EXCEPT !.pc = "report", !.list = {c}])
    /\ Quiet /\ Same /\ UNCHANGED <<message, reasons>>

Push(c) ==
    /\ At(c, "add")
    /\ LET list == task[c].list \cup {c}
       IN  /\ row' = [row EXCEPT ![task[c].id].list = list]
           /\ Become(c, [task[c] EXCEPT !.pc = "report", !.list = list])
    /\ Quiet /\ Same /\ UNCHANGED <<message, reasons>>

RemoveFailingConnection(c) ==
    /\ At(c, "look") /\ ~task[c].fails
    /\ \/ /\ Open = {} \/ \E n \in Open : c \notin row[n].list
          /\ Ended(c)
       \/ \E n \in Open : c \in row[n].list /\ Read(c, n, "remove") /\ Quiet
    /\ Same /\ UNCHANGED <<row, message, reasons>>

\* Mutant: an emptied list leaves the notification open.
SpliceOnly(c) ==
    /\ At(c, "remove")
    /\ LET list == task[c].list \ {c}
       IN  /\ row' = [row EXCEPT ![task[c].id].list = list]
           /\ Become(c, [task[c] EXCEPT !.pc = "resolve", !.list = list])
    /\ Quiet /\ Same /\ UNCHANGED <<message, reasons>>

Splice(c) ==
    /\ At(c, "remove")
    /\ LET list == task[c].list \ {c}
       IN  /\ row' = [row EXCEPT ![task[c].id].list = list,
                                 ![task[c].id].state = IF list = {} THEN "closed" ELSE "open"]
           /\ Become(c, [task[c] EXCEPT !.pc = "resolve", !.list = list])
    /\ Quiet /\ Same /\ UNCHANGED <<message, reasons>>
-----------------------------------------------------------------------------
(* What is sent to Slack.                                                  *)

Target(c) ==
    IF task[c].ts # NoMessage THEN task[c].ts
    ELSE Least({n \in Messages : message[n].status = "none"})

\* The action updates the message that ts names, or posts a new one.
TriggerAction(c) ==
    message' = [message EXCEPT ![Target(c)] =
                  [status |-> IF task[c].list = {} THEN "closed" ELSE "open",
                   count |-> Cardinality(task[c].list)]]

ReportFailure(c) ==
    /\ At(c, "report") /\ connected
    /\ TriggerAction(c)
    /\ Become(c, [task[c] EXCEPT !.pc = "stamp", !.ts = Target(c)])
    /\ Quiet /\ Same /\ UNCHANGED <<row, reasons>>

UpdateNotificationWithTimestamp(c) ==
    /\ At(c, "stamp")
    /\ row' = [row EXCEPT ![task[c].id].ts = task[c].ts]
    /\ Ended(c)
    /\ Same /\ UNCHANGED <<message, reasons>>

ReportResolution(c) ==
    /\ At(c, "resolve") /\ connected
    /\ TriggerAction(c)
    /\ Ended(c)
    /\ Same /\ UNCHANGED <<row, reasons>>

\* Without a Slack connection the report ends there.
NotConnected(c) ==
    /\ task[c].pc \in {"report", "resolve"} /\ ~connected
    /\ Ended(c)
    /\ reasons' = reasons \cup {"unsent"}
    /\ Same /\ UNCHANGED <<row, message>>

\* The action fails: there is no timestamp, and an update with nothing to write throws,
\* so that the report ends there and the row stays as it was.
ActionFails(c) ==
    /\ task[c].pc \in {"report", "resolve"} /\ connected /\ Event
    /\ Ended(c)
    /\ reasons' = reasons \cup {"unsent"}
    /\ UNCHANGED <<settings, failing, row, message>>

\* A statement fails, or the worker stops.
ReportStops(c) ==
    /\ task[c] # Idle /\ Event
    /\ Become(c, Idle)
    /\ reasons' = reasons \cup {"unsent"}
    /\ Quiet /\ UNCHANGED <<settings, failing, row, message>>
-----------------------------------------------------------------------------
(* Settings and deletions.                                                 *)

Setting(e, k, l) ==
    /\ Event
    /\ enabled' = e /\ connected' = k /\ live' = l
    /\ Quiet /\ UNCHANGED <<closing, failing, task, row, message, reasons>>

SetSlackNotificationsEnabled == Setting(~enabled, connected, live)

ConnectSlack == ~connected /\ Setting(enabled, TRUE, live)

DeleteAdminConnection ==
    /\ connected /\ ~closing /\ Event
    /\ connected' = FALSE /\ closing' = TRUE
    /\ Quiet /\ UNCHANGED <<enabled, live, failing, task, row, message, reasons>>

\* What an open report is about may be closed under it.
CloseAllOpenNotifications ==
    /\ closing /\ closing' = FALSE
    /\ row' = [n \in Rows |-> IF n \in Open THEN [row[n] EXCEPT !.state = "closed"] ELSE row[n]]
    /\ task' = [c \in Connections |-> [task[c] EXCEPT !.alone = FALSE]]
    /\ accounted' = accounted \ failing
    /\ reasons' = reasons \cup {"disconnected"}
    /\ UNCHANGED <<enabled, connected, live, failing, bounds, message>>

\* The list keeps the id of a connection that is deleted.
DeleteConnection(c) == c \in live /\ Setting(enabled, connected, live \ {c})

Next ==
    \/ \E c \in Connections :
          \/ \E fails \in BOOLEAN : RunEnds(c, fails)
          \/ AddFailingConnection(c)
          \/ CreateNotification(c)
          \/ Push(c)
          \/ RemoveFailingConnection(c)
          \/ Splice(c)
          \/ ReportFailure(c)
          \/ UpdateNotificationWithTimestamp(c)
          \/ ReportResolution(c)
          \/ NotConnected(c)
          \/ ActionFails(c)
          \/ ReportStops(c)
          \/ DeleteConnection(c)
    \/ SetSlackNotificationsEnabled
    \/ ConnectSlack
    \/ DeleteAdminConnection
    \/ CloseAllOpenNotifications

Spec == Init /\ [][Next]_vars
-----------------------------------------------------------------------------
(* The properties.                                                         *)

\* The type of every variable; an open row lists somebody.
TypeOK ==
    /\ enabled \in BOOLEAN /\ connected \in BOOLEAN /\ closing \in BOOLEAN
    /\ live \subseteq Connections
    /\ row \in [Rows -> [state : {"none", "open", "closed"}, list : SUBSET Connections,
                         ts : Messages \cup {NoMessage}]]
    /\ message \in [Messages -> [status : {"none", "open", "closed"},
                                 count : 0..Cardinality(Connections)]]
    /\ task \in [Connections -> [pc : Locations, fails : BOOLEAN, id : Rows \cup {NoRow},
                                 list : SUBSET Connections,
                                 ts : Messages \cup {NoMessage}, alone : BOOLEAN]]
    /\ failing \subseteq Connections /\ accounted \subseteq Connections
    /\ runs \in 0..MaxRuns /\ events \in 0..MaxEvents /\ reasons \subseteq Reasons
    /\ \A n \in Open : row[n].list # {}

\* Whatever overlapped before, a connection whose last run reported alone, with one
\* notification open at most, is on the list of an open one exactly when it fails.
ListIsRight ==
    Reporting = {} => \A c \in accounted :
        c \in failing <=> \E n \in Open : c \in row[n].list

\* Between reports, the channel shows one failing message, that of the open
\* notification and its number of connections, or none: unless reports overlapped,
\* one was not sent, or Slack was disconnected.
ChannelAgrees ==
    Reporting = {} /\ reasons = {} =>
        {n \in Messages : message[n].status = "open"} = {row[n].ts : n \in Open}
        /\ \A n \in Open : message[row[n].ts].count = Cardinality(row[n].list)

\* The notification lists who fails, and the channel shows the notification.
FailuresAreReported == ListIsRight /\ ChannelAgrees
=============================================================================
