----------------------------- MODULE AuthFlows -----------------------------
(***************************************************************************)
(* One page authorises connections: the frontend's Nango object with its   *)
(* popup and its socket, the server's handlers for every kind of provider, *)
(* the session that ties a callback to its request, and the provider.      *)
(*                                                                         *)
(*   frontend/lib/index.ts                            the page             *)
(*   server/lib/controllers/{oauth,appAuth,apiAuth,unauth}.controller.ts   *)
(*   server/lib/clients/web-socket.client.ts          the way back         *)
(*   server/lib/services/oauth-session.service.ts     the sessions         *)
(*                                                                         *)
(* The user, the browser and the provider are external.  A handler is a    *)
(* sequence of awaits; each action runs up to the next one.                *)
(***************************************************************************)
EXTENDS Integers

CONSTANTS
    NumAuths,   \* bound: the calls of auth() by the page
    MaxFaults   \* bound: popups reloaded, restarts, deletions of the config

ASSUME AuthsAssumption == NumAuths \in Nat
ASSUME FaultsAssumption == MaxFaults \in Nat

Auths == 1..NumAuths
None == 0

Modes == {"OAuth2", "OAuth1", "App", "ApiKey", "Basic", "None"}
PopupModes == {"OAuth2", "OAuth1", "App"}

VARIABLES
    mode,       \* auth_mode of the provider's template
    config,     \* the provider config exists
    status,     \* this.status of the Nango object
    win,        \* this.win: the call whose popup it is
    tm,         \* this.tm: the call whose interval it is
    timers,     \* the calls whose interval is running
    promise,    \* call -> the promise it returned
    window,     \* call -> what its popup, or its fetch, is waiting for
    msg,        \* call -> the message on its socket to the page
    clients,    \* the sockets the server's process knows, named by the call
    task,       \* handler -> where it is
    writing,    \* the calls whose row is being written with nobody waiting
    session,    \* the calls that have a row in _nango_oauth_sessions
    connected,  \* the calls whose connection has been written
    started,    \* the calls whose connection's syncs have been started
    swallowed,  \* history: those of which some sync was not, and nobody was told
    begun,      \* history: the calls whose row began to be written with nobody waiting
    faults,     \* bound: the faults so far
    reason      \* history: call -> the first reason why it may be rejected although connected

page == <<status, win, tm, timers, promise>>
server == <<clients, task, writing>>
flow == <<started, swallowed, begun>>
rows == <<session, connected, flow>>
vars == <<mode, config, page, window, msg, server, rows, faults, reason>>

\* The requests of one call: to connect, the provider's callback, that reloaded.
Handlers == Auths \X {"connect", "first", "again"}

Windows == {"none", "blank", "connect", "provider", "first", "again", "answered",
            "stopped", "closed"}
Open == Windows \ {"none", "closed"}
Promises == {"none", "pending", "resolved", "rejected"}
Statuses == {"IDLE", "BUSY", "DONE", "CANCELED"}
Messages == {"none", "ack", "error", "success"}
Locations == {"idle", "check", "find", "delete", "callback", "upsert", "initiate",
              "answer", "done"}
Reasons == {"closed", "busy", "unfinished", "restart", "ignored", "late", "reused", "otherPopup"}

Because(a, why) == reason' = [reason EXCEPT ![a] = IF @ = "none" THEN why ELSE @]
Settled(a, outcome) ==
    [promise EXCEPT ![a] = IF @ = "pending" THEN outcome ELSE @]

Fault == faults < MaxFaults /\ faults' = faults + 1

Init ==
    /\ mode \in Modes /\ config = TRUE
    /\ status = "IDLE" /\ win = None /\ tm = None /\ timers = {}
    /\ promise = [a \in Auths |-> "none"]
    /\ window = [a \in Auths |-> "none"] /\ msg = [a \in Auths |-> "none"]
    /\ clients = {} /\ task = [h \in Handlers |-> "idle"] /\ writing = {}
    /\ session = {} /\ connected = {}
    /\ started = {} /\ swallowed = {} /\ begun = {}
    /\ faults = 0
    /\ reason = [a \in Auths |-> "none"]

(***************************************************************************)
(* The page                                                                *)
(***************************************************************************)

\* Bound: a call whose popup is reloaded is the only one.
IsNext(a) ==
    /\ promise[a] = "none" /\ \A b \in Auths : b < a => promise[b] # "none"
    /\ \A b \in Auths : task[<<b, "again">>] = "idle"

\* auth(): a call while another is busy is rejected, yet goes on.  The popup may be
\* blocked, which looks like one that was closed.
Auth(a) ==
    /\ IsNext(a) /\ mode \in PopupModes
    /\ promise' = [promise EXCEPT ![a] = IF status = "BUSY" THEN "rejected" ELSE "pending"]
    /\ IF status = "BUSY" THEN Because(a, "busy") ELSE UNCHANGED reason
    /\ status' = "BUSY" /\ win' = a /\ tm' = a /\ timers' = timers \union {a}
    /\ \E w \in {"blank", "closed"} : window' = [window EXCEPT ![a] = w]
    /\ UNCHANGED <<mode, config, msg, server, rows, faults>>

\* apiAuth() and create(): one fetch, that neither reads nor sets the status.
ApiAuth(a) ==
    /\ IsNext(a) /\ mode \notin PopupModes
    /\ promise' = [promise EXCEPT ![a] = "pending"]
    /\ window' = [window EXCEPT ![a] = "connect"]
    /\ task' = [task EXCEPT ![<<a, "connect">>] = "check"]
    /\ UNCHANGED <<mode, config, status, win, tm, timers, msg, clients, writing, rows,
                   faults, reason>>

FetchFails(a) ==
    /\ mode \notin PopupModes /\ window[a] = "connect" /\ task[<<a, "connect">>] = "done"
    /\ window' = [window EXCEPT ![a] = "closed"]
    /\ promise' = Settled(a, "rejected")
    /\ UNCHANGED <<mode, config, status, win, tm, timers, msg, server, rows, faults, reason>>

\* The socket's connection_ack: the popup goes to /oauth/connect.
OpenModal(a) ==
    /\ msg[a] = "ack"
    /\ msg' = [msg EXCEPT ![a] = "none"]
    /\ IF window[a] = "blank"
       THEN /\ window' = [window EXCEPT ![a] = "connect"]
            /\ task' = [task EXCEPT ![<<a, "connect">>] = "check"]
       ELSE UNCHANGED <<window, task>>
    /\ UNCHANGED <<mode, config, page, clients, writing, rows, faults, reason>>

Handle(a, message, outcome) ==
    /\ msg[a] = message
    /\ msg' = [msg EXCEPT ![a] = "none"]
    /\ IF status = "BUSY"
       THEN status' = "DONE" /\ promise' = Settled(a, outcome) /\ UNCHANGED reason
       ELSE Because(a, "ignored") /\ UNCHANGED <<status, promise>>
    /\ UNCHANGED <<mode, config, win, tm, timers, window, server, rows, faults>>

SuccessHandler(a) == Handle(a, "success", "resolved")
ErrorHandler(a) == Handle(a, "error", "rejected")

WindowGone == win \notin {a \in Auths : window[a] # "closed"}

\* Mutant: a popup that shows the provider's page cannot be read.
PollAbroad(a) ==
    /\ a \in timers
    /\ win \notin {b \in Auths : window[b] \notin {"closed", "provider"}}
    /\ timers' = timers \ {tm} /\ win' = None /\ status' = "CANCELED"
    /\ promise' = Settled(a, "rejected")
    /\ UNCHANGED <<mode, config, tm, window, msg, server, rows, faults, reason>>

\* Mutant: it waits for a window of its own.
PollOwn(a) ==
    /\ a \in timers /\ win = a /\ window[a] = "closed"
    /\ timers' = timers \ {a} /\ win' = None /\ status' = "CANCELED"
    /\ promise' = Settled(a, "rejected")
    /\ UNCHANGED <<mode, config, tm, window, msg, server, rows, faults, reason>>

\* The interval of auth().  It looks at the popup, and clears the interval, of the
\* last call, but rejects the promise of its own; success does not clear it.
Poll(a) ==
    /\ a \in timers /\ WindowGone
    /\ timers' = timers \ {tm} /\ win' = None /\ status' = "CANCELED"
    /\ promise' = Settled(a, "rejected")
    /\ CASE promise[a] # "pending" -> UNCHANGED reason
         [] promise[a] = "pending" /\ window[a] # "closed" -> Because(a, "otherPopup")
         [] OTHER -> IF msg[a] = "success" THEN Because(a, "late") ELSE UNCHANGED reason
    /\ UNCHANGED <<mode, config, tm, window, msg, server, rows, faults>>

(***************************************************************************)
(* The user, the browser and the provider                                  *)
(***************************************************************************)

\* An answered popup closes itself.
Closes(a) ==
    /\ mode \in PopupModes /\ window[a] \in Open
    /\ window' = [window EXCEPT ![a] = "closed"]
    /\ IF window[a] # "answered" /\ promise[a] = "pending" THEN Because(a, "closed")
       ELSE UNCHANGED reason
    /\ UNCHANGED <<mode, config, page, msg, server, rows, faults>>

Callback(a, n) ==
    /\ window' = [window EXCEPT ![a] = n]
    /\ task' = [task EXCEPT ![<<a, n>>] = "find"]
    /\ UNCHANGED <<mode, config, page, msg, clients, writing, rows, reason>>

\* The provider calls back, with a grant or without one.
CallsBack(a) == window[a] = "provider" /\ Callback(a, "first") /\ UNCHANGED faults
Reloads(a) ==
    /\ Fault /\ window[a] = "first" /\ Callback(a, "again")
    /\ \A b \in Auths \ {a} : promise[b] = "none"

\* The customer deletes the provider config meanwhile.
DeleteConfig ==
    /\ Fault /\ config /\ config' = FALSE
    /\ UNCHANGED <<mode, page, window, msg, server, rows, reason>>

(***************************************************************************)
(* The server                                                              *)
(***************************************************************************)

\* wsServer.on('connection').
AddClient(a) ==
    /\ window[a] # "none" /\ mode \in PopupModes
    /\ a \notin clients /\ msg[a] = "none" /\ task[<<a, "connect">>] = "idle"
    /\ clients' = clients \union {a}
    /\ msg' = [msg EXCEPT ![a] = "ack"]
    /\ UNCHANGED <<mode, config, page, window, task, writing, rows, faults, reason>>

At(h, pc) == task[h] = pc
Goto(h, from, to) == At(h, from) /\ task' = [task EXCEPT ![h] = to]

\* The popup shows what it is sent if this is the request it waits for.
Shown(h, w) == [window EXCEPT ![h[1]] = IF @ = h[2] THEN w ELSE @]

\* notifyErr, notifySuccess: the socket, if this process has it, and the popup.
Notify(h, type) ==
    /\ task' = [task EXCEPT ![h] = "done"]
    /\ clients' = clients \ {h[1]}
    /\ msg' = [msg EXCEPT ![h[1]] = IF h[1] \in clients THEN type ELSE @]
    /\ window' = Shown(h, "answered")
    /\ UNCHANGED <<page, writing>>
NotifyErr(h) == Notify(h, "error")
NotifySuccess(h) == Notify(h, "success")

\* errRes, res.sendStatus: the popup stays as it is.
Refuse(h) ==
    /\ task' = [task EXCEPT ![h] = "done"]
    /\ window' = Shown(h, "stopped")
    /\ UNCHANGED <<page, msg, clients, writing>>

\* A handler that returns without an answer, or whose rejection nobody handles.
Hang(h) == task' = [task EXCEPT ![h] = "done"] /\ UNCHANGED <<page, window, msg, clients, writing>>

\* The answer of a fetch.
Respond(h, outcome) ==
    /\ task' = [task EXCEPT ![h] = "done"]
    /\ window' = Shown(h, "closed")
    /\ promise' = Settled(h[1], outcome)
    /\ UNCHANGED <<status, win, tm, timers, msg, clients, writing>>

Proceed(h, from, to) == Goto(h, from, to) /\ UNCHANGED <<page, window, msg, clients, writing>>

\* What a handler answers when an await of its try block is rejected.
Fails(h) == IF mode \in PopupModes THEN NotifyErr(h) ELSE Respond(h, "rejected")

\* oauthRequest: the parameters, the HMAC, the provider config or its template is
\* refused.
OauthRequest(h) ==
    /\ At(h, "check") /\ mode \in PopupModes
    /\ NotifyErr(h)
    /\ UNCHANGED <<mode, config, rows, faults, reason>>

\* The session is there before the popup, if the user has not closed it, goes on.
Redirect(h) ==
    /\ At(h, "check") /\ config
    /\ session' = session \union {h[1]}
    /\ task' = [task EXCEPT ![h] = "done"]
    /\ window' = Shown(h, "provider")
    /\ UNCHANGED <<mode, config, page, msg, clients, writing, connected, flow, faults, reason>>

Oauth2Request(h) == mode = "OAuth2" /\ Redirect(h)
AppRequest(h) == mode = "App" /\ Redirect(h)

\* The session is created outside of the try block.
Oauth1Request(h) ==
    /\ mode = "OAuth1"
    /\ \/ Redirect(h)
       \/ /\ At(h, "check") /\ config /\ Hang(h)
          /\ UNCHANGED <<mode, config, rows, faults, reason>>

\* Without a session the handler returns, as it does without a state.
OauthCallback(h) ==
    /\ At(h, "find") /\ mode # "App"
    /\ \/ h[1] \in session /\ Proceed(h, "find", "delete")
       \/ Hang(h)
    /\ UNCHANGED <<mode, config, rows, faults, reason>>

\* appAuth's connect: an installation that was not granted has no id.
Connect(h) ==
    /\ At(h, "find") /\ mode = "App"
    /\ \/ h[1] \in session /\ Proceed(h, "find", "delete")
       \/ Refuse(h)
       \/ Hang(h)
    /\ UNCHANGED <<mode, config, rows, faults, reason>>

\* delete looks for the session once more and does not mind if it is gone.
DeleteSession(h) ==
    /\ At(h, "delete")
    /\ \/ Proceed(h, "delete", "callback") /\ session' = session \ {h[1]}
       \/ Hang(h) /\ UNCHANGED session
    /\ IF h[1] \in session THEN UNCHANGED reason ELSE Because(h[1], "reused")
    /\ UNCHANGED <<mode, config, connected, flow, faults>>

\* Without its config the callback throws before its try block.  No code, or one
\* that the provider refuses, is an error.
Oauth2Callback(h) ==
    /\ At(h, "callback") /\ mode = "OAuth2"
    /\ \/ ~config /\ Hang(h)
       \/ config /\ NotifyErr(h)
       \/ config /\ Proceed(h, "callback", "upsert")
    /\ UNCHANGED <<mode, config, rows, faults, reason>>

\* The provider is asked with nobody waiting, and when it has answered the row is
\* written with nobody waiting, and the syncs are not started.
Oauth1Callback(h) ==
    /\ At(h, "callback") /\ mode = "OAuth1"
    /\ \/ Hang(h) /\ UNCHANGED begun
       \/ NotifyErr(h) /\ UNCHANGED begun
       \/ /\ task' = [task EXCEPT ![h] = "answer"]
          /\ writing' = writing \union {h[1]} /\ begun' = begun \union {h[1]}
          /\ UNCHANGED <<page, window, msg, clients>>
    /\ UNCHANGED <<mode, config, session, connected, started, swallowed, faults, reason>>

\* getAppCredentials.
AppCallback(h) ==
    /\ At(h, "callback") /\ mode = "App"
    /\ \/ ~config /\ Refuse(h)
       \/ config /\ NotifyErr(h)
       \/ config /\ Proceed(h, "callback", "upsert")
    /\ UNCHANGED <<mode, config, rows, faults, reason>>

Written(a) ==
    /\ a \in writing /\ writing' = writing \ {a}
    /\ connected' \in {connected, connected \union {a}}
    /\ UNCHANGED <<mode, config, page, window, msg, clients, task, session, flow, faults,
                   reason>>

\* The checks of the requests that bring a key, a password or nothing.
Checks(h) ==
    /\ At(h, "check")
    /\ \/ config /\ Proceed(h, "check", "upsert")
       \/ Respond(h, "rejected")
    /\ UNCHANGED <<mode, config, rows, faults, reason>>

ApiKey(h) == mode = "ApiKey" /\ Checks(h)
Basic(h) == mode = "Basic" /\ Checks(h)
Create(h) == mode = "None" /\ Checks(h)

\* Mutant: nobody waits for the row.
UpsertLater(h) ==
    /\ At(h, "upsert")
    /\ task' = [task EXCEPT ![h] = "initiate"]
    /\ writing' = writing \union {h[1]}
    /\ UNCHANGED <<mode, config, page, window, msg, clients, rows, faults, reason>>

\* Mutant: the success is told before the syncs are started.
UpsertOnly(h) ==
    /\ At(h, "upsert")
    /\ \/ Proceed(h, "upsert", "answer") /\ connected' = connected \union {h[1]}
       \/ Fails(h) /\ UNCHANGED connected
    /\ UNCHANGED <<mode, config, session, flow, faults, reason>>

\* upsertConnection and the like, see Connections.
Upsert(h) ==
    /\ At(h, "upsert")
    /\ \/ Proceed(h, "upsert", "initiate") /\ connected' = connected \union {h[1]}
       \/ Fails(h) /\ UNCHANGED connected
    /\ UNCHANGED <<mode, config, session, flow, faults, reason>>

\* The syncs of a new connection, see SyncLifecycle: all are started; or one is not,
\* for want of a client, or of the row that the database gave back, or because
\* startContinuous caught what it threw, and nobody is told; or initiate throws, and
\* the page is told of an error although the connection exists.
Initiate(h) ==
    /\ At(h, "initiate")
    /\ \/ /\ Proceed(h, "initiate", "answer")
          /\ \/ started' = started \union {h[1]} /\ UNCHANGED swallowed
             \/ swallowed' = swallowed \union {h[1]} /\ UNCHANGED started
          /\ UNCHANGED reason
       \/ Fails(h) /\ Because(h[1], "unfinished") /\ UNCHANGED <<started, swallowed>>
    /\ UNCHANGED <<mode, config, session, connected, begun, faults>>

\* The log of the success is written first, and may fail too.
Answer(h) ==
    /\ At(h, "answer")
    /\ \/ Fails(h) /\ mode \in PopupModes /\ Because(h[1], "unfinished")
       \/ /\ IF mode \in PopupModes THEN NotifySuccess(h) ELSE Respond(h, "resolved")
          /\ UNCHANGED reason
    /\ UNCHANGED <<mode, config, rows, faults>>

Running == {h \in Handlers : task[h] \notin {"idle", "done"}}

\* Sockets and handlers are gone; sessions of more than a day are deleted.
Restart ==
    /\ Fault
    /\ clients' = {} /\ writing' = {}
    /\ task' = [h \in Handlers |-> IF h \in Running THEN "done" ELSE task[h]]
    /\ \E w \in SUBSET writing : connected' = connected \union w
    /\ session' \in SUBSET session
    /\ LET lost == clients \union {h[1] : h \in Running} IN
       reason' = [a \in Auths |-> IF a \in lost /\ reason[a] = "none" THEN "restart"
                                  ELSE reason[a]]
    /\ UNCHANGED <<mode, config, page, window, msg, flow>>

(***************************************************************************)
(* The specification                                                       *)
(***************************************************************************)

Page(a) == FetchFails(a) \/ OpenModal(a) \/ SuccessHandler(a) \/ ErrorHandler(a) \/ Poll(a)
User(a) == Auth(a) \/ ApiAuth(a) \/ Closes(a) \/ CallsBack(a) \/ Reloads(a)
Server(h) ==
    \/ OauthRequest(h) \/ Oauth2Request(h) \/ AppRequest(h) \/ Oauth1Request(h)
    \/ OauthCallback(h) \/ Connect(h) \/ DeleteSession(h)
    \/ Oauth2Callback(h) \/ Oauth1Callback(h) \/ AppCallback(h)
    \/ ApiKey(h) \/ Basic(h) \/ Create(h) \/ Upsert(h) \/ Initiate(h) \/ Answer(h)

Next ==
    \/ \E a \in Auths : Page(a) \/ User(a) \/ AddClient(a) \/ Written(a)
    \/ \E h \in Handlers : Server(h)
    \/ DeleteConfig \/ Restart

\* The page's timers and messages, and the server, go on; the user leaves no popup
\* open for ever.
Fairness ==
    /\ WF_vars(\E a \in Auths : Page(a))
    /\ WF_vars(\E a \in Auths : Closes(a))
    /\ WF_vars(\E h \in Handlers : Server(h))

Spec == Init /\ [][Next]_vars /\ Fairness

(***************************************************************************)
(* Properties                                                              *)
(***************************************************************************)

\* The variables keep their ranges, and no handler runs for a call not yet made.
TypeOK ==
    /\ mode \in Modes /\ config \in BOOLEAN
    /\ status \in Statuses /\ {win, tm} \subseteq Auths \union {None}
    /\ timers \subseteq Auths /\ promise \in [Auths -> Promises]
    /\ window \in [Auths -> Windows] /\ msg \in [Auths -> Messages]
    /\ clients \subseteq Auths /\ task \in [Handlers -> Locations]
    /\ writing \subseteq Auths /\ session \subseteq Auths
    /\ connected \subseteq Auths /\ begun \subseteq Auths
    /\ started \subseteq connected /\ swallowed \subseteq connected
    /\ faults \in 0..MaxFaults /\ reason \in [Auths -> Reasons \union {"none"}]
    /\ \A h \in Handlers : task[h] # "idle" => promise[h[1]] # "none"

\* A page that is told that its user is not connected is told the truth (index.ts
\* rejects with windowClosed "before the authorization flow was completed") unless
\* the user left, had another popup open, the server restarted, the syncs could not
\* be started, the callback was reloaded, or the success came after the closing of
\* the popup or after the message of another call.
RejectedHasReason ==
    \A a \in Auths : promise[a] = "rejected" /\ a \in connected => reason[a] # "none"

\* Every promise of auth() settles, whatever the server, the provider and the user
\* do, unless the interval of an earlier call is still running: it clears that of
\* the new one, and rejects only its own promise.
AuthSettles ==
    \A a \in Auths :
        promise[a] = "pending" ~>
            promise[a] # "pending" \/ \E b \in timers : b < a

\* The flow implements what AuthRequest promises: a promise settles once, and it is
\* resolved only with the row written and the start of its syncs over, all of them
\* started or a failure swallowed; in OAuth1, once the row began to be written.
Request == INSTANCE AuthRequest WITH awaited <- mode # "OAuth1"
ImplementsAuthRequest == Request!Spec
=============================================================================
