---------------------------- MODULE Connections ----------------------------
(***************************************************************************)
(* The rows of one connection, that is of one connection id of a provider  *)
(* config: authorised and authorised again, imported, read with its token  *)
(* refreshed, given metadata, deleted.                                     *)
(*                                                                         *)
(*   shared/lib/services/connection.service.ts     the statements          *)
(*   shared/lib/clients/oauth2.client.ts, provider.client.ts   the refresh *)
(*   server/lib/controllers/connection.controller.ts       the handlers    *)
(*                                                                         *)
(* Each action is one statement or one call of the provider, with the code *)
(* up to the next.  The provider is external: it hands out grants, each    *)
(* with a sequence of access tokens.                                       *)
(***************************************************************************)
EXTENDS Integers, FiniteSets

CONSTANTS
    Requests,       \* the requests that can be under way at once
    NumRows,        \* bound: the rows ever inserted
    MaxEvents       \* bound: the requests made, and the kinds of them that fail

ASSUME RowsAssumption == NumRows \in Nat
ASSUME EventsAssumption == MaxEvents \in Nat

Rows == 1..NumRows
NoRow == 0
NoMetadata == 0
NoGrant == 0
NoToken == 0
\* A provider with a client of its own (Braintree, Figma) is an OAuth2 one else.
Modes == {"OAuth2", "Client", "App", "ApiKey", "None"}
HasRefreshTokens == {"OAuth2", "Client"}

VARIABLES
    mode,       \* auth_mode of the provider's template, or "Client"
    rotates,    \* the provider replaces a refresh token that was used
    offline,    \* the provider gives refresh tokens at all
    row,        \* row -> its state in _nango_connections
    cred,       \* row -> its credentials
    meta,       \* row -> its metadata, named by the request that brought it
    issued,     \* grant -> the newest token the provider has issued
    expired,    \* the access tokens that are about to expire, or have
    task,       \* request -> its local state
    begun,      \* bound: the requests so far; a grant is named by its request
    wanted,     \* history: row -> the metadata the customer wrote last
    newest,     \* history: row -> the grant that was written last
    authorized, \* history: an authorisation has ended since the last deletion
    failed,     \* history: the kinds of requests in which an await failed
    overlaps    \* history: the kinds of requests that were under way together

provider == <<mode, rotates, offline>>
rowVars == <<row, cred, meta>>
tokens == <<issued, expired>>
history == <<wanted, newest, authorized>>
vars == <<provider, rowVars, tokens, task, begun, history, failed, overlaps>>

Grants == 1..MaxEvents
Operations == {"idle", "authorize", "get", "setMetadata", "delete"}
Locations == {"idle", "import", "exists", "write", "read", "decide", "refresh", "store",
              "update", "remove"}

NoCredentials == [grant |-> NoGrant, access |-> NoToken, refresh |-> NoToken]

\* The locals of a handler: the row it has found, the credentials and the metadata
\* it was given, or those it has read (stored).
Idle == [op |-> "idle", pc |-> "idle", id |-> NoRow, cred |-> NoCredentials,
         meta |-> NoMetadata, stored |-> NoMetadata, instant |-> FALSE]

LiveRows == {i \in Rows : row[i] = "live"}

At(r, pc) == task[r].pc = pc
Become(r, t) == task' = [task EXCEPT ![r] = t]
Goto(r, from, to) == At(r, from) /\ Become(r, [task[r] EXCEPT !.pc = to])
End(r) == Become(r, Idle)

Begin(r, t) ==
    /\ task[r] = Idle /\ begun + Cardinality(failed) < MaxEvents
    /\ begun' = begun + 1
    /\ Become(r, t)

Fails(r) ==
    /\ failed' = failed \union {task[r].op}
    /\ begun + Cardinality(failed') <= MaxEvents

Init ==
    /\ mode \in Modes
    /\ rotates \in IF mode \in HasRefreshTokens THEN BOOLEAN ELSE {FALSE}
    /\ offline \in IF mode = "OAuth2" THEN BOOLEAN ELSE {mode = "Client"}
    /\ row = [i \in Rows |-> "none"]
    /\ cred = [i \in Rows |-> NoCredentials]
    /\ meta = [i \in Rows |-> NoMetadata]
    /\ issued = [g \in Grants |-> NoToken] /\ expired = {}
    /\ task = [r \in Requests |-> Idle] /\ begun = 0
    /\ wanted = [i \in Rows |-> NoMetadata] /\ newest = [i \in Rows |-> NoGrant]
    /\ authorized = FALSE /\ failed = {} /\ overlaps = {}

(***************************************************************************)
(* Authorising: upsertConnection, upsertApiConnection,                     *)
(* upsertUnauthConnection.                                                 *)
(***************************************************************************)

\* parseRawCredentials of what the provider, or the caller of an import, gave.
NewCredentials(g) ==
    IF mode = "None" THEN NoCredentials
    ELSE [grant |-> g, access |-> 1, refresh |-> IF offline THEN 1 ELSE NoToken]

Granted(r, t) ==
    /\ Begin(r, [t EXCEPT !.op = "authorize", !.cred = NewCredentials(begun')])
    /\ issued' = [issued EXCEPT ![begun'] = 1]
    /\ UNCHANGED <<provider, rowVars, expired, history, failed>>

\* A callback, or a form, that has the credentials.
Authorize(r) == Granted(r, [Idle EXCEPT !.pc = "exists"])

\* createConnection with the credentials in its body, of OAuth with metadata, too.
CreateConnection(r) ==
    /\ mode \in {"OAuth2", "App"}
    /\ Granted(r, [Idle EXCEPT !.pc = "exists",
                               !.meta = IF mode = "OAuth2" THEN begun' ELSE NoMetadata])

\* importApiAuthConnection looks once more, to refuse a connection that exists.
ImportKey(r) ==
    /\ mode = "ApiKey"
    /\ Granted(r, [Idle EXCEPT !.pc = "import"])

RefuseExisting(r) ==
    /\ At(r, "import")
    /\ Become(r, IF LiveRows = {} THEN [task[r] EXCEPT !.pc = "exists"] ELSE Idle)
    /\ UNCHANGED <<provider, rowVars, tokens, begun, history, failed>>

\* Mutant: nobody looks.
CheckNothing(r) ==
    /\ Goto(r, "exists", "write")
    /\ UNCHANGED <<provider, rowVars, tokens, begun, history, failed>>

\* checkIfConnectionExists: the first row that comes.  Only upsertConnection takes
\* metadata along, its own or else that of the row.
CheckIfConnectionExists(r) ==
    /\ At(r, "exists")
    /\ \E i \in IF LiveRows = {} THEN {NoRow} ELSE LiveRows :
          Become(r, [task[r] EXCEPT !.pc = "write", !.id = i,
                                    !.stored = IF i = NoRow THEN NoMetadata ELSE meta[i]])
    /\ UNCHANGED <<provider, rowVars, tokens, begun, history, failed>>

\* The unique index has deleted_at, null in a live row: it stops nothing.
Insert(r, i) ==
    /\ At(r, "write") /\ task[r].id = NoRow
    /\ row[i] = "none" /\ \A j \in Rows : j < i => row[j] # "none"
    /\ row' = [row EXCEPT ![i] = "live"]
    /\ cred' = [cred EXCEPT ![i] = task[r].cred]
    /\ meta' = [meta EXCEPT ![i] = task[r].meta]
    /\ wanted' = [wanted EXCEPT ![i] = task[r].meta]
    /\ newest' = [newest EXCEPT ![i] = task[r].cred.grant]
    /\ authorized' = TRUE /\ End(r)
    /\ UNCHANGED <<provider, tokens, begun, failed>>

\* Mutant: the metadata of the callback replaces that of the row.
OverwriteMetadata(r) ==
    /\ At(r, "write") /\ task[r].id # NoRow
    /\ LET i == task[r].id IN
       IF row[i] # "live" \/ mode = "None" THEN UNCHANGED <<cred, meta, wanted, newest>>
       ELSE /\ cred' = [cred EXCEPT ![i] = task[r].cred]
            /\ newest' = [newest EXCEPT ![i] = task[r].cred.grant]
            /\ meta' = [meta EXCEPT ![i] = task[r].meta]
            /\ UNCHANGED wanted
    /\ authorized' = TRUE /\ End(r)
    /\ UNCHANGED <<provider, row, tokens, begun, failed>>

\* The update goes by id, for a row that is still live.  That of an unauthenticated
\* connection changes its time stamp only, that of a key leaves the metadata alone.
Overwrite(r) ==
    /\ At(r, "write") /\ task[r].id # NoRow
    /\ LET i == task[r].id
           brought == task[r].meta # NoMetadata IN
       IF row[i] # "live" \/ mode = "None" THEN UNCHANGED <<cred, meta, wanted, newest>>
       ELSE /\ cred' = [cred EXCEPT ![i] = task[r].cred]
            /\ newest' = [newest EXCEPT ![i] = task[r].cred.grant]
            /\ meta' = [meta EXCEPT ![i] = IF brought THEN task[r].meta
                                           ELSE IF mode = "ApiKey" THEN @ ELSE task[r].stored]
            /\ wanted' = [wanted EXCEPT ![i] = IF brought THEN task[r].meta ELSE @]
    /\ authorized' = TRUE /\ End(r)
    /\ UNCHANGED <<provider, row, tokens, begun, failed>>

(***************************************************************************)
(* Reading: getConnection, and the refresh of getConnectionCredentials and *)
(* getConnectionWeb.                                                       *)
(***************************************************************************)

\* The handlers that begin with getConnection.
Read(r, t) ==
    /\ Begin(r, [t EXCEPT !.pc = "read"])
    /\ UNCHANGED <<provider, rowVars, tokens, history, failed>>

GetConnectionCreds(r, instant) == Read(r, [Idle EXCEPT !.op = "get", !.instant = instant])
GetConnectionWeb(r, instant) == Read(r, [Idle EXCEPT !.op = "get", !.instant = instant])
SetMetadata(r) == Read(r, [Idle EXCEPT !.op = "setMetadata", !.meta = begun'])
DeleteRequest(r) == Read(r, [Idle EXCEPT !.op = "delete"])

Then(op) == CASE op = "get" -> "decide" [] op = "setMetadata" -> "update" [] op = "delete" -> "remove"

\* The first live row that comes; without one the request is refused.
ReadRow(r) ==
    /\ At(r, "read")
    /\ \/ /\ LiveRows = {} /\ End(r)
       \/ \E i \in LiveRows :
             Become(r, [task[r] EXCEPT !.pc = Then(task[r].op), !.id = i, !.cred = cred[i],
                                       !.stored = meta[i]])
    /\ UNCHANGED <<provider, rowVars, tokens, begun, history, failed>>

\* The row's date says so or, for Salesforce, the introspection.
IsExpired(c) == <<c.grant, c.access>> \in expired

\* shouldRefreshCredentials, of what was read before updateLastFetched and
\* getProviderConfig; the list of running refreshes is always empty.
ShouldRefresh(t) ==
    /\ t.instant \/ IsExpired(t.cred)
    /\ \/ mode \in HasRefreshTokens /\ t.cred.refresh # NoToken
       \/ mode = "App"

Decide(r) ==
    /\ At(r, "decide")
    /\ Become(r, IF ShouldRefresh(task[r]) THEN [task[r] EXCEPT !.pc = "refresh"] ELSE Idle)
    /\ UNCHANGED <<provider, rowVars, tokens, begun, history, failed>>

\* A provider that rotates refresh tokens accepts the newest only.
Accepted(c) == rotates => c.refresh = issued[c.grant]

\* Mutant: the refresh token that came with the new access token is dropped.
RefreshedKeepingToken(c) == [c EXCEPT !.access = issued[c.grant] + 1]

\* Mutant: the answer is taken as it is, without the refresh token of before.
RefreshedAsAnswered(c) ==
    IF rotates THEN [c EXCEPT !.access = issued[c.grant] + 1, !.refresh = issued[c.grant] + 1]
    ELSE [grant |-> c.grant, access |-> issued[c.grant] + 1]

\* getFreshOAuth2Credentials keeps the refresh token if the provider sends none.
Refreshed(c) ==
    [c EXCEPT !.access = issued[c.grant] + 1,
              !.refresh = IF rotates THEN issued[c.grant] + 1 ELSE @]

\* refreshBraintreeToken requires a new one, refreshFigmaToken returns the old one.
ClientRefreshed(c) == LET n == issued[c.grant] + 1 IN
    [grant |-> c.grant, access |-> n, refresh |-> IF rotates THEN n ELSE c.refresh]

\* getAppCredentials signs for a token of the installation, and needs no other.
AppRefreshed(c) == [c EXCEPT !.access = issued[c.grant] + 1]

GetNewCredentials(c) ==
    CASE mode = "OAuth2" -> Refreshed(c)
      [] mode = "Client" -> ClientRefreshed(c)
      [] mode = "App" -> AppRefreshed(c)

RefreshToken(r) ==
    /\ At(r, "refresh") /\ Accepted(task[r].cred)
    /\ issued' = [issued EXCEPT ![task[r].cred.grant] = @ + 1]
    /\ Become(r, [task[r] EXCEPT !.pc = "store", !.cred = GetNewCredentials(@)])
    /\ UNCHANGED <<provider, rowVars, expired, begun, history, failed>>

\* Refused, or not reached: the caller gets an error.
RefreshFails(r) ==
    /\ At(r, "refresh") /\ End(r)
    /\ UNCHANGED <<provider, rowVars, tokens, begun, history, failed>>

\* The provider has issued the token, and its answer does not arrive or cannot be parsed.
AnswerLost(r) ==
    /\ At(r, "refresh") /\ Accepted(task[r].cred) /\ End(r)
    /\ issued' = [issued EXCEPT ![task[r].cred.grant] = @ + 1]
    /\ Fails(r)
    /\ UNCHANGED <<provider, rowVars, expired, begun, history>>

\* updateConnection writes every column that getConnection read, the id and the
\* metadata included, to the live rows of that key.  With any other live row it
\* would make an id occur twice: the statement throws, and the refresh is an error.
UpdateConnection(r) ==
    /\ At(r, "store") /\ End(r)
    /\ LET t == task[r] IN
       IF LiveRows # {t.id} THEN UNCHANGED <<cred, meta>>
       ELSE cred' = [cred EXCEPT ![t.id] = t.cred] /\ meta' = [meta EXCEPT ![t.id] = t.stored]
    /\ UNCHANGED <<provider, row, tokens, begun, history, failed>>

(***************************************************************************)
(* Metadata, deletion, and what goes wrong.                                *)
(***************************************************************************)

UpdateMetadata(r) ==
    /\ At(r, "update") /\ End(r)
    /\ LET i == task[r].id IN
       IF row[i] # "live" THEN UNCHANGED <<meta, wanted>>
       ELSE meta' = [meta EXCEPT ![i] = task[r].meta] /\ wanted' = [wanted EXCEPT ![i] = task[r].meta]
    /\ UNCHANGED <<provider, row, cred, tokens, begun, newest, authorized, failed>>

\* After the syncs (SyncLifecycle!DeleteConnection) every live row of the key goes.
DeleteConnection(r) ==
    /\ At(r, "remove") /\ End(r)
    /\ row' = [i \in Rows |-> IF i \in LiveRows THEN "deleted" ELSE row[i]]
    /\ authorized' = FALSE
    /\ UNCHANGED <<provider, cred, meta, tokens, begun, wanted, newest, failed>>

Expire(i) ==
    /\ mode \in HasRefreshTokens \union {"App"} /\ row[i] = "live"
    /\ expired' = expired \union {<<cred[i].grant, cred[i].access>>}
    /\ UNCHANGED <<provider, rowVars, issued, task, begun, history, failed>>

\* The process dies, or a statement throws.
CutShort(r) ==
    /\ task[r] # Idle /\ End(r)
    /\ Fails(r)
    /\ UNCHANGED <<provider, rowVars, tokens, begun, history>>

Arrives(r) ==
    \/ Authorize(r) \/ CreateConnection(r) \/ ImportKey(r)
    \/ \E instant \in BOOLEAN : GetConnectionCreds(r, instant) \/ GetConnectionWeb(r, instant)
    \/ SetMetadata(r) \/ DeleteRequest(r)

Step(r) ==
    \/ RefuseExisting(r) \/ CheckIfConnectionExists(r) \/ \E i \in Rows : Insert(r, i)
    \/ Overwrite(r) \/ ReadRow(r) \/ Decide(r) \/ RefreshToken(r) \/ RefreshFails(r)
    \/ UpdateConnection(r) \/ UpdateMetadata(r) \/ DeleteConnection(r)

\* The requests that harm each other, after the step.
Harmful == {{"authorize"}, {"get"}, {"get", "authorize"}, {"get", "setMetadata"},
            {"authorize", "setMetadata"}, {"authorize", "delete"}}
Clashes(tasks) ==
    {m \in Harmful : \E q, r \in Requests : q # r /\ m = {tasks[q].op, tasks[r].op}}

Next ==
    /\ \/ \E r \in Requests : Arrives(r) \/ Step(r) \/ AnswerLost(r) \/ CutShort(r)
       \/ \E i \in Rows : Expire(i)
    /\ overlaps' = overlaps \union Clashes(task')

Spec == Init /\ [][Next]_vars

(***************************************************************************)
(* Properties.                                                             *)
(***************************************************************************)

Credentials == [grant : Grants \union {NoGrant}, access : Nat, refresh : Nat]
Metadata == 0..MaxEvents
Tasks == [op : Operations, pc : Locations, id : Rows \union {NoRow}, cred : Credentials,
          meta : Metadata, stored : Metadata, instant : BOOLEAN]

TypeOK ==
    /\ mode \in Modes /\ rotates \in BOOLEAN /\ offline \in BOOLEAN
    /\ row \in [Rows -> {"none", "live", "deleted"}]
    /\ cred \in [Rows -> Credentials]
    /\ meta \in [Rows -> Metadata]
    /\ issued \in [Grants -> Nat]
    /\ expired \subseteq Grants \X Nat
    /\ task \in [Requests -> Tasks]
    /\ begun \in 0..MaxEvents
    /\ wanted \in [Rows -> Metadata] /\ newest \in [Rows -> Grants \union {NoGrant}]
    /\ authorized \in BOOLEAN
    /\ failed \subseteq Operations /\ overlaps \subseteq Harmful

Untouched(i) == \A r \in Requests : task[r].id # i

\* The metadata of a connection is what the customer wrote last: a refresh, and a
\* new authorisation, put back what they read.  They lose what was written
\* meanwhile, and nothing else does.
MetadataKept ==
    overlaps \intersect {{"get", "setMetadata"}, {"authorize", "setMetadata"},
                         {"get", "authorize"}, {"authorize"}} = {}
        => \A i \in LiveRows : meta[i] = wanted[i]

\* The refresh token of a connection that nobody is at work on is one that the
\* provider accepts, unless the connection has two rows or an answer of the
\* provider was lost.  Reads that refresh at the same time do no harm to it.
TokenUsable ==
    ({"authorize"} \notin overlaps /\ "get" \notin failed)
        => \A i \in LiveRows : (Untouched(i) /\ cred[i].refresh # NoToken) => Accepted(cred[i])

\* But they harm each other: a read is refused a refresh only if it met another,
\* which used up the token it had read (nothing enters runningCredentialsRefreshes),
\* or for the reasons above.
RefusedOnlyIfReadsMet ==
    ({"get"} \notin overlaps /\ {"authorize"} \notin overlaps /\ "get" \notin failed)
        => \A r \in Requests : At(r, "refresh") => Accepted(task[r].cred)

\* The credentials are those of the last authorisation, unless one met a read,
\* which then writes the old ones back.
LatestGrantKept ==
    {"get", "authorize"} \notin overlaps
        => \A i \in LiveRows : cred[i].grant = newest[i]

\* A connection has one row, unless two authorisations met.
OneLiveRow ==
    {"authorize"} \notin overlaps => Cardinality(LiveRows) <= 1

\* A connection that was authorised, and that nobody has deleted since, has a row,
\* unless the authorisation met the deletion of the row that it was to overwrite.
AuthorizedConnectionExists ==
    {"authorize", "delete"} \notin overlaps => (authorized => LiveRows # {})

\* What was written last, by the customer or by an authorisation, is what is kept.
ChangesKept == MetadataKept /\ LatestGrantKept

\* The provider accepts the tokens that are kept and the refreshes that are asked for.
RefreshesAccepted == TokenUsable /\ RefusedOnlyIfReadsMet

\* A connection that was authorised is there, and once.
OneConnection == OneLiveRow /\ AuthorizedConnectionExists
=============================================================================
