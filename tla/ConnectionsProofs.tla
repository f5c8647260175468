-------------------------- MODULE ConnectionsProofs --------------------------
(***************************************************************************)
(* What a connection keeps, for any number of requests, rows and events:   *)
(* its row, what was written to it last, and a token the provider accepts. *)
(***************************************************************************)
EXTENDS Connections, FiniteSetTheorems, TLAPS

(***************************************************************************)
(* The inductive invariant.                                                *)
(***************************************************************************)

Refreshing == {"OAuth2", "Client", "App"}
Handed == {"import", "exists", "write"}
HasRead == {"decide", "refresh", "store"}

\* The location of a handler tells its operation and what it has found.
HandlersFit ==
    /\ rotates => mode \in HasRefreshTokens
    /\ \A r \in Requests :
       /\ task[r].pc = "idle" => task[r] = Idle
       /\ task[r].pc \in Handed => task[r].op = "authorize"
       /\ task[r].pc \in HasRead => task[r].op = "get" /\ task[r].id \in Rows
       /\ task[r].pc = "read" => task[r].op \in {"get", "setMetadata", "delete"}
       /\ task[r].pc = "update" => task[r].op = "setMetadata" /\ task[r].id \in Rows
       /\ task[r].pc = "remove" => task[r].op = "delete"
       /\ task[r].pc \in {"refresh", "store"} => mode \in Refreshing

\* Only a connection without authentication has no grant.
HasGrant(c) == mode = "None" \/ c.grant \in Grants
GrantsFit ==
    /\ \A i \in Rows : row[i] = "live" => HasGrant(cred[i])
    /\ \A r \in Requests :
          task[r].pc \in Handed \union HasRead => HasGrant(task[r].cred)

\* Requests that are under way together are known to have been.
MeetingsKnown ==
    \A q, r \in Requests : q # r =>
       /\ task[q].op = "authorize" /\ task[r].op = "authorize" => {"authorize"} \in overlaps
       /\ task[q].op = "get" /\ task[r].op = "get" => {"get"} \in overlaps
       /\ task[q].op = "get" /\ task[r].op = "authorize" => {"get", "authorize"} \in overlaps
       /\ task[q].op = "get" /\ task[r].op = "setMetadata" => {"get", "setMetadata"} \in overlaps
       /\ task[q].op = "authorize" /\ task[r].op = "setMetadata"
             => {"authorize", "setMetadata"} \in overlaps
       /\ task[q].op = "authorize" /\ task[r].op = "delete" => {"authorize", "delete"} \in overlaps

CoreInv == TypeOK /\ HandlersFit /\ GrantsFit /\ MeetingsKnown

\* What an authorisation has found out about the rows stays true until it writes.
NothingFound ==
    {"authorize"} \notin overlaps =>
       /\ \A i, j \in LiveRows : i = j
       /\ \A r \in Requests : At(r, "write") /\ task[r].id = NoRow => LiveRows = {}
FoundIsLive ==
    {"authorize", "delete"} \notin overlaps =>
       /\ authorized => LiveRows # {}
       /\ \A r \in Requests : At(r, "write") /\ task[r].id # NoRow => task[r].id \in LiveRows

\* The metadata that a handler will put back is what the customer wrote last.
MetaOverlaps ==
    {{"get", "setMetadata"}, {"authorize", "setMetadata"}, {"get", "authorize"}, {"authorize"}}
StoredIsWanted ==
    overlaps \intersect MetaOverlaps = {} =>
       /\ \A i \in LiveRows : meta[i] = wanted[i]
       /\ \A r \in Requests :
             (task[r].pc \in HasRead \union {"write"} /\ task[r].id \in LiveRows)
                => task[r].stored = wanted[task[r].id]

\* The grant that a read will put back is the one that was written last.
ReadIsNewest ==
    {"get", "authorize"} \notin overlaps =>
       /\ \A i \in LiveRows : cred[i].grant = newest[i]
       /\ \A r \in Requests :
             (task[r].pc \in HasRead /\ task[r].id \in LiveRows)
                => task[r].cred.grant = newest[task[r].id]

\* A grant belongs to the authorisation that brings it, and then to one row.
GrantsApart ==
    /\ \A i \in Rows : cred[i].grant <= begun
    /\ \A r \in Requests : task[r].cred.grant <= begun
    /\ \A i, j \in Rows : cred[i].grant # NoGrant /\ cred[i].grant = cred[j].grant => i = j
    /\ \A r \in Requests, i \in Rows :
          cred[i].grant # NoGrant /\ task[r].cred.grant = cred[i].grant
             => task[r].op # "authorize" /\ task[r].id = i
    /\ \A q, r \in Requests :
          (q # r /\ task[r].cred.grant # NoGrant /\ task[q].cred.grant = task[r].cred.grant)
             => task[r].op # "authorize" /\ task[q].id = task[r].id

\* No token is newer than the one the provider has issued last, and the one that a
\* refresh has just got is in no other hands.
Issued(c) == c.grant \in Grants => c.refresh <= issued[c.grant]
Newest(c) == c.refresh = issued[c.grant]
Rightful(c) == Issued(c) /\ (c.grant = NoGrant => c.refresh = NoToken)
TokensHeld ==
    rotates =>
       /\ \A i \in Rows : Rightful(cred[i])
       /\ \A r \in Requests :
          /\ Rightful(task[r].cred)
          /\ (task[r].op = "authorize" /\ task[r].cred.refresh # NoToken) => Newest(task[r].cred)
          /\ task[r].pc \in {"refresh", "store"} => task[r].cred.refresh # NoToken
NewestHeldOnce ==
    rotates =>
       \A r \in Requests : task[r].pc = "store" =>
          /\ Newest(task[r].cred)
          /\ \A i \in Rows : cred[i].grant = task[r].cred.grant => ~ Newest(cred[i])
          /\ \A q \in Requests \ {r} :
                task[q].cred.grant = task[r].cred.grant => ~ Newest(task[q].cred)

\* A live row has the newest token, or a handler that will write it is under way.
RowsKeepUp ==
    ({"authorize"} \notin overlaps /\ "get" \notin failed) =>
       \A i \in LiveRows :
          \/ cred[i].refresh = NoToken \/ Accepted(cred[i])
          \/ \E r \in Requests : At(r, "store") /\ task[r].id = i

\* What a read has found stays the newest token while no other read is under way.
ReadKeepsUp ==
    ({"get"} \notin overlaps /\ {"authorize"} \notin overlaps /\ "get" \notin failed) =>
       \A r \in Requests : task[r].pc \in {"decide", "refresh"} =>
          task[r].cred.refresh = NoToken \/ Accepted(task[r].cred)

(***************************************************************************)
(* The steps, by what they do.                                             *)
(***************************************************************************)

\* A request comes with the credentials that the provider has granted it.
Hands(r, t) ==
    /\ task[r] = Idle /\ Become(r, t)
    /\ begun' = begun + 1 /\ begun' \in Grants
    /\ t.op = "authorize" /\ t.pc \in {"import", "exists"} /\ t.id = NoRow
    /\ t.cred = NewCredentials(begun')
    /\ issued' = [issued EXCEPT ![begun'] = 1]
    /\ UNCHANGED <<provider, rowVars, expired, history, failed>>

\* A request comes that is to read the row.
Asks(r, t) ==
    /\ task[r] = Idle /\ Become(r, t)
    /\ begun' = begun + 1 /\ begun' \in Grants
    /\ t.op \in {"get", "setMetadata", "delete"} /\ t.pc = "read" /\ t.id = NoRow
    /\ t.cred = NoCredentials
    /\ UNCHANGED <<provider, rowVars, tokens, history, failed>>

\* The bound on the requests bounds the grants.
LEMMA Capped ==
    ASSUME TypeOK, begun + Cardinality(failed) < MaxEvents
    PROVE  begun + 1 \in Grants
<1>1. IsFiniteSet(Operations)
  <2>1. IsFiniteSet({} \union {"idle"} \union {"authorize"} \union {"get"})
    BY FS_EmptySet, FS_AddElement
  <2>2. IsFiniteSet({} \union {"idle"} \union {"authorize"} \union {"get"}
                       \union {"setMetadata"} \union {"delete"})
    BY <2>1, FS_AddElement
  <2>3. Operations = {} \union {"idle"} \union {"authorize"} \union {"get"}
                       \union {"setMetadata"} \union {"delete"}
    BY DEF Operations
  <2> QED
    BY <2>2, <2>3
<1>2. IsFiniteSet(failed)
  BY <1>1, FS_Subset DEF TypeOK
<1>3. Cardinality(failed) \in Nat
  BY <1>2, FS_CardinalityType
<1> QED
  BY <1>3, EventsAssumption DEF TypeOK, Grants

LEMMA IdleIsTask == Idle \in Tasks /\ NoCredentials \in Credentials
  BY EventsAssumption DEF Idle, Tasks, Operations, Locations, NoCredentials, Credentials,
     NoRow, NoGrant, NoToken, NoMetadata, Metadata

LEMMA NewCredentialsType ==
    ASSUME TypeOK, NEW g \in Grants
    PROVE  NewCredentials(g) \in Credentials
  BY IdleIsTask DEF NewCredentials, Credentials, NoToken

LEMMA Arrivals ==
    ASSUME TypeOK, NEW r \in Requests, Arrives(r)
    PROVE  \E t \in Tasks : Hands(r, t) \/ Asks(r, t)
<1>1. ASSUME NEW t \in Tasks, t.id = NoRow, t.pc \in {"import", "exists"},
             t.meta \in Metadata, Granted(r, t)
      PROVE  \E u \in Tasks : Hands(r, u)
  <2> DEFINE u == [t EXCEPT !.op = "authorize", !.cred = NewCredentials(begun')]
  <2>1. begun' = begun + 1 /\ begun' \in Grants
    BY <1>1, Capped DEF Granted, Begin
  <2>2. NewCredentials(begun') \in Credentials
    BY <2>1, NewCredentialsType
  <2>3. u \in Tasks
    BY <1>1, <2>2 DEF Tasks, Operations
  <2>4. Hands(r, u)
    BY <1>1, <2>1 DEF Granted, Begin, Hands, Tasks
  <2> QED
    BY <2>3, <2>4
<1>2. ASSUME NEW t \in Tasks, t.id = NoRow, t.op \in {"get", "setMetadata", "delete"},
             t.cred = NoCredentials, Read(r, t)
      PROVE  \E u \in Tasks : Asks(r, u)
  <2> DEFINE u == [t EXCEPT !.pc = "read"]
  <2>1. begun' = begun + 1 /\ begun' \in Grants
    BY <1>2, Capped DEF Read, Begin
  <2>2. u \in Tasks
    BY <1>2 DEF Tasks, Locations
  <2>3. Asks(r, u)
    BY <1>2, <2>1 DEF Read, Begin, Asks, Tasks
  <2> QED
    BY <2>2, <2>3
<1>3. begun + Cardinality(failed) < MaxEvents => begun + 1 \in Metadata
  BY Capped, EventsAssumption DEF Grants, Metadata
<1>4. CASE Authorize(r)
  <2> DEFINE t == [Idle EXCEPT !.pc = "exists"]
  <2>1. t \in Tasks /\ t.id = NoRow /\ t.pc \in {"import", "exists"} /\ t.meta \in Metadata
    BY IdleIsTask, EventsAssumption DEF Idle, Tasks, Locations, Metadata, NoMetadata
  <2> QED
    BY <1>1, <1>4, <2>1 DEF Authorize
<1>5. CASE CreateConnection(r)
  <2> DEFINE t == [Idle EXCEPT !.pc = "exists",
                               !.meta = IF mode = "OAuth2" THEN begun' ELSE NoMetadata]
  <2>0. begun' \in Metadata
    BY <1>3, <1>5 DEF CreateConnection, Granted, Begin
  <2>1. t \in Tasks /\ t.id = NoRow /\ t.pc \in {"import", "exists"} /\ t.meta \in Metadata
    BY <2>0, IdleIsTask, EventsAssumption DEF Idle, Tasks, Locations, Metadata, NoMetadata
  <2> QED
    BY <1>1, <1>5, <2>1 DEF CreateConnection
<1>6. CASE ImportKey(r)
  <2> DEFINE t == [Idle EXCEPT !.pc = "import"]
  <2>1. t \in Tasks /\ t.id = NoRow /\ t.pc \in {"import", "exists"} /\ t.meta \in Metadata
    BY IdleIsTask, EventsAssumption DEF Idle, Tasks, Locations, Metadata, NoMetadata
  <2> QED
    BY <1>1, <1>6, <2>1 DEF ImportKey
<1>7. ASSUME NEW instant \in BOOLEAN,
             GetConnectionCreds(r, instant) \/ GetConnectionWeb(r, instant)
      PROVE  \E u \in Tasks : Asks(r, u)
  <2> DEFINE t == [Idle EXCEPT !.op = "get", !.instant = instant]
  <2>1. t \in Tasks /\ t.id = NoRow /\ t.op \in {"get", "setMetadata", "delete"} /\ t.cred = NoCredentials
    BY IdleIsTask DEF Idle, Tasks, Operations
  <2> QED
    BY <1>2, <1>7, <2>1 DEF GetConnectionCreds, GetConnectionWeb
<1>8. CASE SetMetadata(r)
  <2> DEFINE t == [Idle EXCEPT !.op = "setMetadata", !.meta = begun']
  <2>0. begun' \in Metadata
    BY <1>3, <1>8 DEF SetMetadata, Read, Begin
  <2>1. t \in Tasks /\ t.id = NoRow /\ t.op \in {"get", "setMetadata", "delete"} /\ t.cred = NoCredentials
    BY <2>0, IdleIsTask DEF Idle, Tasks, Operations
  <2> QED
    BY <1>2, <1>8, <2>1 DEF SetMetadata
<1>9. CASE DeleteRequest(r)
  <2> DEFINE t == [Idle EXCEPT !.op = "delete"]
  <2>1. t \in Tasks /\ t.id = NoRow /\ t.op \in {"get", "setMetadata", "delete"} /\ t.cred = NoCredentials
    BY IdleIsTask DEF Idle, Tasks, Operations
  <2> QED
    BY <1>2, <1>9, <2>1 DEF DeleteRequest
<1> QED
  BY <1>4, <1>5, <1>6, <1>7, <1>8, <1>9 DEF Arrives

\* One step of the specification, as the lemmas below take it.
Acts ==
    \/ \E r \in Requests, t \in Tasks : Hands(r, t) \/ Asks(r, t)
    \/ \E r \in Requests, i \in Rows : Insert(r, i)
    \/ \E r \in Requests :
       \/ RefuseExisting(r) \/ CheckIfConnectionExists(r) \/ Overwrite(r) \/ ReadRow(r)
       \/ Decide(r) \/ RefreshToken(r) \/ RefreshFails(r) \/ UpdateConnection(r)
       \/ UpdateMetadata(r) \/ DeleteConnection(r) \/ AnswerLost(r) \/ CutShort(r)
    \/ \E i \in Rows : Expire(i)
Moves == Acts /\ overlaps' = overlaps \union Clashes(task')

LEMMA NextMoves == TypeOK /\ Next => Moves
  BY Arrivals DEF Next, Step, Moves, Acts

\* What a provider answers to a refresh.
LEMMA NewCredentialsFit ==
    ASSUME TypeOK, HandlersFit, NEW c \in Credentials, c.grant \in Grants, mode \in Refreshing
    PROVE  /\ GetNewCredentials(c) \in Credentials
           /\ GetNewCredentials(c).grant = c.grant
           /\ rotates => GetNewCredentials(c).refresh = issued[c.grant] + 1
           /\ ~ rotates => GetNewCredentials(c).refresh = c.refresh
<1>1. issued[c.grant] + 1 \in Nat
  BY DEF TypeOK
<1>2. CASE mode = "OAuth2"
  BY <1>1, <1>2 DEF GetNewCredentials, Refreshed, Credentials, TypeOK
<1>3. CASE mode = "Client"
  BY <1>1, <1>3 DEF GetNewCredentials, ClientRefreshed, Credentials, TypeOK
<1>4. CASE mode = "App"
  BY <1>1, <1>4 DEF GetNewCredentials, AppRefreshed, Credentials, TypeOK, HandlersFit,
     HasRefreshTokens
<1> QED
  BY <1>2, <1>3, <1>4 DEF Refreshing

LEMMA NextTypeOK ==
    ASSUME TypeOK, HandlersFit, GrantsFit, Moves \/ UNCHANGED vars
    PROVE  TypeOK'
<1> USE DEF TypeOK
<1>0. overlaps' \subseteq Harmful
  BY DEF Moves, Clashes, vars, TypeOK
<1>1. ASSUME NEW r \in Requests, NEW t \in Tasks, Hands(r, t) PROVE TypeOK'
  <2>1. begun' \in 0..MaxEvents /\ issued' \in [Grants -> Nat]
    BY <1>1, EventsAssumption DEF Hands, Grants
  <2> QED
    BY <1>0, <1>1, <2>1 DEF Hands, Become, vars, provider, rowVars, tokens, history

<1>2. ASSUME NEW r \in Requests, NEW t \in Tasks, Asks(r, t) PROVE TypeOK'
  <2>1. begun' \in 0..MaxEvents
    BY <1>2, EventsAssumption DEF Asks, Grants
  <2> QED
    BY <1>0, <1>2, <2>1 DEF Asks, Become, vars, provider, rowVars, tokens, history

<1>3. ASSUME NEW r \in Requests, NEW i \in Rows, Insert(r, i) PROVE TypeOK'
  <2>1. task[r].cred \in Credentials /\ task[r].cred.grant \in Grants \union {NoGrant}
        /\ task[r].meta \in Metadata
    BY DEF Tasks, Credentials
  <2> QED
    BY <1>0, <1>3, <2>1, IdleIsTask DEF Insert, End, Become, vars, provider, rowVars, tokens,
       history

<1>4. ASSUME NEW r \in Requests, RefuseExisting(r) PROVE TypeOK'
  BY ZenonT(60), <1>0, <1>4, IdleIsTask DEF RefuseExisting, At, Become, Tasks, Locations, vars,
     provider,
     rowVars, tokens, history

<1>5. ASSUME NEW r \in Requests, CheckIfConnectionExists(r) PROVE TypeOK'
  <2>1. PICK i \in IF LiveRows = {} THEN {NoRow} ELSE LiveRows :
           Become(r, [task[r] EXCEPT !.pc = "write", !.id = i,
                                     !.stored = IF i = NoRow THEN NoMetadata ELSE meta[i]])
    BY <1>5 DEF CheckIfConnectionExists
  <2>2. i \in Rows \union {NoRow} /\ (IF i = NoRow THEN NoMetadata ELSE meta[i]) \in Metadata
    BY <2>1, EventsAssumption DEF LiveRows, Metadata, NoMetadata, Rows, NoRow
  <2>3. [task[r] EXCEPT !.pc = "write", !.id = i,
                        !.stored = IF i = NoRow THEN NoMetadata ELSE meta[i]] \in Tasks
    BY ZenonT(60), <2>2 DEF Tasks, Locations
  <2> QED
    BY <1>0, <1>5, <2>1, <2>3 DEF CheckIfConnectionExists, Become, vars, provider, rowVars,
       tokens, history

<1>6. ASSUME NEW r \in Requests, Overwrite(r) PROVE TypeOK'
  <2>1. task[r].cred \in Credentials /\ task[r].cred.grant \in Grants \union {NoGrant}
        /\ task[r].meta \in Metadata /\ task[r].stored \in Metadata
    BY DEF Tasks, Credentials
  <2> QED
    BY <1>0, <1>6, <2>1, IdleIsTask DEF Overwrite, End, Become, vars, provider, rowVars,
       tokens, history

<1>7. ASSUME NEW r \in Requests, ReadRow(r) PROVE TypeOK'
  <2>1. CASE End(r)
    BY <1>0, <1>7, <2>1, IdleIsTask DEF ReadRow, End, Become, vars, provider, rowVars, tokens,
       history
  <2>2. ASSUME NEW i \in LiveRows,
               Become(r, [task[r] EXCEPT !.pc = Then(task[r].op), !.id = i, !.cred = cred[i],
                                         !.stored = meta[i]])
        PROVE  TypeOK'
    <3>1. i \in Rows /\ Then(task[r].op) \in Locations
      BY <1>7 DEF ReadRow, HandlersFit, LiveRows, Then, Locations, At
    <3>2. [task[r] EXCEPT !.pc = Then(task[r].op), !.id = i, !.cred = cred[i],
                          !.stored = meta[i]] \in Tasks
      BY ZenonT(60), <3>1 DEF Tasks
    <3> QED
      BY <1>0, <1>7, <2>2, <3>2 DEF ReadRow, Become, vars, provider, rowVars, tokens, history
  <2> QED
    BY <1>7, <2>1, <2>2 DEF ReadRow

<1>8. ASSUME NEW r \in Requests, Decide(r) PROVE TypeOK'
  <2>1. [task[r] EXCEPT !.pc = "refresh"] \in Tasks
    BY DEF Tasks, Locations
  <2> QED
    BY <1>0, <1>8, <2>1, IdleIsTask DEF Decide, Become, vars, provider, rowVars, tokens, history

<1>9. ASSUME NEW r \in Requests, RefreshToken(r) PROVE TypeOK'
  <2> DEFINE c == task[r].cred
  <2>1. c \in Credentials /\ c.grant \in Grants /\ mode \in Refreshing
    BY <1>9 DEF RefreshToken, At, HandlersFit, GrantsFit, HasGrant, HasRead, Refreshing, Tasks
  <2>2. GetNewCredentials(c) \in Credentials
    BY <2>1, NewCredentialsFit
  <2>3. [task[r] EXCEPT !.pc = "store", !.cred = GetNewCredentials(@)] \in Tasks
    BY ZenonT(60), <2>2 DEF Tasks, Locations
  <2>4. issued' = [issued EXCEPT ![c.grant] = @ + 1]
    BY <1>9 DEF RefreshToken
  <2>5. issued' \in [Grants -> Nat]
    BY <2>1, <2>4
  <2> HIDE DEF c
  <2> QED
    BY <1>0, <1>9, <2>3, <2>5 DEF RefreshToken, Become, vars, provider, rowVars, tokens, history

<1>10. ASSUME NEW r \in Requests, RefreshFails(r) PROVE TypeOK'
  BY <1>0, <1>10, IdleIsTask DEF RefreshFails, End, Become, vars, provider, rowVars, tokens,
     history

<1>11. ASSUME NEW r \in Requests, UpdateConnection(r) PROVE TypeOK'
  <2>1. task[r].cred \in Credentials /\ task[r].stored \in Metadata
    BY DEF Tasks
  <2> QED
    BY <1>0, <1>11, <2>1, IdleIsTask DEF UpdateConnection, End, Become, vars, provider,
       rowVars, tokens, history

<1>12. ASSUME NEW r \in Requests, UpdateMetadata(r) PROVE TypeOK'
  <2>1. task[r].meta \in Metadata
    BY DEF Tasks
  <2> QED
    BY <1>0, <1>12, <2>1, IdleIsTask DEF UpdateMetadata, End, Become, vars, provider, rowVars,
       tokens, history

<1>13. ASSUME NEW r \in Requests, DeleteConnection(r) PROVE TypeOK'
  BY <1>0, <1>13, IdleIsTask DEF DeleteConnection, End, Become, vars, provider, rowVars,
     tokens, history

<1>14. ASSUME NEW r \in Requests, AnswerLost(r) PROVE TypeOK'
  <2>1. task[r].op \in Operations
    BY DEF Tasks
  <2>2. issued' \in [Grants -> Nat]
    <3>1. task[r].cred.grant \in Grants
      BY <1>14 DEF AnswerLost, At, HandlersFit, GrantsFit, HasGrant, HasRead, Refreshing
    <3> QED
      BY <1>14, <3>1 DEF AnswerLost
  <2> QED
    BY <1>0, <1>14, <2>1, <2>2, IdleIsTask DEF AnswerLost, Fails, End, Become, vars, provider,
       rowVars, tokens, history

<1>15. ASSUME NEW r \in Requests, CutShort(r) PROVE TypeOK'
  <2>1. task[r].op \in Operations
    BY DEF Tasks
  <2> QED
    BY <1>0, <1>15, <2>1, IdleIsTask DEF CutShort, Fails, End, Become, vars, provider, rowVars,
       tokens, history

<1>16. ASSUME NEW i \in Rows, Expire(i) PROVE TypeOK'
  <2>1. cred[i] \in Credentials /\ cred[i].grant \in Grants
    BY <1>16 DEF Expire, GrantsFit, HasGrant, HasRefreshTokens
  <2>2. cred[i].access \in Nat
    BY <2>1 DEF Credentials
  <2>3. expired' \subseteq Grants \X Nat
    BY <1>16, <2>1, <2>2 DEF Expire
  <2> QED
    BY <1>0, <1>16, <2>3 DEF Expire, vars, provider, rowVars, tokens, history

<1>17. CASE UNCHANGED vars
  BY <1>0, <1>17 DEF vars, vars, provider, rowVars, tokens, history

<1> HIDE DEF TypeOK
<1> QED
  BY <1>1, <1>2, <1>3, <1>4, <1>5, <1>6, <1>7, <1>8, <1>9, <1>10, <1>11, <1>12, <1>13, <1>14,
     <1>15, <1>16, <1>17, <1>0 DEF Moves, Acts

LEMMA NextHandlersFit ==
    ASSUME TypeOK, TypeOK', HandlersFit, Moves \/ UNCHANGED vars
    PROVE  HandlersFit'
<1> USE DEF tokens, Tasks, At, TypeOK, vars, provider, rowVars, Idle, history, Become
<1> USE DEF HandlersFit, Handed, HasRead
<1>1. ASSUME NEW r \in Requests, NEW t \in Tasks, Hands(r, t) PROVE HandlersFit'
  BY ZenonT(60), <1>1 DEF Hands, End, Handed, HasRead

<1>2. ASSUME NEW r \in Requests, NEW t \in Tasks, Asks(r, t) PROVE HandlersFit'
  BY ZenonT(60), <1>2 DEF Asks, End, Handed, HasRead

<1>3. ASSUME NEW r \in Requests, NEW i \in Rows, Insert(r, i) PROVE HandlersFit'
  BY <1>3 DEF Insert, End, Handed, HasRead

<1>4. ASSUME NEW r \in Requests, RefuseExisting(r) PROVE HandlersFit'
  <2>1. CASE LiveRows = {}
    BY <1>4, <2>1 DEF RefuseExisting
  <2>2. CASE ~ (LiveRows = {})
    BY <1>4, <2>2 DEF RefuseExisting
  <2> QED
    BY <2>1, <2>2

<1>5. ASSUME NEW r \in Requests, CheckIfConnectionExists(r) PROVE HandlersFit'
  BY <1>5 DEF CheckIfConnectionExists, End, Handed, HasRead

<1>6. ASSUME NEW r \in Requests, Overwrite(r) PROVE HandlersFit'
  BY <1>6 DEF Overwrite, End, Handed, HasRead

<1>7. ASSUME NEW r \in Requests, ReadRow(r) PROVE HandlersFit'
  <2>1. CASE End(r)
    BY ZenonT(60), <1>7, <2>1 DEF ReadRow, End
  <2>2. ASSUME NEW i \in LiveRows,
               Become(r, [task[r] EXCEPT !.pc = Then(task[r].op), !.id = i, !.cred = cred[i],
                                         !.stored = meta[i]])
        PROVE  HandlersFit'
    BY ZenonT(60), <1>7, <2>2 DEF ReadRow, Then, LiveRows
  <2> QED
    BY <1>7, <2>1, <2>2 DEF ReadRow

<1>8. ASSUME NEW r \in Requests, Decide(r) PROVE HandlersFit'
  <2>1. CASE ShouldRefresh(task[r])
    <3>1. mode \in Refreshing
      BY <2>1 DEF ShouldRefresh, HasRefreshTokens, Refreshing
    <3> QED
      BY <1>8, <2>1, <3>1 DEF Decide
  <2>2. CASE ~ (ShouldRefresh(task[r]))
    BY <1>8, <2>2 DEF Decide
  <2> QED
    BY <2>1, <2>2

<1>9. ASSUME NEW r \in Requests, RefreshToken(r) PROVE HandlersFit'
  BY <1>9 DEF Refreshing, RefreshToken, End, Handed, HasRead

<1>10. ASSUME NEW r \in Requests, RefreshFails(r) PROVE HandlersFit'
  BY <1>10 DEF RefreshFails, End, Handed, HasRead

<1>11. ASSUME NEW r \in Requests, UpdateConnection(r) PROVE HandlersFit'
  BY <1>11 DEF UpdateConnection, End, Handed, HasRead

<1>12. ASSUME NEW r \in Requests, UpdateMetadata(r) PROVE HandlersFit'
  BY <1>12 DEF UpdateMetadata, End, Handed, HasRead

<1>13. ASSUME NEW r \in Requests, DeleteConnection(r) PROVE HandlersFit'
  BY <1>13 DEF DeleteConnection, End, Handed, HasRead

<1>14. ASSUME NEW r \in Requests, AnswerLost(r) PROVE HandlersFit'
  BY <1>14 DEF AnswerLost, End, Handed, HasRead

<1>15. ASSUME NEW r \in Requests, CutShort(r) PROVE HandlersFit'
  BY <1>15 DEF CutShort, End, Handed, HasRead

<1>16. ASSUME NEW i \in Rows, Expire(i) PROVE HandlersFit'
  BY <1>16 DEF Expire

<1>17. CASE UNCHANGED vars
  BY <1>17

<1> HIDE DEF HandlersFit, Handed, HasRead
<1> QED
  BY <1>1, <1>2, <1>3, <1>4, <1>5, <1>6, <1>7, <1>8, <1>9, <1>10, <1>11, <1>12, <1>13, <1>14,
     <1>15, <1>16, <1>17, <1>1 DEF Moves, Acts

LEMMA NextGrantsFit ==
    ASSUME TypeOK, TypeOK', HandlersFit, GrantsFit, Moves \/ UNCHANGED vars
    PROVE  GrantsFit'
<1> USE DEF tokens, Tasks, TypeOK, vars, provider, rowVars, history, Become
<1> USE DEF GrantsFit, HasGrant, Handed, HasRead
<1>1. ASSUME NEW r \in Requests, NEW t \in Tasks, Hands(r, t) PROVE GrantsFit'
  BY <1>1 DEF Hands, NewCredentials

<1>2. ASSUME NEW r \in Requests, NEW t \in Tasks, Asks(r, t) PROVE GrantsFit'
  BY <1>2 DEF Asks, At, End, Idle

<1>3. ASSUME NEW r \in Requests, NEW i \in Rows, Insert(r, i) PROVE GrantsFit'
  BY <1>3 DEF Insert, At, End, Idle

<1>4. ASSUME NEW r \in Requests, RefuseExisting(r) PROVE GrantsFit'
  BY <1>4 DEF RefuseExisting, At, End, Idle

<1>5. ASSUME NEW r \in Requests, CheckIfConnectionExists(r) PROVE GrantsFit'
  BY <1>5 DEF CheckIfConnectionExists, At, End, Idle

<1>6. ASSUME NEW r \in Requests, Overwrite(r) PROVE GrantsFit'
  BY <1>6 DEF Overwrite, At, End, Idle

<1>7. ASSUME NEW r \in Requests, ReadRow(r) PROVE GrantsFit'
  <2>1. CASE End(r)
    BY <1>7, <2>1 DEF ReadRow, End, Idle
  <2>2. ASSUME NEW i \in LiveRows,
               Become(r, [task[r] EXCEPT !.pc = Then(task[r].op), !.id = i, !.cred = cred[i],
                                         !.stored = meta[i]])
        PROVE  GrantsFit'
    BY ZenonT(60), <1>7, <2>2 DEF ReadRow, At, Then, LiveRows
  <2> QED
    BY <1>7, <2>1, <2>2 DEF ReadRow

<1>8. ASSUME NEW r \in Requests, Decide(r) PROVE GrantsFit'
  BY <1>8 DEF Decide, At, End, Idle

<1>9. ASSUME NEW r \in Requests, RefreshToken(r) PROVE GrantsFit'
  <2>1. CASE mode = "None"
    BY <1>9, <2>1 DEF RefreshToken, At, HandlersFit, Refreshing
  <2>2. CASE mode # "None"
    <3>1. task[r].cred \in Credentials /\ task[r].cred.grant \in Grants /\ mode \in Refreshing
      BY <1>9, <2>2 DEF RefreshToken, At, HandlersFit
    <3>2. GetNewCredentials(task[r].cred).grant = task[r].cred.grant
      BY <3>1, NewCredentialsFit
    <3>3. task'[r].cred.grant \in Grants /\ \A q \in Requests \ {r} : task'[q] = task[q]
      BY <1>9, <3>1, <3>2 DEF RefreshToken
    <3> QED
      BY <1>9, <3>3 DEF RefreshToken
  <2> QED
    BY <2>1, <2>2

<1>10. ASSUME NEW r \in Requests, RefreshFails(r) PROVE GrantsFit'
  BY <1>10 DEF RefreshFails, At, End, Idle

<1>11. ASSUME NEW r \in Requests, UpdateConnection(r) PROVE GrantsFit'
  BY <1>11 DEF UpdateConnection, At, End, Idle

<1>12. ASSUME NEW r \in Requests, UpdateMetadata(r) PROVE GrantsFit'
  BY <1>12 DEF UpdateMetadata, At, End, Idle

<1>13. ASSUME NEW r \in Requests, DeleteConnection(r) PROVE GrantsFit'
  BY <1>13 DEF DeleteConnection, At, End, Idle

<1>14. ASSUME NEW r \in Requests, AnswerLost(r) PROVE GrantsFit'
  BY <1>14 DEF AnswerLost, At, End, Idle

<1>15. ASSUME NEW r \in Requests, CutShort(r) PROVE GrantsFit'
  BY <1>15 DEF CutShort, At, End, Idle

<1>16. ASSUME NEW i \in Rows, Expire(i) PROVE GrantsFit'
  BY <1>16 DEF Expire, At, End, Idle

<1>17. CASE UNCHANGED vars
  BY <1>17

<1> HIDE DEF GrantsFit, HasGrant, Handed, HasRead
<1> QED
  BY <1>1, <1>2, <1>3, <1>4, <1>5, <1>6, <1>7, <1>8, <1>9, <1>10, <1>11, <1>12, <1>13, <1>14,
     <1>15, <1>16, <1>17, <1>1 DEF Moves, Acts

\* After a step the pairs of requests under way that harm each other are in overlaps.
LEMMA Clash ==
    ASSUME Moves, NEW q \in Requests, NEW r \in Requests, q # r,
           {task'[q].op, task'[r].op} \in Harmful
    PROVE  {task'[q].op, task'[r].op} \in overlaps'
  BY DEF Moves, Clashes

LEMMA NextMeetingsKnown ==
    ASSUME TypeOK, MeetingsKnown, Moves \/ UNCHANGED vars
    PROVE  MeetingsKnown'
<1>1. CASE UNCHANGED vars
  BY <1>1 DEF vars, MeetingsKnown
<1>2. CASE Moves
  <2> SUFFICES ASSUME NEW q \in Requests, NEW r \in Requests, q # r
               PROVE  /\ task'[q].op = "authorize" /\ task'[r].op = "authorize" => {"authorize"} \in overlaps'
                      /\ task'[q].op = "get" /\ task'[r].op = "get" => {"get"} \in overlaps'
                      /\ task'[q].op = "get" /\ task'[r].op = "authorize" => {"get", "authorize"} \in overlaps'
                      /\ task'[q].op = "get" /\ task'[r].op = "setMetadata"
                            => {"get", "setMetadata"} \in overlaps'
                      /\ task'[q].op = "authorize" /\ task'[r].op = "setMetadata"
                            => {"authorize", "setMetadata"} \in overlaps'
                      /\ task'[q].op = "authorize" /\ task'[r].op = "delete"
                            => {"authorize", "delete"} \in overlaps'
    BY DEF MeetingsKnown
  <2>1. {"authorize", "authorize"} = {"authorize"} /\ {"get", "get"} = {"get"}
    OBVIOUS
  <2> QED
    BY <1>2, <2>1, Clash DEF Harmful
<1> QED
  BY <1>1, <1>2

LEMMA InitCore == Init => CoreInv
<1> SUFFICES ASSUME Init PROVE CoreInv
  OBVIOUS
<1>1. TypeOK
  <2>1. mode \in Modes /\ rotates \in BOOLEAN /\ offline \in BOOLEAN
    BY DEF Init
  <2>2. task \in [Requests -> Tasks] /\ cred \in [Rows -> Credentials]
    BY IdleIsTask DEF Init
  <2>3. 0 \in Metadata /\ begun \in 0..MaxEvents
    BY EventsAssumption DEF Init, Metadata
  <2> QED
    BY <2>1, <2>2, <2>3 DEF Init, TypeOK, NoMetadata, NoToken, NoGrant
<1>2. HandlersFit
  BY DEF Init, HandlersFit, Idle, Handed, HasRead, HasRefreshTokens
<1>3. GrantsFit
  BY DEF Init, GrantsFit, Idle, Handed, HasRead
<1>4. MeetingsKnown
  BY DEF Init, MeetingsKnown, Idle
<1> QED
  BY <1>1, <1>2, <1>3, <1>4 DEF CoreInv

LEMMA NextCore == CoreInv /\ [Next]_vars => CoreInv'
<1> SUFFICES ASSUME CoreInv, [Next]_vars PROVE CoreInv'
  OBVIOUS
<1>1. Moves \/ UNCHANGED vars
  BY NextMoves DEF CoreInv
<1>2. TypeOK'
  BY <1>1, NextTypeOK DEF CoreInv
<1> QED
  BY <1>1, <1>2, NextHandlersFit, NextGrantsFit, NextMeetingsKnown DEF CoreInv

\* Every variable keeps its type; that every live row of a provider with tokens has a
\* grant, which an expired token is named by, comes along.
THEOREM TypeCorrect == Spec => []TypeOK
<1>1. CoreInv => TypeOK
  BY DEF CoreInv
<1> QED
  BY InitCore, NextCore, <1>1, PTL DEF Spec

(***************************************************************************)
(* One row, and one there.                                                 *)
(***************************************************************************)

LEMMA NextNothingFound ==
    ASSUME CoreInv, NothingFound, Moves \/ UNCHANGED vars
    PROVE  NothingFound'
<1> USE DEF NothingFound
<1>0. overlaps \subseteq overlaps'
  BY DEF Moves, vars
<1> USE DEF CoreInv
<1>1. ASSUME NEW r \in Requests, NEW t \in Tasks, Hands(r, t) PROVE NothingFound'
  BY <1>0, <1>1 DEF Hands, At, Become, End, Idle, Tasks, TypeOK, LiveRows, vars, provider,
     rowVars, tokens, history

<1>2. ASSUME NEW r \in Requests, NEW t \in Tasks, Asks(r, t) PROVE NothingFound'
  BY <1>0, <1>2 DEF Asks, At, Become, End, Idle, Tasks, TypeOK, LiveRows, vars, provider,
     rowVars, tokens, history

<1>3. ASSUME NEW r \in Requests, NEW i \in Rows, Insert(r, i) PROVE NothingFound'
  <2> SUFFICES ASSUME {"authorize"} \notin overlaps' PROVE NothingFound'
    BY DEF NothingFound
  <2>1. LiveRows = {} /\ task[r].op = "authorize"
    BY <1>0, <1>3 DEF Insert, HandlersFit, At, Handed
  <2>2. LiveRows' = {i}
    BY <1>3, <2>1 DEF Insert, LiveRows, TypeOK
  <2>3. \A q \in Requests \ {r} : task[q].op # "authorize" /\ task'[q] = task[q]
    BY <1>0, <1>3, <2>1 DEF Insert, End, Become, MeetingsKnown, TypeOK
  <2>4. \A q \in Requests : task'[q].pc # "write"
    BY <1>3, <2>3 DEF Insert, End, Become, Idle, TypeOK, HandlersFit, Handed
  <2> QED
    BY <2>2, <2>4 DEF At

<1>4. ASSUME NEW r \in Requests, RefuseExisting(r) PROVE NothingFound'
  <2>1. CASE LiveRows = {}
    BY <1>0, <1>4, <2>1 DEF RefuseExisting, At, Become, Idle, Tasks, TypeOK, LiveRows, vars,
       provider, rowVars, tokens, history
  <2>2. CASE ~ (LiveRows = {})
    BY <1>0, <1>4, <2>2 DEF RefuseExisting, At, Become, Idle, Tasks, TypeOK, LiveRows, vars,
       provider, rowVars, tokens, history
  <2> QED
    BY <2>1, <2>2

<1>5. ASSUME NEW r \in Requests, CheckIfConnectionExists(r) PROVE NothingFound'
  <2>1. PICK i \in IF LiveRows = {} THEN {NoRow} ELSE LiveRows :
           Become(r, [task[r] EXCEPT !.pc = "write", !.id = i,
                                     !.stored = IF i = NoRow THEN NoMetadata ELSE meta[i]])
    BY <1>5 DEF CheckIfConnectionExists
  <2>2. i = NoRow => LiveRows = {}
    BY <2>1 DEF LiveRows, Rows, NoRow
  <2> QED
    BY <1>0, <1>5, <2>1, <2>2 DEF CheckIfConnectionExists, At, Become, Tasks, TypeOK, LiveRows,
       vars, provider, rowVars, tokens, history

<1>6. ASSUME NEW r \in Requests, Overwrite(r) PROVE NothingFound'
  BY <1>0, <1>6 DEF Overwrite, At, Become, End, Idle, Tasks, TypeOK, LiveRows, vars, provider,
     rowVars, tokens, history

<1>7. ASSUME NEW r \in Requests, ReadRow(r) PROVE NothingFound'
  <2>1. CASE End(r)
    BY <1>0, <1>7, <2>1 DEF ReadRow, At, End, Become, Idle, Tasks, TypeOK, LiveRows, vars,
       provider, rowVars, tokens, history
  <2>2. ASSUME NEW i \in LiveRows,
               Become(r, [task[r] EXCEPT !.pc = Then(task[r].op), !.id = i, !.cred = cred[i],
                                         !.stored = meta[i]])
        PROVE  NothingFound'
    <3>1. Then(task[r].op) \in {"decide", "update", "remove"}
          /\ (Then(task[r].op) = "decide" => task[r].op = "get")
      BY <1>7 DEF ReadRow, At, Then, HandlersFit
    <3>2. /\ task'[r].pc = Then(task[r].op) /\ task'[r].id = i /\ task'[r].cred = cred[i]
          /\ task'[r].stored = meta[i] /\ task'[r].op = task[r].op
          /\ \A q \in Requests \ {r} : task'[q] = task[q]
      BY <2>2 DEF Become, Tasks, TypeOK
    <3>3. /\ UNCHANGED <<provider, rowVars, tokens, begun, history, failed>>
          /\ task[r].pc = "read" /\ i \in Rows /\ row[i] = "live" /\ LiveRows' = LiveRows
      BY <1>7 DEF ReadRow, At, LiveRows, rowVars
    <3> QED
      BY <1>0, <3>1, <3>2, <3>3 DEF At,  vars, provider, rowVars, tokens, history
  <2> QED
    BY <1>7, <2>1, <2>2 DEF ReadRow

<1>8. ASSUME NEW r \in Requests, Decide(r) PROVE NothingFound'
  <2>1. CASE ShouldRefresh(task[r])
    BY <1>0, <1>8, <2>1 DEF Decide, At, Become, Idle, Tasks, TypeOK, LiveRows, vars, provider,
       rowVars, tokens, history
  <2>2. CASE ~ (ShouldRefresh(task[r]))
    BY <1>0, <1>8, <2>2 DEF Decide, At, Become, Idle, Tasks, TypeOK, LiveRows, vars, provider,
       rowVars, tokens, history
  <2> QED
    BY <2>1, <2>2

<1>9. ASSUME NEW r \in Requests, RefreshToken(r) PROVE NothingFound'
  BY <1>0, <1>9 DEF RefreshToken, At, Become, End, Idle, Tasks, TypeOK, LiveRows, vars,
     provider, rowVars, tokens, history

<1>10. ASSUME NEW r \in Requests, RefreshFails(r) PROVE NothingFound'
  BY <1>0, <1>10 DEF RefreshFails, At, Become, End, Idle, Tasks, TypeOK, LiveRows, vars,
     provider, rowVars, tokens, history

<1>11. ASSUME NEW r \in Requests, UpdateConnection(r) PROVE NothingFound'
  BY <1>0, <1>11 DEF UpdateConnection, At, Become, End, Idle, Tasks, TypeOK, LiveRows, vars,
     provider, rowVars, tokens, history

<1>12. ASSUME NEW r \in Requests, UpdateMetadata(r) PROVE NothingFound'
  BY <1>0, <1>12 DEF UpdateMetadata, At, Become, End, Idle, Tasks, TypeOK, LiveRows, vars,
     provider, rowVars, tokens, history

<1>13. ASSUME NEW r \in Requests, DeleteConnection(r) PROVE NothingFound'
  BY <1>0, <1>13 DEF DeleteConnection, At, Become, End, Idle, Tasks, TypeOK, LiveRows, vars,
     provider, rowVars, tokens, history

<1>14. ASSUME NEW r \in Requests, AnswerLost(r) PROVE NothingFound'
  BY <1>0, <1>14 DEF AnswerLost, At, Become, End, Idle, Tasks, TypeOK, LiveRows, vars,
     provider, rowVars, tokens, history

<1>15. ASSUME NEW r \in Requests, CutShort(r) PROVE NothingFound'
  BY <1>0, <1>15 DEF CutShort, At, Become, End, Idle, Tasks, TypeOK, LiveRows, vars, provider,
     rowVars, tokens, history

<1>16. ASSUME NEW i \in Rows, Expire(i) PROVE NothingFound'
  BY <1>0, <1>16 DEF Expire, At, Become, End, Idle, Tasks, TypeOK, LiveRows, vars, provider,
     rowVars, tokens, history

<1>17. CASE UNCHANGED vars
  BY <1>17 DEF vars, LiveRows, At, vars, provider, rowVars, tokens, history

<1> HIDE DEF NothingFound
<1> QED
  BY <1>1, <1>2, <1>3, <1>4, <1>5, <1>6, <1>7, <1>8, <1>9, <1>10, <1>11, <1>12, <1>13, <1>14,
     <1>15, <1>16, <1>17, <1>0 DEF Moves, Acts

LEMMA NextFoundIsLive ==
    ASSUME CoreInv, FoundIsLive, Moves \/ UNCHANGED vars
    PROVE  FoundIsLive'
<1> USE DEF FoundIsLive
<1>0. overlaps \subseteq overlaps'
  BY DEF Moves, vars
<1> USE DEF CoreInv
<1>1. ASSUME NEW r \in Requests, NEW t \in Tasks, Hands(r, t) PROVE FoundIsLive'
  BY <1>0, <1>1 DEF Hands, At, Become, End, Idle, Tasks, TypeOK, LiveRows, vars, provider,
     rowVars, tokens, history

<1>2. ASSUME NEW r \in Requests, NEW t \in Tasks, Asks(r, t) PROVE FoundIsLive'
  BY <1>0, <1>2 DEF Asks, At, Become, End, Idle, Tasks, TypeOK, LiveRows, vars, provider,
     rowVars, tokens, history

<1>3. ASSUME NEW r \in Requests, NEW i \in Rows, Insert(r, i) PROVE FoundIsLive'
  BY <1>0, <1>3 DEF Insert, At, Become, End, Idle, Tasks, TypeOK, LiveRows, vars, provider,
     rowVars, tokens, history

<1>4. ASSUME NEW r \in Requests, RefuseExisting(r) PROVE FoundIsLive'
  <2>1. CASE LiveRows = {}
    BY <1>0, <1>4, <2>1 DEF RefuseExisting, At, Become, Idle, Tasks, TypeOK, LiveRows, vars,
       provider, rowVars, tokens, history
  <2>2. CASE ~ (LiveRows = {})
    BY <1>0, <1>4, <2>2 DEF RefuseExisting, At, Become, Idle, Tasks, TypeOK, LiveRows, vars,
       provider, rowVars, tokens, history
  <2> QED
    BY <2>1, <2>2

<1>5. ASSUME NEW r \in Requests, CheckIfConnectionExists(r) PROVE FoundIsLive'
  <2>1. PICK i \in IF LiveRows = {} THEN {NoRow} ELSE LiveRows :
           Become(r, [task[r] EXCEPT !.pc = "write", !.id = i,
                                     !.stored = IF i = NoRow THEN NoMetadata ELSE meta[i]])
    BY <1>5 DEF CheckIfConnectionExists
  <2>2. i # NoRow => i \in LiveRows
    BY <2>1
  <2> QED
    BY <1>0, <1>5, <2>1, <2>2 DEF CheckIfConnectionExists, At, Become, Tasks, TypeOK, LiveRows,
       vars, provider, rowVars, tokens, history

<1>6. ASSUME NEW r \in Requests, Overwrite(r) PROVE FoundIsLive'
  BY <1>0, <1>6 DEF Overwrite, At, Become, End, Idle, Tasks, TypeOK, LiveRows, vars, provider,
     rowVars, tokens, history

<1>7. ASSUME NEW r \in Requests, ReadRow(r) PROVE FoundIsLive'
  <2>1. CASE End(r)
    BY <1>0, <1>7, <2>1 DEF ReadRow, At, End, Become, Idle, Tasks, TypeOK, LiveRows, vars,
       provider, rowVars, tokens, history
  <2>2. ASSUME NEW i \in LiveRows,
               Become(r, [task[r] EXCEPT !.pc = Then(task[r].op), !.id = i, !.cred = cred[i],
                                         !.stored = meta[i]])
        PROVE  FoundIsLive'
    <3>1. Then(task[r].op) \in {"decide", "update", "remove"}
          /\ (Then(task[r].op) = "decide" => task[r].op = "get")
      BY <1>7 DEF ReadRow, At, Then, HandlersFit
    <3>2. /\ task'[r].pc = Then(task[r].op) /\ task'[r].id = i /\ task'[r].cred = cred[i]
          /\ task'[r].stored = meta[i] /\ task'[r].op = task[r].op
          /\ \A q \in Requests \ {r} : task'[q] = task[q]
      BY <2>2 DEF Become, Tasks, TypeOK
    <3>3. /\ UNCHANGED <<provider, rowVars, tokens, begun, history, failed>>
          /\ task[r].pc = "read" /\ i \in Rows /\ row[i] = "live" /\ LiveRows' = LiveRows
      BY <1>7 DEF ReadRow, At, LiveRows, rowVars
    <3> QED
      BY <1>0, <3>1, <3>2, <3>3 DEF At,  vars, provider, rowVars, tokens, history
  <2> QED
    BY <1>7, <2>1, <2>2 DEF ReadRow

<1>8. ASSUME NEW r \in Requests, Decide(r) PROVE FoundIsLive'
  <2>1. CASE ShouldRefresh(task[r])
    BY <1>0, <1>8, <2>1 DEF Decide, At, Become, Idle, Tasks, TypeOK, LiveRows, vars, provider,
       rowVars, tokens, history
  <2>2. CASE ~ (ShouldRefresh(task[r]))
    BY <1>0, <1>8, <2>2 DEF Decide, At, Become, Idle, Tasks, TypeOK, LiveRows, vars, provider,
       rowVars, tokens, history
  <2> QED
    BY <2>1, <2>2

<1>9. ASSUME NEW r \in Requests, RefreshToken(r) PROVE FoundIsLive'
  BY <1>0, <1>9 DEF RefreshToken, At, Become, End, Idle, Tasks, TypeOK, LiveRows, vars,
     provider, rowVars, tokens, history

<1>10. ASSUME NEW r \in Requests, RefreshFails(r) PROVE FoundIsLive'
  BY <1>0, <1>10 DEF RefreshFails, At, Become, End, Idle, Tasks, TypeOK, LiveRows, vars,
     provider, rowVars, tokens, history

<1>11. ASSUME NEW r \in Requests, UpdateConnection(r) PROVE FoundIsLive'
  BY <1>0, <1>11 DEF UpdateConnection, At, Become, End, Idle, Tasks, TypeOK, LiveRows, vars,
     provider, rowVars, tokens, history

<1>12. ASSUME NEW r \in Requests, UpdateMetadata(r) PROVE FoundIsLive'
  BY <1>0, <1>12 DEF UpdateMetadata, At, Become, End, Idle, Tasks, TypeOK, LiveRows, vars,
     provider, rowVars, tokens, history

<1>13. ASSUME NEW r \in Requests, DeleteConnection(r) PROVE FoundIsLive'
  <2> SUFFICES ASSUME {"authorize", "delete"} \notin overlaps' PROVE FoundIsLive'
    BY DEF FoundIsLive
  <2>1. task[r].op = "delete" /\ \A q \in Requests \ {r} : task'[q] = task[q] /\ task[q].op # "authorize"
    BY <1>0, <1>13 DEF DeleteConnection, At, End, Become, HandlersFit, MeetingsKnown, TypeOK
  <2>2. \A q \in Requests : task'[q].pc # "write"
    BY <1>13, <2>1 DEF DeleteConnection, End, Become, Idle, TypeOK, HandlersFit, Handed
  <2> QED
    BY <1>13, <2>2 DEF DeleteConnection, At

<1>14. ASSUME NEW r \in Requests, AnswerLost(r) PROVE FoundIsLive'
  BY <1>0, <1>14 DEF AnswerLost, At, Become, End, Idle, Tasks, TypeOK, LiveRows, vars,
     provider, rowVars, tokens, history

<1>15. ASSUME NEW r \in Requests, CutShort(r) PROVE FoundIsLive'
  BY <1>0, <1>15 DEF CutShort, At, Become, End, Idle, Tasks, TypeOK, LiveRows, vars, provider,
     rowVars, tokens, history

<1>16. ASSUME NEW i \in Rows, Expire(i) PROVE FoundIsLive'
  BY <1>0, <1>16 DEF Expire, At, Become, End, Idle, Tasks, TypeOK, LiveRows, vars, provider,
     rowVars, tokens, history

<1>17. CASE UNCHANGED vars
  BY <1>17 DEF vars, LiveRows, At, vars, provider, rowVars, tokens, history

<1> HIDE DEF FoundIsLive
<1> QED
  BY <1>1, <1>2, <1>3, <1>4, <1>5, <1>6, <1>7, <1>8, <1>9, <1>10, <1>11, <1>12, <1>13, <1>14,
     <1>15, <1>16, <1>17, <1>0 DEF Moves, Acts

LEMMA AtMostOne ==
    ASSUME NEW S, \A i, j \in S : i = j
    PROVE  Cardinality(S) <= 1
<1>1. CASE S = {}
  BY <1>1, FS_EmptySet
<1>2. ASSUME NEW x \in S PROVE Cardinality(S) <= 1
  <2>1. S = {x}
    OBVIOUS
  <2> QED
    BY <2>1, FS_Singleton
<1> QED
  BY <1>1, <1>2

LEMMA InitRest ==
    Init => /\ NothingFound /\ FoundIsLive /\ StoredIsWanted /\ ReadIsNewest
            /\ GrantsApart /\ TokensHeld /\ NewestHeldOnce /\ RowsKeepUp /\ ReadKeepsUp
<1> SUFFICES ASSUME Init
             PROVE  /\ NothingFound /\ FoundIsLive /\ StoredIsWanted /\ ReadIsNewest
                    /\ GrantsApart /\ TokensHeld /\ NewestHeldOnce /\ RowsKeepUp /\ ReadKeepsUp
  OBVIOUS
<1>1. LiveRows = {}
  BY DEF Init, LiveRows
<1>2. \A r \in Requests : task[r] = Idle
  BY DEF Init
<1>3. NothingFound /\ FoundIsLive
  BY <1>1, <1>2 DEF Init, NothingFound, FoundIsLive, At, Idle
<1>4. StoredIsWanted /\ ReadIsNewest
  BY <1>1, <1>2 DEF StoredIsWanted, ReadIsNewest
<1>5. GrantsApart
  BY <1>2 DEF Init, GrantsApart, Idle, NoCredentials, NoGrant
<1>6. TokensHeld /\ NewestHeldOnce
  BY <1>2 DEF Init, TokensHeld, NewestHeldOnce, Idle, NoCredentials, NoGrant, NoToken, Rightful,
     Issued, Grants
<1>7. RowsKeepUp /\ ReadKeepsUp
  BY <1>1, <1>2 DEF RowsKeepUp, ReadKeepsUp, Idle
<1> QED
  BY <1>3, <1>4, <1>5, <1>6, <1>7

\* A connection has one row, unless two authorisations of it met; and it has one as
\* long as nobody has deleted it, unless the authorisation met the deletion of the row
\* that it was to overwrite: what checkIfConnectionExists has found holds when the
\* statement that relies on it runs.
THEOREM ConnectionIsOne == Spec => []OneConnection
<1> DEFINE Inv == CoreInv /\ NothingFound /\ FoundIsLive
<1>1. Init => Inv
  BY InitCore, InitRest
<1>2. Inv /\ [Next]_vars => Inv'
  <2> SUFFICES ASSUME Inv, [Next]_vars PROVE Inv'
    OBVIOUS
  <2>1. Moves \/ UNCHANGED vars
    BY NextMoves DEF CoreInv
  <2> QED
    BY <2>1, NextCore, NextNothingFound, NextFoundIsLive
<1>3. Inv => OneConnection
  <2> SUFFICES ASSUME NothingFound, FoundIsLive PROVE OneConnection
    OBVIOUS
  <2>1. OneLiveRow
    BY AtMostOne DEF NothingFound, OneLiveRow
  <2>2. AuthorizedConnectionExists
    BY DEF FoundIsLive, AuthorizedConnectionExists
  <2> QED
    BY <2>1, <2>2 DEF OneConnection
<1> QED
  BY <1>1, <1>2, <1>3, PTL DEF Spec

(***************************************************************************)
(* What was written last is kept.                                          *)
(***************************************************************************)

LEMMA NextStoredIsWanted ==
    ASSUME CoreInv, StoredIsWanted, Moves \/ UNCHANGED vars
    PROVE  StoredIsWanted'
<1> USE DEF StoredIsWanted, HasRead
<1>0. overlaps \subseteq overlaps'
  BY DEF Moves, vars
<1> USE DEF CoreInv
<1>1. ASSUME NEW r \in Requests, NEW t \in Tasks, Hands(r, t) PROVE StoredIsWanted'
  BY <1>0, <1>1 DEF Hands, At, Become, End, Idle, Tasks, TypeOK, LiveRows, vars, provider,
     rowVars, tokens, history

<1>2. ASSUME NEW r \in Requests, NEW t \in Tasks, Asks(r, t) PROVE StoredIsWanted'
  BY <1>0, <1>2 DEF Asks, At, Become, End, Idle, Tasks, TypeOK, LiveRows, vars, provider,
     rowVars, tokens, history

<1>3. ASSUME NEW r \in Requests, NEW i \in Rows, Insert(r, i) PROVE StoredIsWanted'
  <2> SUFFICES ASSUME overlaps' \intersect MetaOverlaps = {} PROVE StoredIsWanted'
    BY DEF StoredIsWanted
  <2>1. overlaps \intersect MetaOverlaps = {} /\ task[r].op = "authorize"
    BY <1>0, <1>3 DEF Insert, At, HandlersFit, Handed
  <2>2. \A q \in Requests \ {r} :
           task'[q] = task[q] /\ task[q].pc \notin HasRead \union {"write"}
    BY <1>3, <2>1 DEF Insert, End, Become, MeetingsKnown, MetaOverlaps, HandlersFit, TypeOK,
       Handed, HasRead
  <2>3. task'[r].pc = "idle"
    BY <1>3 DEF Insert, End, Become, Idle, TypeOK
  <2>4. \A j \in LiveRows' : j = i \/ j \in LiveRows
    BY <1>3 DEF Insert, LiveRows, TypeOK
  <2>5. \A j \in LiveRows' : meta'[j] = wanted'[j]
    BY <1>3, <2>1, <2>4 DEF Insert, LiveRows, TypeOK, StoredIsWanted
  <2>6. \A q \in Requests : task'[q].pc \notin HasRead \union {"write"}
    BY <2>2, <2>3 DEF HasRead
  <2> QED
    BY <2>5, <2>6

<1>4. ASSUME NEW r \in Requests, RefuseExisting(r) PROVE StoredIsWanted'
  <2>1. CASE LiveRows = {}
    BY <1>0, <1>4, <2>1 DEF RefuseExisting, At, Become, Idle, Tasks, TypeOK, LiveRows, vars,
       provider, rowVars, tokens, history
  <2>2. CASE ~ (LiveRows = {})
    BY <1>0, <1>4, <2>2 DEF RefuseExisting, At, Become, Idle, Tasks, TypeOK, LiveRows, vars,
       provider, rowVars, tokens, history
  <2> QED
    BY <2>1, <2>2

<1>5. ASSUME NEW r \in Requests, CheckIfConnectionExists(r) PROVE StoredIsWanted'
  <2>1. PICK i \in IF LiveRows = {} THEN {NoRow} ELSE LiveRows :
           Become(r, [task[r] EXCEPT !.pc = "write", !.id = i,
                                     !.stored = IF i = NoRow THEN NoMetadata ELSE meta[i]])
    BY <1>5 DEF CheckIfConnectionExists
  <2>2. i # NoRow => i \in LiveRows
    BY <2>1
  <2>3. /\ task'[r].pc = "write" /\ task'[r].id = i /\ task'[r].cred = task[r].cred
        /\ task'[r].stored = (IF i = NoRow THEN NoMetadata ELSE meta[i])
        /\ task'[r].op = task[r].op /\ task[r].op = "authorize" /\ NoRow \notin Rows
        /\ \A q \in Requests \ {r} : task'[q] = task[q]
    <3>1. task[r].pc = "exists" /\ task[r].op = "authorize" /\ NoRow \notin Rows
      BY <1>5 DEF CheckIfConnectionExists, At, HandlersFit, Handed, Rows, NoRow
    <3> QED
      BY <2>1, <3>1 DEF Become, Tasks, TypeOK
  <2> QED
    BY <1>0, <1>5, <2>2, <2>3 DEF CheckIfConnectionExists, LiveRows,  vars, provider, rowVars,
       tokens, history

<1>6. ASSUME NEW r \in Requests, Overwrite(r) PROVE StoredIsWanted'
  <2> SUFFICES ASSUME overlaps' \intersect MetaOverlaps = {} PROVE StoredIsWanted'
    BY DEF StoredIsWanted
  <2>1. /\ overlaps \intersect MetaOverlaps = {} /\ task[r].op = "authorize"
        /\ task[r].pc = "write" /\ LiveRows' = LiveRows
    BY <1>0, <1>6 DEF Overwrite, At, HandlersFit, Handed, LiveRows
  <2>2. \A q \in Requests \ {r} :
           task'[q] = task[q] /\ task[q].pc \notin HasRead \union {"write"}
    BY <1>6, <2>1 DEF Overwrite, End, Become, MeetingsKnown, MetaOverlaps, HandlersFit, TypeOK,
       Handed, HasRead
  <2>3. task'[r].pc = "idle"
    BY <1>6 DEF Overwrite, End, Become, Idle, TypeOK
  <2>4. task[r].id \in LiveRows => task[r].stored = wanted[task[r].id]
    BY <2>1 DEF StoredIsWanted, HasRead
  <2>5. \A j \in LiveRows : meta[j] = wanted[j]
    BY <2>1 DEF StoredIsWanted
  <2>6. \A j \in LiveRows : meta'[j] = wanted'[j]
    BY <1>6, <2>4, <2>5 DEF Overwrite, LiveRows, TypeOK
  <2>7. \A q \in Requests : task'[q].pc \notin HasRead \union {"write"}
    BY <2>2, <2>3 DEF HasRead
  <2> QED
    BY <2>1, <2>6, <2>7

<1>7. ASSUME NEW r \in Requests, ReadRow(r) PROVE StoredIsWanted'
  <2>1. CASE End(r)
    BY <1>0, <1>7, <2>1 DEF ReadRow, At, End, Become, Idle, Tasks, TypeOK, LiveRows, vars,
       provider, rowVars, tokens, history
  <2>2. ASSUME NEW i \in LiveRows,
               Become(r, [task[r] EXCEPT !.pc = Then(task[r].op), !.id = i, !.cred = cred[i],
                                         !.stored = meta[i]])
        PROVE  StoredIsWanted'
    <3>1. Then(task[r].op) \in {"decide", "update", "remove"}
          /\ (Then(task[r].op) = "decide" => task[r].op = "get")
      BY <1>7 DEF ReadRow, At, Then, HandlersFit
    <3>2. /\ task'[r].pc = Then(task[r].op) /\ task'[r].id = i /\ task'[r].cred = cred[i]
          /\ task'[r].stored = meta[i] /\ task'[r].op = task[r].op
          /\ \A q \in Requests \ {r} : task'[q] = task[q]
      BY <2>2 DEF Become, Tasks, TypeOK
    <3>3. /\ UNCHANGED <<provider, rowVars, tokens, begun, history, failed>>
          /\ task[r].pc = "read" /\ i \in Rows /\ row[i] = "live" /\ LiveRows' = LiveRows
      BY <1>7 DEF ReadRow, At, LiveRows, rowVars
    <3> QED
      BY <1>0, <3>1, <3>2, <3>3 DEF At,  vars, provider, rowVars, tokens, history
  <2> QED
    BY <1>7, <2>1, <2>2 DEF ReadRow

<1>8. ASSUME NEW r \in Requests, Decide(r) PROVE StoredIsWanted'
  <2>1. CASE ShouldRefresh(task[r])
    BY <1>0, <1>8, <2>1 DEF Decide, At, Become, Idle, Tasks, TypeOK, LiveRows, vars, provider,
       rowVars, tokens, history
  <2>2. CASE ~ (ShouldRefresh(task[r]))
    BY <1>0, <1>8, <2>2 DEF Decide, At, Become, Idle, Tasks, TypeOK, LiveRows, vars, provider,
       rowVars, tokens, history
  <2> QED
    BY <2>1, <2>2

<1>9. ASSUME NEW r \in Requests, RefreshToken(r) PROVE StoredIsWanted'
  <2>1. /\ task'[r].pc = "store" /\ task'[r].id = task[r].id /\ task'[r].stored = task[r].stored
        /\ task[r].pc = "refresh" /\ \A q \in Requests \ {r} : task'[q] = task[q]
    BY <1>9 DEF RefreshToken, At, Become, Tasks, TypeOK
  <2> QED
    BY <1>0, <1>9, <2>1 DEF RefreshToken, LiveRows, vars, provider, rowVars, tokens, history

<1>10. ASSUME NEW r \in Requests, RefreshFails(r) PROVE StoredIsWanted'
  BY <1>0, <1>10 DEF RefreshFails, At, Become, End, Idle, Tasks, TypeOK, LiveRows, vars,
     provider, rowVars, tokens, history

<1>11. ASSUME NEW r \in Requests, UpdateConnection(r) PROVE StoredIsWanted'
  <2> SUFFICES ASSUME overlaps' \intersect MetaOverlaps = {} PROVE StoredIsWanted'
    BY DEF StoredIsWanted
  <2>1. /\ overlaps \intersect MetaOverlaps = {} /\ LiveRows' = LiveRows /\ wanted' = wanted
        /\ task[r].pc = "store"
    BY <1>0, <1>11 DEF UpdateConnection, At, LiveRows, history
  <2>2. \A j \in LiveRows : meta'[j] = wanted[j]
    <3>1. task[r].id \in LiveRows => task[r].stored = wanted[task[r].id]
      BY <2>1 DEF StoredIsWanted, HasRead
    <3>2. \A j \in LiveRows : meta[j] = wanted[j]
      BY <2>1 DEF StoredIsWanted
    <3> QED
      BY <1>11, <3>1, <3>2 DEF UpdateConnection, LiveRows, TypeOK
  <2>3. \A q \in Requests : task'[q] = task[q] \/ task'[q].pc = "idle"
    BY <1>11 DEF UpdateConnection, End, Become, Idle, TypeOK
  <2>4. \A q \in Requests : task'[q].pc \in HasRead \union {"write"} => task'[q] = task[q]
    BY <2>3 DEF HasRead
  <2> QED
    BY <2>1, <2>2, <2>4 DEF StoredIsWanted

<1>12. ASSUME NEW r \in Requests, UpdateMetadata(r) PROVE StoredIsWanted'
  <2> SUFFICES ASSUME overlaps' \intersect MetaOverlaps = {} PROVE StoredIsWanted'
    BY DEF StoredIsWanted
  <2>1. /\ overlaps \intersect MetaOverlaps = {} /\ task[r].op = "setMetadata"
        /\ LiveRows' = LiveRows
    BY <1>0, <1>12 DEF UpdateMetadata, At, HandlersFit, LiveRows
  <2>2. \A q \in Requests \ {r} :
           task'[q] = task[q] /\ task[q].pc \notin HasRead \union {"write"}
    BY <1>12, <2>1 DEF UpdateMetadata, End, Become, MeetingsKnown, MetaOverlaps, HandlersFit,
       TypeOK, Handed, HasRead
  <2>3. task'[r].pc = "idle"
    BY <1>12 DEF UpdateMetadata, End, Become, Idle, TypeOK
  <2>4. \A j \in LiveRows : meta'[j] = wanted'[j]
    BY <1>12, <2>1 DEF UpdateMetadata, LiveRows, TypeOK, StoredIsWanted
  <2>5. \A q \in Requests : task'[q].pc \notin HasRead \union {"write"}
    BY <2>2, <2>3 DEF HasRead
  <2> QED
    BY <2>1, <2>4, <2>5

<1>13. ASSUME NEW r \in Requests, DeleteConnection(r) PROVE StoredIsWanted'
  BY <1>0, <1>13 DEF DeleteConnection, At, Become, End, Idle, Tasks, TypeOK, LiveRows, vars,
     provider, rowVars, tokens, history

<1>14. ASSUME NEW r \in Requests, AnswerLost(r) PROVE StoredIsWanted'
  BY <1>0, <1>14 DEF AnswerLost, At, Become, End, Idle, Tasks, TypeOK, LiveRows, vars,
     provider, rowVars, tokens, history

<1>15. ASSUME NEW r \in Requests, CutShort(r) PROVE StoredIsWanted'
  BY <1>0, <1>15 DEF CutShort, At, Become, End, Idle, Tasks, TypeOK, LiveRows, vars, provider,
     rowVars, tokens, history

<1>16. ASSUME NEW i \in Rows, Expire(i) PROVE StoredIsWanted'
  BY <1>0, <1>16 DEF Expire, At, Become, End, Idle, Tasks, TypeOK, LiveRows, vars, provider,
     rowVars, tokens, history

<1>17. CASE UNCHANGED vars
  BY <1>17 DEF vars, LiveRows, At, vars, provider, rowVars, tokens, history

<1> HIDE DEF StoredIsWanted, HasRead
<1> QED
  BY <1>1, <1>2, <1>3, <1>4, <1>5, <1>6, <1>7, <1>8, <1>9, <1>10, <1>11, <1>12, <1>13, <1>14,
     <1>15, <1>16, <1>17, <1>0 DEF Moves, Acts

LEMMA NextReadIsNewest ==
    ASSUME CoreInv, ReadIsNewest, Moves \/ UNCHANGED vars
    PROVE  ReadIsNewest'
<1> USE DEF ReadIsNewest, HasRead
<1>0. overlaps \subseteq overlaps'
  BY DEF Moves, vars
<1> USE DEF CoreInv
<1>1. ASSUME NEW r \in Requests, NEW t \in Tasks, Hands(r, t) PROVE ReadIsNewest'
  BY <1>0, <1>1 DEF Hands, At, Become, End, Idle, Tasks, TypeOK, LiveRows, vars, provider,
     rowVars, tokens, history

<1>2. ASSUME NEW r \in Requests, NEW t \in Tasks, Asks(r, t) PROVE ReadIsNewest'
  BY <1>0, <1>2 DEF Asks, At, Become, End, Idle, Tasks, TypeOK, LiveRows, vars, provider,
     rowVars, tokens, history

<1>3. ASSUME NEW r \in Requests, NEW i \in Rows, Insert(r, i) PROVE ReadIsNewest'
  <2> SUFFICES ASSUME {"get", "authorize"} \notin overlaps' PROVE ReadIsNewest'
    BY DEF ReadIsNewest
  <2>1. {"get", "authorize"} \notin overlaps /\ task[r].op = "authorize"
    BY <1>0, <1>3 DEF Insert, At, HandlersFit, Handed
  <2>2. \A q \in Requests \ {r} : task'[q] = task[q] /\ task[q].pc \notin HasRead
    BY <1>3, <2>1 DEF Insert, End, Become, MeetingsKnown, HandlersFit, TypeOK, HasRead
  <2>3. task'[r].pc = "idle"
    BY <1>3 DEF Insert, End, Become, Idle, TypeOK
  <2>4. \A j \in LiveRows' : j = i \/ j \in LiveRows
    BY <1>3 DEF Insert, LiveRows, TypeOK
  <2>5. \A j \in LiveRows' : cred'[j].grant = newest'[j]
    BY <1>3, <2>1, <2>4 DEF Insert, LiveRows, TypeOK, ReadIsNewest
  <2>6. \A q \in Requests : task'[q].pc \notin HasRead
    BY <2>2, <2>3 DEF HasRead
  <2> QED
    BY <2>5, <2>6

<1>4. ASSUME NEW r \in Requests, RefuseExisting(r) PROVE ReadIsNewest'
  <2>1. CASE LiveRows = {}
    BY <1>0, <1>4, <2>1 DEF RefuseExisting, At, Become, Idle, Tasks, TypeOK, LiveRows, vars,
       provider, rowVars, tokens, history
  <2>2. CASE ~ (LiveRows = {})
    BY <1>0, <1>4, <2>2 DEF RefuseExisting, At, Become, Idle, Tasks, TypeOK, LiveRows, vars,
       provider, rowVars, tokens, history
  <2> QED
    BY <2>1, <2>2

<1>5. ASSUME NEW r \in Requests, CheckIfConnectionExists(r) PROVE ReadIsNewest'
  <2>1. PICK i \in IF LiveRows = {} THEN {NoRow} ELSE LiveRows :
           Become(r, [task[r] EXCEPT !.pc = "write", !.id = i,
                                     !.stored = IF i = NoRow THEN NoMetadata ELSE meta[i]])
    BY <1>5 DEF CheckIfConnectionExists
  <2>2. i # NoRow => i \in LiveRows
    BY <2>1
  <2>3. /\ task'[r].pc = "write" /\ task'[r].id = i /\ task'[r].cred = task[r].cred
        /\ task'[r].stored = (IF i = NoRow THEN NoMetadata ELSE meta[i])
        /\ task'[r].op = task[r].op /\ task[r].op = "authorize" /\ NoRow \notin Rows
        /\ \A q \in Requests \ {r} : task'[q] = task[q]
    <3>1. task[r].pc = "exists" /\ task[r].op = "authorize" /\ NoRow \notin Rows
      BY <1>5 DEF CheckIfConnectionExists, At, HandlersFit, Handed, Rows, NoRow
    <3> QED
      BY <2>1, <3>1 DEF Become, Tasks, TypeOK
  <2> QED
    BY <1>0, <1>5, <2>2, <2>3 DEF CheckIfConnectionExists, LiveRows,  vars, provider, rowVars,
       tokens, history

<1>6. ASSUME NEW r \in Requests, Overwrite(r) PROVE ReadIsNewest'
  <2> SUFFICES ASSUME {"get", "authorize"} \notin overlaps' PROVE ReadIsNewest'
    BY DEF ReadIsNewest
  <2>1. {"get", "authorize"} \notin overlaps /\ task[r].op = "authorize" /\ LiveRows' = LiveRows
    BY <1>0, <1>6 DEF Overwrite, At, HandlersFit, Handed, LiveRows
  <2>2. \A q \in Requests \ {r} : task'[q] = task[q] /\ task[q].pc \notin HasRead
    BY <1>6, <2>1 DEF Overwrite, End, Become, MeetingsKnown, HandlersFit, TypeOK, HasRead
  <2>3. task'[r].pc = "idle"
    BY <1>6 DEF Overwrite, End, Become, Idle, TypeOK
  <2>4. \A j \in LiveRows : cred'[j].grant = newest'[j]
    BY <1>6, <2>1 DEF Overwrite, LiveRows, TypeOK, ReadIsNewest
  <2>5. \A q \in Requests : task'[q].pc \notin HasRead
    BY <2>2, <2>3 DEF HasRead
  <2> QED
    BY <2>1, <2>4, <2>5

<1>7. ASSUME NEW r \in Requests, ReadRow(r) PROVE ReadIsNewest'
  <2>1. CASE End(r)
    BY <1>0, <1>7, <2>1 DEF ReadRow, At, End, Become, Idle, Tasks, TypeOK, LiveRows, vars,
       provider, rowVars, tokens, history
  <2>2. ASSUME NEW i \in LiveRows,
               Become(r, [task[r] EXCEPT !.pc = Then(task[r].op), !.id = i, !.cred = cred[i],
                                         !.stored = meta[i]])
        PROVE  ReadIsNewest'
    <3>1. Then(task[r].op) \in {"decide", "update", "remove"}
          /\ (Then(task[r].op) = "decide" => task[r].op = "get")
      BY <1>7 DEF ReadRow, At, Then, HandlersFit
    <3>2. /\ task'[r].pc = Then(task[r].op) /\ task'[r].id = i /\ task'[r].cred = cred[i]
          /\ task'[r].stored = meta[i] /\ task'[r].op = task[r].op
          /\ \A q \in Requests \ {r} : task'[q] = task[q]
      BY <2>2 DEF Become, Tasks, TypeOK
    <3>3. /\ UNCHANGED <<provider, rowVars, tokens, begun, history, failed>>
          /\ task[r].pc = "read" /\ i \in Rows /\ row[i] = "live" /\ LiveRows' = LiveRows
      BY <1>7 DEF ReadRow, At, LiveRows, rowVars
    <3> QED
      BY <1>0, <3>1, <3>2, <3>3 DEF At,  vars, provider, rowVars, tokens, history
  <2> QED
    BY <1>7, <2>1, <2>2 DEF ReadRow

<1>8. ASSUME NEW r \in Requests, Decide(r) PROVE ReadIsNewest'
  <2>1. CASE ShouldRefresh(task[r])
    BY <1>0, <1>8, <2>1 DEF Decide, At, Become, Idle, Tasks, TypeOK, LiveRows, vars, provider,
       rowVars, tokens, history
  <2>2. CASE ~ (ShouldRefresh(task[r]))
    BY <1>0, <1>8, <2>2 DEF Decide, At, Become, Idle, Tasks, TypeOK, LiveRows, vars, provider,
       rowVars, tokens, history
  <2> QED
    BY <2>1, <2>2

<1>9. ASSUME NEW r \in Requests, RefreshToken(r) PROVE ReadIsNewest'
  <2>1. CASE mode = "None"
    BY <1>9, <2>1 DEF RefreshToken, At, HandlersFit, Refreshing
  <2>2. CASE mode # "None"
    <3>1. task[r].cred \in Credentials /\ task[r].cred.grant \in Grants /\ mode \in Refreshing
      BY <1>9, <2>2 DEF RefreshToken, At, HandlersFit, GrantsFit, HasGrant, HasRead, TypeOK,
         Tasks
    <3>2. GetNewCredentials(task[r].cred).grant = task[r].cred.grant
      BY <3>1, NewCredentialsFit
    <3>3. /\ task'[r].pc = "store" /\ task'[r].id = task[r].id /\ task[r].pc = "refresh"
          /\ task'[r].cred.grant = task[r].cred.grant
          /\ \A q \in Requests \ {r} : task'[q] = task[q]
      BY <1>9, <3>2 DEF RefreshToken, At, Become, Tasks, TypeOK
    <3> QED
      BY <1>0, <1>9, <3>3 DEF RefreshToken, LiveRows, vars, provider, rowVars, tokens, history
  <2> QED
    BY <2>1, <2>2

<1>10. ASSUME NEW r \in Requests, RefreshFails(r) PROVE ReadIsNewest'
  BY <1>0, <1>10 DEF RefreshFails, At, Become, End, Idle, Tasks, TypeOK, LiveRows, vars,
     provider, rowVars, tokens, history

<1>11. ASSUME NEW r \in Requests, UpdateConnection(r) PROVE ReadIsNewest'
  <2> SUFFICES ASSUME {"get", "authorize"} \notin overlaps' PROVE ReadIsNewest'
    BY DEF ReadIsNewest
  <2>1. /\ {"get", "authorize"} \notin overlaps /\ LiveRows' = LiveRows /\ newest' = newest
        /\ task[r].pc = "store"
    BY <1>0, <1>11 DEF UpdateConnection, At, LiveRows, history
  <2>2. \A j \in LiveRows : cred'[j].grant = newest[j]
    <3>1. task[r].id \in LiveRows => task[r].cred.grant = newest[task[r].id]
      BY <2>1 DEF ReadIsNewest, HasRead
    <3>2. \A j \in LiveRows : cred[j].grant = newest[j]
      BY <2>1 DEF ReadIsNewest
    <3> QED
      BY <1>11, <3>1, <3>2 DEF UpdateConnection, LiveRows, TypeOK
  <2>3. \A q \in Requests : task'[q] = task[q] \/ task'[q].pc = "idle"
    BY <1>11 DEF UpdateConnection, End, Become, Idle, TypeOK
  <2>4. \A q \in Requests : task'[q].pc \in HasRead => task'[q] = task[q]
    BY <2>3 DEF HasRead
  <2> QED
    BY <2>1, <2>2, <2>4 DEF ReadIsNewest

<1>12. ASSUME NEW r \in Requests, UpdateMetadata(r) PROVE ReadIsNewest'
  BY <1>0, <1>12 DEF UpdateMetadata, At, Become, End, Idle, Tasks, TypeOK, LiveRows, vars,
     provider, rowVars, tokens, history

<1>13. ASSUME NEW r \in Requests, DeleteConnection(r) PROVE ReadIsNewest'
  BY <1>0, <1>13 DEF DeleteConnection, At, Become, End, Idle, Tasks, TypeOK, LiveRows, vars,
     provider, rowVars, tokens, history

<1>14. ASSUME NEW r \in Requests, AnswerLost(r) PROVE ReadIsNewest'
  BY <1>0, <1>14 DEF AnswerLost, At, Become, End, Idle, Tasks, TypeOK, LiveRows, vars,
     provider, rowVars, tokens, history

<1>15. ASSUME NEW r \in Requests, CutShort(r) PROVE ReadIsNewest'
  BY <1>0, <1>15 DEF CutShort, At, Become, End, Idle, Tasks, TypeOK, LiveRows, vars, provider,
     rowVars, tokens, history

<1>16. ASSUME NEW i \in Rows, Expire(i) PROVE ReadIsNewest'
  BY <1>0, <1>16 DEF Expire, At, Become, End, Idle, Tasks, TypeOK, LiveRows, vars, provider,
     rowVars, tokens, history

<1>17. CASE UNCHANGED vars
  BY <1>17 DEF vars, LiveRows, At, vars, provider, rowVars, tokens, history

<1> HIDE DEF ReadIsNewest, HasRead
<1> QED
  BY <1>1, <1>2, <1>3, <1>4, <1>5, <1>6, <1>7, <1>8, <1>9, <1>10, <1>11, <1>12, <1>13, <1>14,
     <1>15, <1>16, <1>17, <1>0 DEF Moves, Acts

\* What the customer wrote last, and the grant of the last authorisation, is what the
\* row has, unless one of the meetings that MetadataKept and LatestGrantKept name has
\* happened: refreshes and new authorisations put back what they read, however many of
\* them run, and that is what was there.
THEOREM LastWriteIsKept == Spec => []ChangesKept
<1> DEFINE Inv == CoreInv /\ StoredIsWanted /\ ReadIsNewest
<1>1. Init => Inv
  BY InitCore, InitRest
<1>2. Inv /\ [Next]_vars => Inv'
  <2> SUFFICES ASSUME Inv, [Next]_vars PROVE Inv'
    OBVIOUS
  <2>1. Moves \/ UNCHANGED vars
    BY NextMoves DEF CoreInv
  <2> QED
    BY <2>1, NextCore, NextStoredIsWanted, NextReadIsNewest
<1>3. Inv => ChangesKept
  BY DEF StoredIsWanted, MetaOverlaps, ReadIsNewest, ChangesKept, MetadataKept, LatestGrantKept
<1> QED
  BY <1>1, <1>2, <1>3, PTL DEF Spec

(***************************************************************************)
(* The provider accepts what is kept.                                      *)
(***************************************************************************)

LEMMA NextGrantsApart ==
    ASSUME CoreInv, GrantsApart, Moves \/ UNCHANGED vars
    PROVE  GrantsApart'
<1> USE DEF GrantsApart
<1>0. overlaps \subseteq overlaps'
  BY DEF Moves, vars
<1> USE DEF CoreInv
<1>1. ASSUME NEW r \in Requests, NEW t \in Tasks, Hands(r, t) PROVE GrantsApart'
  <2>1. /\ task'[r].cred.grant = begun + 1 \/ task'[r].cred.grant = NoGrant
        /\ task'[r].op = "authorize" /\ begun' = begun + 1 /\ cred' = cred
        /\ \A q \in Requests \ {r} : task'[q] = task[q]
    BY <1>1 DEF Hands, Become, NewCredentials, NoCredentials, TypeOK, rowVars
  <2>2. /\ begun \in Nat
        /\ \A i \in Rows : cred[i].grant \in Nat
        /\ \A q \in Requests : task[q].cred.grant \in Nat
    BY DEF TypeOK, Tasks, Credentials, Grants, NoGrant
  <2> QED
    BY <2>1, <2>2 DEF NoGrant

<1>2. ASSUME NEW r \in Requests, NEW t \in Tasks, Asks(r, t) PROVE GrantsApart'
  <2>1. /\ task'[r].cred.grant = NoGrant /\ begun' = begun + 1 /\ cred' = cred
        /\ \A q \in Requests \ {r} : task'[q] = task[q]
    BY <1>2 DEF Asks, Become, NoCredentials, TypeOK, rowVars
  <2>2. /\ begun \in Nat
        /\ \A i \in Rows : cred[i].grant \in Nat
        /\ \A q \in Requests : task[q].cred.grant \in Nat
    BY DEF TypeOK, Tasks, Credentials, Grants, NoGrant
  <2> QED
    BY <2>1, <2>2 DEF NoGrant

<1>3. ASSUME NEW r \in Requests, NEW i \in Rows, Insert(r, i) PROVE GrantsApart'
  <2>1. /\ task[r].op = "authorize" /\ begun' = begun /\ begun \in Nat
        /\ cred' = [cred EXCEPT ![i] = task[r].cred]
        /\ task'[r].cred.grant = NoGrant /\ \A q \in Requests \ {r} : task'[q] = task[q]
    BY <1>3 DEF Insert, At, End, Become, Idle, NoCredentials, HandlersFit, Handed, TypeOK
  <2>2. \A j \in Rows : cred'[j] = IF j = i THEN task[r].cred ELSE cred[j]
    BY <2>1 DEF TypeOK
  <2>3. NoGrant <= begun
    BY <2>1 DEF NoGrant
  <2> QED
    BY <2>1, <2>2, <2>3

<1>4. ASSUME NEW r \in Requests, RefuseExisting(r) PROVE GrantsApart'
  <2>1. /\ task'[r].cred.grant = NoGrant \/ (task'[r].cred = task[r].cred /\ task'[r].id = task[r].id
                                               /\ task'[r].op = task[r].op)
        /\ \A q \in Requests \ {r} : task'[q] = task[q]
    BY <1>4 DEF RefuseExisting, At, Become, End, Idle, NoCredentials, Tasks, TypeOK
  <2>2. cred' = cred /\ begun' = begun /\ begun \in Nat /\ NoGrant <= begun
    BY <1>4 DEF RefuseExisting, rowVars, TypeOK, NoGrant
  <2> QED
    BY <2>1, <2>2

<1>5. ASSUME NEW r \in Requests, CheckIfConnectionExists(r) PROVE GrantsApart'
  <2>1. PICK i \in IF LiveRows = {} THEN {NoRow} ELSE LiveRows :
           Become(r, [task[r] EXCEPT !.pc = "write", !.id = i,
                                     !.stored = IF i = NoRow THEN NoMetadata ELSE meta[i]])
    BY <1>5 DEF CheckIfConnectionExists
  <2>2. i # NoRow => i \in LiveRows
    BY <2>1
  <2>3. /\ task'[r].pc = "write" /\ task'[r].id = i /\ task'[r].cred = task[r].cred
        /\ task'[r].stored = (IF i = NoRow THEN NoMetadata ELSE meta[i])
        /\ task'[r].op = task[r].op /\ task[r].op = "authorize" /\ NoRow \notin Rows
        /\ \A q \in Requests \ {r} : task'[q] = task[q]
    <3>1. task[r].pc = "exists" /\ task[r].op = "authorize" /\ NoRow \notin Rows
      BY <1>5 DEF CheckIfConnectionExists, At, HandlersFit, Handed, Rows, NoRow
    <3> QED
      BY <2>1, <3>1 DEF Become, Tasks, TypeOK
  <2> QED
    BY <1>0, <1>5, <2>2, <2>3 DEF CheckIfConnectionExists, LiveRows,  vars, provider, rowVars,
       tokens, history

<1>6. ASSUME NEW r \in Requests, Overwrite(r) PROVE GrantsApart'
  <2>1. /\ task[r].op = "authorize" /\ begun' = begun /\ begun \in Nat
        /\ task'[r].cred.grant = NoGrant /\ \A q \in Requests \ {r} : task'[q] = task[q]
    BY <1>6 DEF Overwrite, At, End, Become, Idle, NoCredentials, HandlersFit, Handed, TypeOK
  <2>2. \/ cred' = cred
        \/ \A j \in Rows : cred'[j] = IF j = task[r].id THEN task[r].cred ELSE cred[j]
    BY <1>6 DEF Overwrite, TypeOK
  <2>3. NoGrant <= begun
    BY <2>1 DEF NoGrant
  <2>4. CASE cred' = cred
    BY <2>1, <2>3, <2>4
  <2>5. CASE \A j \in Rows : cred'[j] = IF j = task[r].id THEN task[r].cred ELSE cred[j]
    BY <2>1, <2>3, <2>5
  <2> QED
    BY <2>2, <2>4, <2>5

<1>7. ASSUME NEW r \in Requests, ReadRow(r) PROVE GrantsApart'
  <2>0. UNCHANGED <<provider, rowVars, tokens, begun, history, failed>> /\ task[r].pc = "read"
    BY <1>7 DEF ReadRow, At
  <2>1. CASE End(r)
    <3>1. task'[r].cred.grant = NoGrant /\ \A q \in Requests \ {r} : task'[q] = task[q]
      BY <2>1 DEF End, Become, Idle, NoCredentials, TypeOK
    <3>2. begun \in Nat /\ NoGrant <= begun
      BY DEF TypeOK, NoGrant
    <3> QED
      BY <2>0, <3>1, <3>2 DEF rowVars
  <2>2. ASSUME NEW i \in LiveRows,
               Become(r, [task[r] EXCEPT !.pc = Then(task[r].op), !.id = i, !.cred = cred[i],
                                         !.stored = meta[i]])
        PROVE  GrantsApart'
    <3>1. /\ i \in Rows /\ task'[r].id = i /\ task'[r].cred = cred[i] /\ task'[r].op = task[r].op
          /\ \A q \in Requests \ {r} : task'[q] = task[q]
      BY <2>2 DEF Become, Tasks, TypeOK, LiveRows
    <3>2. task[r].op # "authorize"
      BY <2>0 DEF HandlersFit
    <3> QED
      BY <2>0, <3>1, <3>2 DEF rowVars
  <2> QED
    BY <1>7, <2>1, <2>2 DEF ReadRow

<1>8. ASSUME NEW r \in Requests, Decide(r) PROVE GrantsApart'
  <2>1. /\ task'[r].cred.grant = NoGrant \/ (task'[r].cred = task[r].cred /\ task'[r].id = task[r].id
                                               /\ task'[r].op = task[r].op)
        /\ \A q \in Requests \ {r} : task'[q] = task[q]
    BY <1>8 DEF Decide, At, Become, End, Idle, NoCredentials, Tasks, TypeOK
  <2>2. cred' = cred /\ begun' = begun /\ begun \in Nat /\ NoGrant <= begun
    BY <1>8 DEF Decide, rowVars, TypeOK, NoGrant
  <2> QED
    BY <2>1, <2>2

<1>9. ASSUME NEW r \in Requests, RefreshToken(r) PROVE GrantsApart'
  <2>0. mode \in Refreshing /\ mode # "None"
    BY <1>9 DEF RefreshToken, At, HandlersFit, Refreshing
  <2>1. task[r].cred \in Credentials /\ task[r].cred.grant \in Grants
    BY <1>9, <2>0 DEF RefreshToken, At, GrantsFit, HasGrant, HasRead, TypeOK, Tasks
  <2>2. /\ GetNewCredentials(task[r].cred).grant = task[r].cred.grant
        /\ rotates => GetNewCredentials(task[r].cred).refresh = issued[task[r].cred.grant] + 1
    BY <2>0, <2>1, NewCredentialsFit
  <2>3. /\ task'[r].pc = "store" /\ task'[r].id = task[r].id /\ task'[r].op = task[r].op
        /\ task[r].pc = "refresh" /\ task[r].op = "get"
        /\ task'[r].cred.grant = task[r].cred.grant
        /\ rotates => task'[r].cred.refresh = issued[task[r].cred.grant] + 1
        /\ \A q \in Requests \ {r} : task'[q] = task[q]
    BY <1>9, <2>2 DEF RefreshToken, At, Become, Tasks, TypeOK, HandlersFit, HasRead
  <2>4. cred' = cred /\ begun' = begun
    BY <1>9 DEF RefreshToken, rowVars
  <2> QED
    BY <2>3, <2>4

<1>10. ASSUME NEW r \in Requests, RefreshFails(r) PROVE GrantsApart'
  <2>1. /\ task'[r].cred.grant = NoGrant \/ (task'[r].cred = task[r].cred /\ task'[r].id = task[r].id
                                               /\ task'[r].op = task[r].op)
        /\ \A q \in Requests \ {r} : task'[q] = task[q]
    BY <1>10 DEF RefreshFails, At, Become, End, Idle, NoCredentials, Tasks, TypeOK
  <2>2. cred' = cred /\ begun' = begun /\ begun \in Nat /\ NoGrant <= begun
    BY <1>10 DEF RefreshFails, rowVars, TypeOK, NoGrant
  <2> QED
    BY <2>1, <2>2

<1>11. ASSUME NEW r \in Requests, UpdateConnection(r) PROVE GrantsApart'
  <2>1. /\ task[r].op = "get" /\ begun' = begun /\ begun \in Nat
        /\ task'[r].cred.grant = NoGrant /\ \A q \in Requests \ {r} : task'[q] = task[q]
    BY <1>11 DEF UpdateConnection, At, End, Become, Idle, NoCredentials, HandlersFit, HasRead,
       TypeOK
  <2>2. \/ cred' = cred
        \/ \A j \in Rows : cred'[j] = IF j = task[r].id THEN task[r].cred ELSE cred[j]
    BY <1>11 DEF UpdateConnection, TypeOK
  <2>3. NoGrant <= begun
    BY <2>1 DEF NoGrant
  <2>4. CASE cred' = cred
    BY <2>1, <2>3, <2>4
  <2>5. CASE \A j \in Rows : cred'[j] = IF j = task[r].id THEN task[r].cred ELSE cred[j]
    BY <2>1, <2>3, <2>5
  <2> QED
    BY <2>2, <2>4, <2>5

<1>12. ASSUME NEW r \in Requests, UpdateMetadata(r) PROVE GrantsApart'
  <2>1. /\ task'[r].cred.grant = NoGrant \/ (task'[r].cred = task[r].cred /\ task'[r].id = task[r].id
                                               /\ task'[r].op = task[r].op)
        /\ \A q \in Requests \ {r} : task'[q] = task[q]
    BY <1>12 DEF UpdateMetadata, At, Become, End, Idle, NoCredentials, Tasks, TypeOK
  <2>2. cred' = cred /\ begun' = begun /\ begun \in Nat /\ NoGrant <= begun
    BY <1>12 DEF UpdateMetadata, rowVars, TypeOK, NoGrant
  <2> QED
    BY <2>1, <2>2

<1>13. ASSUME NEW r \in Requests, DeleteConnection(r) PROVE GrantsApart'
  <2>1. /\ task'[r].cred.grant = NoGrant \/ (task'[r].cred = task[r].cred /\ task'[r].id = task[r].id
                                               /\ task'[r].op = task[r].op)
        /\ \A q \in Requests \ {r} : task'[q] = task[q]
    BY <1>13 DEF DeleteConnection, At, Become, End, Idle, NoCredentials, Tasks, TypeOK
  <2>2. cred' = cred /\ begun' = begun /\ begun \in Nat /\ NoGrant <= begun
    BY <1>13 DEF DeleteConnection, rowVars, TypeOK, NoGrant
  <2> QED
    BY <2>1, <2>2

<1>14. ASSUME NEW r \in Requests, AnswerLost(r) PROVE GrantsApart'
  <2>1. /\ task'[r].cred.grant = NoGrant \/ (task'[r].cred = task[r].cred /\ task'[r].id = task[r].id
                                               /\ task'[r].op = task[r].op)
        /\ \A q \in Requests \ {r} : task'[q] = task[q]
    BY <1>14 DEF AnswerLost, At, Become, End, Idle, NoCredentials, Tasks, TypeOK
  <2>2. cred' = cred /\ begun' = begun /\ begun \in Nat /\ NoGrant <= begun
    BY <1>14 DEF AnswerLost, rowVars, TypeOK, NoGrant
  <2> QED
    BY <2>1, <2>2

<1>15. ASSUME NEW r \in Requests, CutShort(r) PROVE GrantsApart'
  <2>1. /\ task'[r].cred.grant = NoGrant \/ (task'[r].cred = task[r].cred /\ task'[r].id = task[r].id
                                               /\ task'[r].op = task[r].op)
        /\ \A q \in Requests \ {r} : task'[q] = task[q]
    BY <1>15 DEF CutShort, At, Become, End, Idle, NoCredentials, Tasks, TypeOK
  <2>2. cred' = cred /\ begun' = begun /\ begun \in Nat /\ NoGrant <= begun
    BY <1>15 DEF CutShort, rowVars, TypeOK, NoGrant
  <2> QED
    BY <2>1, <2>2

<1>16. ASSUME NEW i \in Rows, Expire(i) PROVE GrantsApart'
  BY <1>16 DEF Expire, vars, provider, rowVars, tokens, history

<1>17. CASE UNCHANGED vars
  BY <1>17 DEF vars, LiveRows, At, vars, provider, rowVars, tokens, history

<1> HIDE DEF GrantsApart
<1> QED
  BY <1>1, <1>2, <1>3, <1>4, <1>5, <1>6, <1>7, <1>8, <1>9, <1>10, <1>11, <1>12, <1>13, <1>14,
     <1>15, <1>16, <1>17, <1>0 DEF Moves, Acts

\* The steps that write no row and no token of it.
Quiet(r) ==
    \/ RefuseExisting(r) \/ CheckIfConnectionExists(r) \/ Decide(r) \/ RefreshFails(r)
    \/ UpdateMetadata(r) \/ DeleteConnection(r) \/ CutShort(r)

LEMMA QuietSteps ==
    ASSUME CoreInv, NEW r \in Requests, Quiet(r)
    PROVE  /\ \A q \in Requests \ {r} : task'[q] = task[q]
           /\ UNCHANGED <<provider, cred, issued, begun>>
           /\ \A i \in Rows : row'[i] = "live" => row[i] = "live"
           /\ \/ task'[r] = Idle /\ (task[r].pc = "store" => "get" \in failed')
              \/ /\ task'[r].cred = task[r].cred /\ task'[r].op = task[r].op
                 /\ task'[r].pc \in {"exists", "write"} /\ task[r].pc \in {"import", "exists"}
              \/ /\ task'[r].cred = task[r].cred /\ task'[r].op = task[r].op
                 /\ task'[r].pc = "refresh" /\ task[r].pc = "decide"
                 /\ rotates => task[r].cred.refresh # NoToken
<1> USE DEF CoreInv
<1>1. CASE RefuseExisting(r)
  BY <1>1 DEF RefuseExisting, At, Become, Tasks, TypeOK, Idle, rowVars, tokens
<1>2. CASE CheckIfConnectionExists(r)
  BY <1>2 DEF CheckIfConnectionExists, At, Become, Tasks, TypeOK, rowVars, tokens
<1>3. CASE Decide(r)
  <2>1. CASE ShouldRefresh(task[r])
    <3>1. rotates => task[r].cred.refresh # NoToken
      BY <2>1 DEF ShouldRefresh, HandlersFit, HasRefreshTokens
    <3> QED
      BY <1>3, <2>1, <3>1 DEF Decide, At, Become, Tasks, TypeOK, rowVars, tokens
  <2>2. CASE ~ ShouldRefresh(task[r])
    BY <1>3, <2>2 DEF Decide, At, Become, TypeOK, rowVars, tokens
  <2> QED
    BY <2>1, <2>2
<1>4. CASE RefreshFails(r)
  BY <1>4 DEF RefreshFails, At, End, Become, TypeOK, rowVars, tokens
<1>5. CASE UpdateMetadata(r)
  BY <1>5 DEF UpdateMetadata, At, End, Become, TypeOK, tokens
<1>6. CASE DeleteConnection(r)
  BY <1>6 DEF DeleteConnection, At, End, Become, TypeOK, tokens, LiveRows
<1>7. CASE CutShort(r)
  <2>1. task[r].pc = "store" => task[r].op = "get"
    BY DEF HandlersFit, HasRead
  <2> QED
    BY <1>7, <2>1 DEF CutShort, Fails, End, Become, TypeOK, rowVars, tokens
<1> QED
  BY <1>1, <1>2, <1>3, <1>4, <1>5, <1>6, <1>7 DEF Quiet

\* The statements that write a row end the handler.
Writes(r) == (\E i \in Rows : Insert(r, i)) \/ Overwrite(r) \/ UpdateConnection(r)

LEMMA WriteSteps ==
    ASSUME CoreInv, NEW r \in Requests, Writes(r)
    PROVE  /\ \A q \in Requests \ {r} : task'[q] = task[q]
           /\ UNCHANGED <<provider, issued, begun>> /\ task'[r] = Idle
           /\ \/ cred' = cred
              \/ \E k \in Rows : \A j \in Rows :
                    cred'[j] = IF j = k THEN task[r].cred ELSE cred[j]
<1> USE DEF CoreInv
<1>1. ASSUME NEW i \in Rows, Insert(r, i)
      PROVE  /\ \A q \in Requests \ {r} : task'[q] = task[q]
             /\ UNCHANGED <<provider, issued, begun>> /\ task'[r] = Idle
             /\ \A j \in Rows : cred'[j] = IF j = i THEN task[r].cred ELSE cred[j]
  BY <1>1 DEF Insert, End, Become, TypeOK, tokens
<1>2. ASSUME Overwrite(r) \/ UpdateConnection(r)
      PROVE  /\ \A q \in Requests \ {r} : task'[q] = task[q]
             /\ UNCHANGED <<provider, issued, begun>> /\ task'[r] = Idle
             /\ \/ cred' = cred
                \/ task[r].id \in Rows /\ \A j \in Rows :
                      cred'[j] = IF j = task[r].id THEN task[r].cred ELSE cred[j]
  <2>1. CASE Overwrite(r)
    <3>1. task[r].id \in Rows
      BY <2>1 DEF Overwrite, TypeOK, Tasks
    <3> QED
      BY <2>1, <3>1 DEF Overwrite, End, Become, TypeOK, tokens
  <2>2. CASE UpdateConnection(r)
    <3>1. task[r].id \in Rows
      BY <2>2 DEF UpdateConnection, At, HandlersFit, HasRead
    <3> QED
      BY <2>2, <3>1 DEF UpdateConnection, End, Become, TypeOK, tokens
  <2> QED
    BY <1>2, <2>1, <2>2
<1> QED
  BY <1>1, <1>2 DEF Writes

\* A read takes over what the row has.
LEMMA ReadSteps ==
    ASSUME CoreInv, NEW r \in Requests, ReadRow(r)
    PROVE  /\ \A q \in Requests \ {r} : task'[q] = task[q]
           /\ UNCHANGED <<provider, rowVars, tokens, begun, failed>>
           /\ task[r].pc = "read"
           /\ \/ task'[r] = Idle
              \/ \E i \in LiveRows :
                    /\ task'[r].cred = cred[i] /\ task'[r].op = task[r].op
                    /\ task[r].op # "authorize"
                    /\ task'[r].pc \in {"decide", "update", "remove"}
                    /\ task'[r].pc = "decide" => task[r].op = "get"
<1> USE DEF CoreInv
<1>1. UNCHANGED <<provider, rowVars, tokens, begun, failed>> /\ task[r].pc = "read"
  BY DEF ReadRow, At
<1>2. CASE End(r)
  BY <1>1, <1>2 DEF End, Become, TypeOK
<1>3. ASSUME NEW i \in LiveRows,
             Become(r, [task[r] EXCEPT !.pc = Then(task[r].op), !.id = i, !.cred = cred[i],
                                       !.stored = meta[i]])
      PROVE  /\ task'[r].cred = cred[i] /\ task'[r].op = task[r].op
             /\ task[r].op # "authorize"
             /\ task'[r].pc \in {"decide", "update", "remove"}
             /\ task'[r].pc = "decide" => task[r].op = "get"
             /\ \A q \in Requests \ {r} : task'[q] = task[q]
  <2>1. /\ Then(task[r].op) \in {"decide", "update", "remove"} /\ task[r].op # "authorize"
        /\ Then(task[r].op) = "decide" => task[r].op = "get"
    BY <1>1 DEF Then, HandlersFit
  <2> QED
    BY <1>3, <2>1 DEF Become, TypeOK, Tasks
<1> QED
  BY <1>1, <1>2, <1>3 DEF ReadRow

\* A refresh uses up the token it is made with, if the provider rotates them.
LEMMA RefreshSteps ==
    ASSUME CoreInv, NEW r \in Requests, RefreshToken(r) \/ AnswerLost(r)
    PROVE  /\ \A q \in Requests \ {r} : task'[q] = task[q]
           /\ UNCHANGED <<provider, rowVars, begun>>
           /\ task[r].pc = "refresh" /\ task[r].op = "get" /\ task[r].cred.grant \in Grants
           /\ rotates => Newest(task[r].cred)
           /\ \A g \in Grants :
                 issued'[g] = IF g = task[r].cred.grant THEN issued[g] + 1 ELSE issued[g]
           /\ \/ task'[r] = Idle /\ "get" \in failed'
              \/ /\ task'[r].cred.grant = task[r].cred.grant /\ task'[r].op = "get"
                 /\ task'[r].pc = "store" /\ task'[r].id = task[r].id
                 /\ rotates => task'[r].cred.refresh = issued[task[r].cred.grant] + 1
<1> USE DEF CoreInv
<1>1. mode \in Refreshing /\ mode # "None" /\ task[r].pc = "refresh" /\ task[r].op = "get"
  BY DEF RefreshToken, AnswerLost, At, HandlersFit, Refreshing, HasRead
<1>2. task[r].cred \in Credentials /\ task[r].cred.grant \in Grants
  BY <1>1 DEF GrantsFit, HasGrant, HasRead, TypeOK, Tasks
<1>3. /\ GetNewCredentials(task[r].cred).grant = task[r].cred.grant
      /\ rotates => GetNewCredentials(task[r].cred).refresh = issued[task[r].cred.grant] + 1
  BY <1>1, <1>2, NewCredentialsFit
<1>4. \A g \in Grants :
         issued'[g] = IF g = task[r].cred.grant THEN issued[g] + 1 ELSE issued[g]
  BY <1>2 DEF RefreshToken, AnswerLost, TypeOK
<1>5. (rotates => Newest(task[r].cred)) /\ UNCHANGED <<provider, rowVars, begun>>
  BY DEF RefreshToken, AnswerLost, Accepted, Newest
<1>6. CASE RefreshToken(r)
  <2>1. /\ task'[r].pc = "store" /\ task'[r].id = task[r].id /\ task'[r].op = task[r].op
        /\ task'[r].cred = GetNewCredentials(task[r].cred)
        /\ \A q \in Requests \ {r} : task'[q] = task[q]
    BY <1>6 DEF RefreshToken, Become, Tasks, TypeOK
  <2> QED
    BY <1>1, <1>2, <1>3, <1>4, <1>5, <2>1
<1>7. CASE AnswerLost(r)
  BY <1>1, <1>2, <1>4, <1>5, <1>7 DEF AnswerLost, Fails, End, Become, TypeOK
<1> QED
  BY <1>6, <1>7

\* The numbers that the next lemmas compare.
LEMMA Numbers ==
    ASSUME TypeOK
    PROVE  /\ begun \in Nat /\ issued \in [Grants -> Nat]
           /\ \A i \in Rows : cred[i].grant \in Nat /\ cred[i].refresh \in Nat
           /\ \A r \in Requests : task[r].cred.grant \in Nat /\ task[r].cred.refresh \in Nat
           /\ \A i \in Rows : cred[i].grant # NoGrant => cred[i].grant \in Grants
           /\ \A r \in Requests : task[r].cred.grant # NoGrant => task[r].cred.grant \in Grants
  BY DEF TypeOK, Tasks, Credentials, Grants, NoGrant

LEMMA NextTokensHeld ==
    ASSUME CoreInv, GrantsApart, TokensHeld, Moves \/ UNCHANGED vars
    PROVE  TokensHeld'
<1>0. overlaps \subseteq overlaps'
  BY DEF Moves, vars
<1> USE DEF TokensHeld, Rightful, Issued, Newest
<1>1. ASSUME NEW r \in Requests, NEW t \in Tasks, Hands(r, t) PROVE TokensHeld'
  <2> SUFFICES ASSUME rotates' PROVE TokensHeld'
    OBVIOUS
  <2>1. /\ rotates /\ cred' = cred /\ begun + 1 \in Grants
        /\ task'[r].cred = NewCredentials(begun + 1) /\ task'[r].pc \in {"import", "exists"}
        /\ \A q \in Requests \ {r} : task'[q] = task[q]
        /\ \A g \in Grants : issued'[g] = IF g = begun + 1 THEN 1 ELSE issued[g]
    BY <1>1 DEF Hands, Become, CoreInv, TypeOK, provider, rowVars
  <2>2. /\ task'[r].cred.refresh \in {1, NoToken}
        /\ task'[r].cred.refresh = 1 => task'[r].cred.grant = begun + 1
        /\ task'[r].cred.grant \in {begun + 1, NoGrant}
    BY <2>1 DEF NewCredentials, NoCredentials, NoToken
  <2>3. begun + 1 # NoGrant /\ NoGrant \notin Grants /\ NoToken = 0
    BY <2>1 DEF NoGrant, Grants, NoToken
  <2>4. \A g \in Grants : g <= begun => issued'[g] = issued[g]
    BY <2>1, Numbers DEF CoreInv, Grants
  <2>5. \A i \in Rows : Rightful(cred[i])'
    BY <2>1, <2>4 DEF GrantsApart
  <2>6. \A q \in Requests \ {r} :
           /\ Rightful(task[q].cred)'
           /\ (task'[q].op = "authorize" /\ task'[q].cred.refresh # NoToken)
                 => task'[q].cred.refresh = issued'[task'[q].cred.grant]
           /\ task'[q].pc \in {"refresh", "store"} => task'[q].cred.refresh # NoToken
    <3> TAKE q \in Requests \ {r}
    <3>1. task'[q] = task[q] /\ task[q].cred.grant <= begun
      BY <2>1 DEF GrantsApart
    <3>2. task[q].cred.grant \in Grants \/ task[q].cred.grant = NoGrant
      BY Numbers DEF CoreInv
    <3> QED
      BY <2>1, <2>4, <3>1, <3>2
  <2>7. /\ Rightful(task[r].cred)'
        /\ task'[r].cred.refresh # NoToken => task'[r].cred.refresh = issued'[task'[r].cred.grant]
    BY <2>1, <2>2, <2>3
  <2> QED
    BY <2>1, <2>5, <2>6, <2>7
<1>2. ASSUME NEW r \in Requests, NEW t \in Tasks, Asks(r, t) PROVE TokensHeld'
  <2>1. /\ task'[r].cred = NoCredentials /\ task'[r].pc = "read"
        /\ \A q \in Requests \ {r} : task'[q] = task[q] /\ UNCHANGED <<cred, issued, rotates>>
    BY <1>2 DEF Asks, Become, CoreInv, TypeOK, provider, rowVars, tokens
  <2>2. NoCredentials.grant \notin Grants /\ NoCredentials.refresh = NoToken
    BY DEF NoCredentials, Grants, NoGrant
  <2>3. UNCHANGED <<cred, issued, rotates>>
    BY <1>2 DEF Asks, provider, rowVars, tokens
  <2> QED
    BY <2>1, <2>2, <2>3
<1>3. ASSUME NEW r \in Requests, Writes(r) PROVE TokensHeld'
  <2>1. NoCredentials.grant \notin Grants /\ NoCredentials.refresh = NoToken
    BY DEF NoCredentials, Grants, NoGrant
  <2>2. Idle.cred = NoCredentials /\ Idle.pc = "idle" /\ Idle.op = "idle"
    BY DEF Idle
  <2> QED
    BY ZenonT(60), <1>3, <2>1, <2>2, WriteSteps DEF provider
<1>4. ASSUME NEW r \in Requests, ReadRow(r) PROVE TokensHeld'
  <2>1. NoCredentials.grant \notin Grants /\ NoCredentials.refresh = NoToken
    BY DEF NoCredentials, Grants, NoGrant
  <2>2. Idle.cred = NoCredentials /\ Idle.pc = "idle" /\ Idle.op = "idle"
    BY DEF Idle
  <2> QED
    <3>1. /\ \A q \in Requests \ {r} : task'[q] = task[q]
          /\ UNCHANGED <<cred, issued, rotates>>
          /\ \/ task'[r] = Idle
             \/ \E i \in Rows : /\ task'[r].cred = cred[i] /\ task'[r].op # "authorize"
                                 /\ task'[r].pc \in {"decide", "update", "remove"}
      BY <1>4, ReadSteps DEF provider, rowVars, tokens, LiveRows
    <3> QED
      BY <2>1, <2>2, <3>1
<1>5. ASSUME NEW r \in Requests, RefreshToken(r) \/ AnswerLost(r) PROVE TokensHeld'
  <2> SUFFICES ASSUME rotates' PROVE TokensHeld'
    OBVIOUS
  <2>0. Idle.cred = NoCredentials /\ Idle.pc = "idle" /\ Idle.op = "idle"
        /\ NoCredentials.grant \notin Grants /\ NoCredentials.refresh = NoToken
    BY DEF Idle, NoCredentials, Grants, NoGrant
  <2>1. /\ \A q \in Requests \ {r} : task'[q] = task[q]
        /\ rotates /\ cred' = cred /\ task[r].cred.grant \in Grants
        /\ \A g \in Grants :
              issued'[g] = IF g = task[r].cred.grant THEN issued[g] + 1 ELSE issued[g]
        /\ \/ task'[r] = Idle
           \/ /\ task'[r].cred.grant = task[r].cred.grant /\ task'[r].op = "get"
              /\ task'[r].cred.refresh = issued[task[r].cred.grant] + 1
    BY <1>5, RefreshSteps DEF provider, rowVars
  <2>2. \A g \in Grants : issued[g] \in Nat /\ issued[g] <= issued'[g]
    BY <2>1, Numbers DEF CoreInv
  <2>3. \A i \in Rows : Rightful(cred[i])'
    BY <2>1, <2>2, Numbers DEF CoreInv
  <2>4. \A q \in Requests \ {r} :
           /\ Rightful(task[q].cred)'
           /\ (task'[q].op = "authorize" /\ task'[q].cred.refresh # NoToken)
                 => task'[q].cred.refresh = issued'[task'[q].cred.grant]
           /\ task'[q].pc \in {"refresh", "store"} => task'[q].cred.refresh # NoToken
    <3> TAKE q \in Requests \ {r}
    <3>1. task'[q] = task[q] /\ task[q].cred.refresh \in Nat
          /\ (task[q].cred.grant \in Grants \/ task[q].cred.grant = NoGrant)
      BY <2>1, Numbers DEF CoreInv
    <3>2. Rightful(task[q].cred)'
      BY <2>1, <2>2, <3>1
    <3>3. task[q].op = "authorize" => task[q].cred.grant # task[r].cred.grant
      BY <2>0, <2>1 DEF GrantsApart, NoGrant, Grants
    <3> QED
      BY <2>1, <3>1, <3>2, <3>3
  <2>5. /\ Rightful(task[r].cred)'
        /\ task'[r].op # "authorize"
        /\ task'[r].pc \in {"refresh", "store"} => task'[r].cred.refresh # NoToken
    <3>1. NoToken = 0 /\ issued[task[r].cred.grant] \in Nat /\ NoGrant \notin Grants
      BY <2>1, <2>2 DEF NoToken, NoGrant, Grants
    <3> QED
      BY <2>0, <2>1, <3>1
  <2> QED
    BY <2>3, <2>4, <2>5
<1>6. ASSUME NEW r \in Requests, Quiet(r) PROVE TokensHeld'
  <2>1. NoCredentials.grant \notin Grants /\ NoCredentials.refresh = NoToken
    BY DEF NoCredentials, Grants, NoGrant
  <2>2. Idle.cred = NoCredentials /\ Idle.pc = "idle" /\ Idle.op = "idle"
    BY DEF Idle
  <2> QED
    BY ZenonT(60), <1>6, <2>1, <2>2, QuietSteps DEF provider
<1>7. ASSUME NEW i \in Rows, Expire(i) PROVE TokensHeld'
  BY <1>7 DEF Expire, provider, rowVars
<1>8. CASE UNCHANGED vars
  BY <1>8 DEF vars, provider, rowVars, tokens
<1> HIDE DEF TokensHeld, Rightful, Issued, Newest
<1> QED
  BY <1>1, <1>2, <1>3, <1>4, <1>5, <1>6, <1>7, <1>8 DEF Moves, Acts, Quiet, Writes

LEMMA NextNewestHeldOnce ==
    ASSUME CoreInv, GrantsApart, TokensHeld, NewestHeldOnce, Moves \/ UNCHANGED vars
    PROVE  NewestHeldOnce'
<1>0. overlaps \subseteq overlaps'
  BY DEF Moves, vars
<1> USE DEF NewestHeldOnce, Newest
<1>1. ASSUME NEW r \in Requests, NEW t \in Tasks, Hands(r, t) PROVE NewestHeldOnce'
  <2> SUFFICES ASSUME rotates', NEW q \in Requests, task'[q].pc = "store"
               PROVE  /\ task'[q].cred.refresh = issued'[task'[q].cred.grant]
                      /\ \A i \in Rows : cred'[i].grant = task'[q].cred.grant
                            => cred'[i].refresh # issued'[cred'[i].grant]
                      /\ \A p \in Requests \ {q} : task'[p].cred.grant = task'[q].cred.grant
                            => task'[p].cred.refresh # issued'[task'[p].cred.grant]
    OBVIOUS
  <2>1. /\ rotates /\ cred' = cred /\ begun + 1 \in Grants
        /\ task'[r].cred = NewCredentials(begun + 1) /\ task'[r].pc \in {"import", "exists"}
        /\ \A p \in Requests \ {r} : task'[p] = task[p]
        /\ \A g \in Grants : issued'[g] = IF g = begun + 1 THEN 1 ELSE issued[g]
    BY <1>1 DEF Hands, Become, CoreInv, TypeOK, provider, rowVars
  <2>2. task'[r].cred.grant \in {begun + 1, NoGrant}
    BY <2>1 DEF NewCredentials, NoCredentials
  <2>3. /\ q # r /\ task'[q] = task[q] /\ task[q].cred.grant <= begun
        /\ task[q].cred.refresh # NoToken
    BY <2>1 DEF GrantsApart, TokensHeld
  <2>4. task[q].cred.grant \in Grants /\ task[q].cred.grant # NoGrant
    BY <2>1, <2>3, Numbers DEF CoreInv, TokensHeld, Rightful
  <2>5. task[q].cred.grant # begun + 1 /\ issued'[task[q].cred.grant] = issued[task[q].cred.grant]
    BY <2>1, <2>3, <2>4, Numbers DEF CoreInv, Grants
  <2> QED
    BY <2>1, <2>2, <2>3, <2>4, <2>5
<1>2. ASSUME NEW r \in Requests, NEW t \in Tasks, Asks(r, t) PROVE NewestHeldOnce'
  <2> SUFFICES ASSUME rotates' PROVE NewestHeldOnce'
    OBVIOUS
  <2>1. /\ task'[r].cred = NoCredentials /\ task'[r].pc = "read" /\ rotates
        /\ \A q \in Requests \ {r} : task'[q] = task[q]
    BY <1>2 DEF Asks, Become, CoreInv, TypeOK, provider
  <2>2. UNCHANGED <<cred, issued>>
    BY <1>2 DEF Asks, rowVars, tokens
  <2>3. \A q \in Requests : task[q].pc = "store" => task[q].cred.grant # NoCredentials.grant
    BY <2>1 DEF TokensHeld, Rightful, NoCredentials
  <2> QED
    BY <2>1, <2>2, <2>3
<1>3. ASSUME NEW r \in Requests, Writes(r) PROVE NewestHeldOnce'
  <2> SUFFICES ASSUME rotates' PROVE NewestHeldOnce'
    OBVIOUS
  <2>1. rotates
    BY <1>3, WriteSteps DEF provider
  <2>2. \A q \in Requests : task[q].pc = "store" => task[q].cred.grant # NoCredentials.grant
    BY <2>1 DEF TokensHeld, Rightful, NoCredentials
  <2>3. Idle.cred = NoCredentials /\ Idle.pc = "idle"
    BY DEF Idle
  <2> QED
    BY <1>3, <2>1, <2>2, <2>3, WriteSteps
<1>4. ASSUME NEW r \in Requests, ReadRow(r) PROVE NewestHeldOnce'
  <2> SUFFICES ASSUME rotates' PROVE NewestHeldOnce'
    OBVIOUS
  <2>1. /\ \A q \in Requests \ {r} : task'[q] = task[q]
        /\ UNCHANGED <<cred, issued, rotates>>
        /\ \/ task'[r] = Idle
           \/ \E i \in Rows : /\ task'[r].cred = cred[i]
                               /\ task'[r].pc \in {"decide", "update", "remove"}
    BY <1>4, ReadSteps DEF provider, rowVars, tokens, LiveRows
  <2>2. \A q \in Requests : task[q].pc = "store" => task[q].cred.grant # NoCredentials.grant
    BY <2>1 DEF TokensHeld, Rightful, NoCredentials
  <2>3. Idle.cred = NoCredentials /\ Idle.pc = "idle"
    BY DEF Idle
  <2> QED
    BY <2>1, <2>2, <2>3
<1>5. ASSUME NEW r \in Requests, RefreshToken(r) \/ AnswerLost(r) PROVE NewestHeldOnce'
  <2> SUFFICES ASSUME rotates', NEW q \in Requests, task'[q].pc = "store"
               PROVE  /\ task'[q].cred.refresh = issued'[task'[q].cred.grant]
                      /\ \A i \in Rows : cred'[i].grant = task'[q].cred.grant
                            => cred'[i].refresh # issued'[cred'[i].grant]
                      /\ \A p \in Requests \ {q} : task'[p].cred.grant = task'[q].cred.grant
                            => task'[p].cred.refresh # issued'[task'[p].cred.grant]
    OBVIOUS
  <2> DEFINE g == task[r].cred.grant
  <2>0. Idle.cred = NoCredentials /\ Idle.pc = "idle" /\ NoCredentials.grant \notin Grants
    BY DEF Idle, NoCredentials, Grants, NoGrant
  <2>1. /\ \A p \in Requests \ {r} : task'[p] = task[p]
        /\ rotates /\ cred' = cred /\ g \in Grants /\ task[r].cred.refresh = issued[g]
        /\ \A h \in Grants : issued'[h] = IF h = g THEN issued[h] + 1 ELSE issued[h]
        /\ \/ task'[r] = Idle
           \/ /\ task'[r].cred.grant = g /\ task'[r].cred.refresh = issued[g] + 1
    BY <1>5, RefreshSteps DEF provider, rowVars
  <2> HIDE DEF g
  <2>2. issued[g] \in Nat /\ issued'[g] = issued[g] + 1
    BY <2>1, Numbers DEF CoreInv
  <2>3. CASE q = r
    <3>1. task'[r].cred.grant = g /\ task'[r].cred.refresh = issued[g] + 1
      BY <2>0, <2>1, <2>3
    <3>2. \A i \in Rows : cred[i].grant = g => cred[i].refresh # issued[g] + 1
      BY <2>1, <2>2, Numbers DEF CoreInv, TokensHeld, Rightful, Issued
    <3>3. \A p \in Requests : task[p].cred.grant = g => task[p].cred.refresh # issued[g] + 1
      BY <2>1, <2>2, Numbers DEF CoreInv, TokensHeld, Rightful, Issued
    <3> QED
      BY <2>1, <2>2, <2>3, <3>1, <3>2, <3>3
  <2>4. CASE q # r
    <3>1. task'[q] = task[q] /\ task[q].cred.grant \in Grants
      BY <2>1, <2>4, Numbers DEF CoreInv, TokensHeld, Rightful
    <3>2. task[q].cred.grant # g
      BY <2>1, <2>4, <3>1 DEF g
    <3>3. issued'[task[q].cred.grant] = issued[task[q].cred.grant]
      BY <2>1, <3>1, <3>2
    <3> QED
      BY <2>0, <2>1, <2>4, <3>1, <3>2, <3>3
  <2> QED
    BY <2>3, <2>4
<1>6. ASSUME NEW r \in Requests, Quiet(r) PROVE NewestHeldOnce'
  <2> SUFFICES ASSUME rotates' PROVE NewestHeldOnce'
    OBVIOUS
  <2>1. /\ \A q \in Requests \ {r} : task'[q] = task[q]
        /\ UNCHANGED <<cred, issued, rotates>>
        /\ task'[r] = Idle \/ (task'[r].cred = task[r].cred /\ task'[r].pc # "store")
    BY <1>6, QuietSteps DEF provider
  <2>2. \A q \in Requests : task[q].pc = "store" => task[q].cred.grant # NoCredentials.grant
    BY <2>1 DEF TokensHeld, Rightful, NoCredentials
  <2>3. Idle.cred = NoCredentials /\ Idle.pc = "idle"
    BY DEF Idle
  <2> QED
    BY <2>1, <2>2, <2>3
<1>7. ASSUME NEW i \in Rows, Expire(i) PROVE NewestHeldOnce'
  BY <1>7 DEF Expire, provider, rowVars, tokens
<1>8. CASE UNCHANGED vars
  BY <1>8 DEF vars, provider, rowVars, tokens
<1> HIDE DEF NewestHeldOnce, Newest
<1> QED
  BY <1>1, <1>2, <1>3, <1>4, <1>5, <1>6, <1>7, <1>8 DEF Moves, Acts, Quiet, Writes

LEMMA NextRowsKeepUp ==
    ASSUME CoreInv, NothingFound, GrantsApart, TokensHeld, NewestHeldOnce, RowsKeepUp, Moves \/ UNCHANGED vars
    PROVE  RowsKeepUp'
<1>0. overlaps \subseteq overlaps'
  BY DEF Moves, vars
<1> USE DEF At
<1>1. ASSUME NEW r \in Requests, NEW t \in Tasks, Hands(r, t) PROVE RowsKeepUp'
  <2> SUFFICES ASSUME rotates', {"authorize"} \notin overlaps', "get" \notin failed',
                      NEW i \in LiveRows'
               PROVE  \/ cred'[i].refresh = NoToken \/ cred'[i].refresh = issued'[cred'[i].grant]
                      \/ \E q \in Requests : task'[q].pc = "store" /\ task'[q].id = i
    BY DEF RowsKeepUp, Accepted
  <2>1. /\ rotates /\ cred' = cred /\ begun + 1 \in Grants /\ i \in LiveRows /\ i \in Rows
        /\ failed' = failed /\ task[r].pc = "idle"
        /\ \A p \in Requests \ {r} : task'[p] = task[p]
        /\ \A g \in Grants : issued'[g] = IF g = begun + 1 THEN 1 ELSE issued[g]
    BY <1>1 DEF Hands, Idle, Become, CoreInv, TypeOK, provider, rowVars, LiveRows
  <2>2. \/ cred[i].refresh = NoToken \/ cred[i].refresh = issued[cred[i].grant]
        \/ \E q \in Requests : task[q].pc = "store" /\ task[q].id = i
    BY <1>0, <2>1 DEF RowsKeepUp, Accepted
  <2>3. cred[i].refresh # NoToken => issued'[cred[i].grant] = issued[cred[i].grant]
    <3>1. cred[i].refresh # NoToken => cred[i].grant \in Grants
      BY <2>1, Numbers DEF CoreInv, TokensHeld, Rightful
    <3>2. cred[i].grant # begun + 1
      BY <2>1, Numbers DEF CoreInv, GrantsApart
    <3> QED
      BY <2>1, <3>1, <3>2
  <2> QED
    BY <2>1, <2>2, <2>3
<1>2. ASSUME NEW r \in Requests, NEW t \in Tasks, Asks(r, t) PROVE RowsKeepUp'
  <2>1. /\ UNCHANGED <<rotates, cred, issued, failed>> /\ LiveRows' = LiveRows
        /\ task[r].pc = "idle" /\ \A p \in Requests \ {r} : task'[p] = task[p]
    BY <1>2 DEF Asks, Idle, Become, CoreInv, TypeOK, provider, rowVars, tokens, LiveRows
  <2>2. \A q \in Requests : task[q].pc = "store" => task'[q] = task[q]
    BY <2>1
  <2> QED
    BY <1>0, <2>1, <2>2 DEF RowsKeepUp, Accepted
<1>3. ASSUME NEW r \in Requests, Writes(r) PROVE RowsKeepUp'
  <2> SUFFICES ASSUME rotates', {"authorize"} \notin overlaps', "get" \notin failed',
                      NEW i \in LiveRows'
               PROVE  \/ cred'[i].refresh = NoToken \/ cred'[i].refresh = issued'[cred'[i].grant]
                      \/ \E q \in Requests : task'[q].pc = "store" /\ task'[q].id = i
    BY DEF RowsKeepUp, Accepted
  <2>1. /\ \A q \in Requests \ {r} : task'[q] = task[q]
        /\ rotates /\ issued' = issued
    BY <1>3, WriteSteps DEF provider
  <2>2. ASSUME failed' = failed, i \in LiveRows, cred'[i] = cred[i],
               ~ (task[r].pc = "store" /\ task[r].id = i)
        PROVE  \/ cred'[i].refresh = NoToken \/ cred'[i].refresh = issued'[cred'[i].grant]
               \/ \E q \in Requests : task'[q].pc = "store" /\ task'[q].id = i
    <3>1. \/ cred[i].refresh = NoToken \/ cred[i].refresh = issued[cred[i].grant]
          \/ \E q \in Requests : task[q].pc = "store" /\ task[q].id = i
      BY <1>0, <2>1, <2>2 DEF RowsKeepUp, Accepted
    <3>2. \A q \in Requests : task[q].pc = "store" /\ task[q].id = i => task'[q] = task[q]
      BY <2>1, <2>2
    <3> QED
      BY <2>1, <2>2, <3>1, <3>2
  <2>3. task[r].pc = "write" =>
           task[r].cred.refresh = NoToken \/ task[r].cred.refresh = issued[task[r].cred.grant]
    BY <2>1 DEF CoreInv, HandlersFit, Handed, TokensHeld, Newest
  <2>4. ASSUME NEW k \in Rows, Insert(r, k)
        PROVE  \/ cred'[i].refresh = NoToken \/ cred'[i].refresh = issued'[cred'[i].grant]
               \/ \E q \in Requests : task'[q].pc = "store" /\ task'[q].id = i
    <3>1. /\ task[r].pc = "write" /\ failed' = failed
          /\ \/ i = k /\ cred'[i] = task[r].cred
             \/ i \in LiveRows /\ cred'[i] = cred[i]
      BY <2>4 DEF Insert, LiveRows, CoreInv, TypeOK
    <3> QED
      BY <2>1, <2>2, <2>3, <3>1
  <2>5. CASE Overwrite(r)
    <3>1. /\ task[r].pc = "write" /\ failed' = failed /\ i \in LiveRows
          /\ cred'[i] = task[r].cred \/ cred'[i] = cred[i]
      BY <2>5 DEF Overwrite, LiveRows, CoreInv, TypeOK, rowVars
    <3> QED
      BY <2>1, <2>2, <2>3, <3>1
  <2>6. CASE UpdateConnection(r)
    <3>1. /\ task[r].pc = "store" /\ failed' = failed /\ i \in LiveRows /\ i \in Rows
          /\ \/ LiveRows # {task[r].id} /\ cred' = cred
             \/ LiveRows = {task[r].id} /\ cred' = [cred EXCEPT ![task[r].id] = task[r].cred]
      BY <2>6 DEF UpdateConnection, LiveRows, rowVars
    <3>2. task[r].cred.refresh = issued[task[r].cred.grant]
      BY <2>1, <3>1 DEF NewestHeldOnce, Newest
    <3>3. CASE LiveRows # {task[r].id} /\ cred' = cred
      <4>1. \A j, k \in LiveRows : j = k
        BY <1>0 DEF NothingFound
      <4>2. task[r].id # i
        BY <3>1, <3>3, <4>1
      <4> QED
        BY <2>2, <3>1, <3>3, <4>2
    <3>4. CASE LiveRows = {task[r].id} /\ cred' = [cred EXCEPT ![task[r].id] = task[r].cred]
      <4>1. cred'[i] = task[r].cred
        BY <3>1, <3>4 DEF CoreInv, TypeOK
      <4> QED
        BY <2>1, <3>2, <4>1
    <3> QED
      BY <3>1, <3>3, <3>4
  <2> QED
    BY <1>3, <2>4, <2>5, <2>6 DEF Writes
<1>4. ASSUME NEW r \in Requests, ReadRow(r) PROVE RowsKeepUp'
  <2>1. /\ \A q \in Requests \ {r} : task'[q] = task[q] /\ task[r].pc = "read"
    BY <1>4, ReadSteps
  <2>2. UNCHANGED <<rotates, cred, issued, failed>> /\ LiveRows' = LiveRows
    BY <1>4, ReadSteps DEF provider, rowVars, tokens, LiveRows
  <2>3. task[r].pc = "read"
    BY <1>4, ReadSteps
  <2>4. \A q \in Requests : task[q].pc = "store" => task'[q] = task[q]
    BY <2>1, <2>3
  <2> QED
    BY <1>0, <2>2, <2>4 DEF RowsKeepUp, Accepted
<1>5. ASSUME NEW r \in Requests, RefreshToken(r) \/ AnswerLost(r) PROVE RowsKeepUp'
  <2> SUFFICES ASSUME rotates', {"authorize"} \notin overlaps', "get" \notin failed',
                      NEW i \in LiveRows'
               PROVE  \/ cred'[i].refresh = NoToken \/ cred'[i].refresh = issued'[cred'[i].grant]
                      \/ \E q \in Requests : task'[q].pc = "store" /\ task'[q].id = i
    BY DEF RowsKeepUp, Accepted
  <2> DEFINE g == task[r].cred.grant
  <2>1. /\ \A p \in Requests \ {r} : task'[p] = task[p]
        /\ rotates /\ cred' = cred /\ g \in Grants /\ task[r].pc = "refresh"
        /\ \A h \in Grants : issued'[h] = IF h = g THEN issued[h] + 1 ELSE issued[h]
        /\ task'[r].pc = "store" /\ task'[r].id = task[r].id
        /\ i \in LiveRows /\ i \in Rows
    BY <1>5, RefreshSteps DEF provider, rowVars, LiveRows
  <2>2. "get" \notin failed
    BY <1>5 DEF RefreshToken, AnswerLost, Fails
  <2>3. \/ cred[i].refresh = NoToken \/ cred[i].refresh = issued[cred[i].grant]
        \/ \E q \in Requests : task[q].pc = "store" /\ task[q].id = i
    BY <1>0, <2>1, <2>2 DEF RowsKeepUp, Accepted
  <2>4. cred[i].grant = g => task[r].id = i
    <3>1. g # NoGrant
      BY <2>1 DEF Grants, NoGrant
    <3> QED
      BY <2>1, <3>1 DEF GrantsApart
  <2>5. cred[i].refresh # NoToken => cred[i].grant \in Grants
    BY <2>1, Numbers DEF CoreInv, TokensHeld, Rightful
  <2>6. \A q \in Requests : task[q].pc = "store" => task'[q] = task[q]
    BY <2>1
  <2> QED
    BY <2>1, <2>3, <2>4, <2>5, <2>6
<1>6. ASSUME NEW r \in Requests, Quiet(r) PROVE RowsKeepUp'
  <2> SUFFICES ASSUME rotates', {"authorize"} \notin overlaps', "get" \notin failed',
                      NEW i \in LiveRows'
               PROVE  \/ cred'[i].refresh = NoToken \/ cred'[i].refresh = issued'[cred'[i].grant]
                      \/ \E q \in Requests : task'[q].pc = "store" /\ task'[q].id = i
    BY DEF RowsKeepUp, Accepted
  <2>1. /\ \A q \in Requests \ {r} : task'[q] = task[q]
        /\ UNCHANGED <<cred, issued, rotates>> /\ i \in LiveRows
        /\ task[r].pc # "store"
    BY <1>6, QuietSteps DEF provider, LiveRows
  <2>2. "get" \notin failed
    BY <1>6 DEF Quiet, RefuseExisting, CheckIfConnectionExists, Decide, RefreshFails,
       UpdateMetadata, DeleteConnection, CutShort, Fails
  <2>3. \A q \in Requests : task[q].pc = "store" => task'[q] = task[q]
    BY <2>1
  <2> QED
    BY <1>0, <2>1, <2>2, <2>3 DEF RowsKeepUp, Accepted
<1>7. ASSUME NEW i \in Rows, Expire(i) PROVE RowsKeepUp'
  BY <1>0, <1>7 DEF Expire, RowsKeepUp, Accepted, LiveRows, provider, rowVars
<1>8. CASE UNCHANGED vars
  BY <1>8 DEF vars, RowsKeepUp, Accepted, LiveRows, provider, rowVars, tokens
<1> HIDE DEF At
<1> QED
  BY <1>1, <1>2, <1>3, <1>4, <1>5, <1>6, <1>7, <1>8 DEF Moves, Acts, Quiet, Writes

LEMMA NextReadKeepsUp ==
    ASSUME CoreInv, GrantsApart, TokensHeld, RowsKeepUp, ReadKeepsUp, Moves \/ UNCHANGED vars
    PROVE  ReadKeepsUp'
<1>0. overlaps \subseteq overlaps'
  BY DEF Moves, vars
<1> USE DEF At
<1>1. ASSUME NEW r \in Requests, NEW t \in Tasks, Hands(r, t) PROVE ReadKeepsUp'
  <2> SUFFICES ASSUME rotates', {"get"} \notin overlaps', {"authorize"} \notin overlaps',
                      "get" \notin failed', NEW q \in Requests,
                      task'[q].pc \in {"decide", "refresh"}, task'[q].cred.refresh # NoToken
               PROVE  task'[q].cred.refresh = issued'[task'[q].cred.grant]
    BY DEF ReadKeepsUp, Accepted
  <2>8. ASSUME failed \subseteq failed', rotates, task[q].pc \in {"decide", "refresh"},
               task[q].cred.refresh # NoToken
        PROVE  task[q].cred.refresh = issued[task[q].cred.grant]
    BY <1>0, <2>8 DEF ReadKeepsUp, Accepted
  <2>1. /\ rotates /\ begun + 1 \in Grants /\ failed' = failed
        /\ task'[r].pc \in {"import", "exists"}
        /\ \A p \in Requests \ {r} : task'[p] = task[p]
        /\ \A g \in Grants : issued'[g] = IF g = begun + 1 THEN 1 ELSE issued[g]
    BY <1>1 DEF Hands, Become, CoreInv, TypeOK, provider
  <2>2. q # r /\ task'[q] = task[q]
    BY <2>1
  <2>3. task[q].cred.grant \in Grants /\ task[q].cred.grant # begun + 1
    BY <2>1, <2>2, Numbers DEF CoreInv, TokensHeld, Rightful, GrantsApart
  <2> QED
    BY <2>1, <2>2, <2>3, <2>8
<1>2. ASSUME NEW r \in Requests, NEW t \in Tasks, Asks(r, t) PROVE ReadKeepsUp'
  <2> SUFFICES ASSUME rotates', {"get"} \notin overlaps', {"authorize"} \notin overlaps',
                      "get" \notin failed', NEW q \in Requests,
                      task'[q].pc \in {"decide", "refresh"}, task'[q].cred.refresh # NoToken
               PROVE  task'[q].cred.refresh = issued'[task'[q].cred.grant]
    BY DEF ReadKeepsUp, Accepted
  <2>8. ASSUME failed \subseteq failed', rotates, task[q].pc \in {"decide", "refresh"},
               task[q].cred.refresh # NoToken
        PROVE  task[q].cred.refresh = issued[task[q].cred.grant]
    BY <1>0, <2>8 DEF ReadKeepsUp, Accepted
  <2>1. /\ rotates /\ failed' = failed /\ issued' = issued /\ task'[r].pc = "read"
        /\ \A p \in Requests \ {r} : task'[p] = task[p]
    BY <1>2 DEF Asks, Become, CoreInv, TypeOK, provider, tokens
  <2>2. q # r /\ task'[q] = task[q]
    BY <2>1
  <2> QED
    BY <2>1, <2>2, <2>8
<1>3. ASSUME NEW r \in Requests, Writes(r) PROVE ReadKeepsUp'
  <2> SUFFICES ASSUME rotates', {"get"} \notin overlaps', {"authorize"} \notin overlaps',
                      "get" \notin failed', NEW q \in Requests,
                      task'[q].pc \in {"decide", "refresh"}, task'[q].cred.refresh # NoToken
               PROVE  task'[q].cred.refresh = issued'[task'[q].cred.grant]
    BY DEF ReadKeepsUp, Accepted
  <2>8. ASSUME failed \subseteq failed', rotates, task[q].pc \in {"decide", "refresh"},
               task[q].cred.refresh # NoToken
        PROVE  task[q].cred.refresh = issued[task[q].cred.grant]
    BY <1>0, <2>8 DEF ReadKeepsUp, Accepted
  <2>1. /\ rotates /\ issued' = issued /\ task'[r] = Idle
        /\ \A p \in Requests \ {r} : task'[p] = task[p]
    BY <1>3, WriteSteps DEF provider
  <2>2. failed' = failed
    BY <1>3 DEF Writes, Insert, Overwrite, UpdateConnection
  <2>3. q # r /\ task'[q] = task[q]
    BY <2>1 DEF Idle
  <2> QED
    BY <2>1, <2>2, <2>3, <2>8
<1>4. ASSUME NEW r \in Requests, ReadRow(r) PROVE ReadKeepsUp'
  <2> SUFFICES ASSUME rotates', {"get"} \notin overlaps', {"authorize"} \notin overlaps',
                      "get" \notin failed', NEW q \in Requests,
                      task'[q].pc \in {"decide", "refresh"}, task'[q].cred.refresh # NoToken
               PROVE  task'[q].cred.refresh = issued'[task'[q].cred.grant]
    BY DEF ReadKeepsUp, Accepted
  <2>8. ASSUME failed \subseteq failed', rotates, task[q].pc \in {"decide", "refresh"},
               task[q].cred.refresh # NoToken
        PROVE  task[q].cred.refresh = issued[task[q].cred.grant]
    BY <1>0, <2>8 DEF ReadKeepsUp, Accepted
  <2>1. /\ UNCHANGED <<rotates, issued, failed>> /\ task[r].pc = "read"
        /\ \A p \in Requests \ {r} : task'[p] = task[p]
    BY <1>4, ReadSteps DEF provider, tokens
  <2>2. CASE q # r
    BY <2>1, <2>2, <2>8
  <2>3. CASE q = r
    <3>1. PICK i \in LiveRows :
             task'[r].cred = cred[i] /\ task'[r].pc \in {"decide", "update", "remove"}
             /\ (task'[r].pc = "decide" => task[r].op = "get")
      BY <1>4, <2>3, ReadSteps DEF Idle
    <3>2. task[r].op = "get" /\ task'[r].pc = "decide"
      BY <2>3, <3>1
    <3>3. \A p \in Requests : task[p].pc # "store"
      BY <1>0, <2>1, <3>2 DEF CoreInv, MeetingsKnown, HandlersFit, HasRead
    <3>4. cred[i].refresh = NoToken \/ cred[i].refresh = issued[cred[i].grant]
      BY <1>0, <2>1, <3>3 DEF RowsKeepUp, Accepted
    <3> QED
      BY <2>1, <2>3, <3>1, <3>4
  <2> QED
    BY <2>2, <2>3
<1>5. ASSUME NEW r \in Requests, RefreshToken(r) \/ AnswerLost(r) PROVE ReadKeepsUp'
  <2> SUFFICES ASSUME rotates', {"get"} \notin overlaps', {"authorize"} \notin overlaps',
                      "get" \notin failed', NEW q \in Requests,
                      task'[q].pc \in {"decide", "refresh"}, task'[q].cred.refresh # NoToken
               PROVE  task'[q].cred.refresh = issued'[task'[q].cred.grant]
    BY DEF ReadKeepsUp, Accepted
  <2>1. /\ task[r].pc = "refresh" /\ task[r].op = "get"
        /\ \A p \in Requests \ {r} : task'[p] = task[p]
        /\ task'[r] = Idle \/ task'[r].pc = "store"
    BY <1>5, RefreshSteps
  <2>2. q # r /\ task[q].pc \in {"decide", "refresh"}
    BY <2>1 DEF Idle
  <2>3. task[q].op = "get"
    BY <2>2 DEF CoreInv, HandlersFit, HasRead
  <2> QED
    BY <1>0, <2>1, <2>2, <2>3 DEF CoreInv, MeetingsKnown
<1>6. ASSUME NEW r \in Requests, Quiet(r) PROVE ReadKeepsUp'
  <2> SUFFICES ASSUME rotates', {"get"} \notin overlaps', {"authorize"} \notin overlaps',
                      "get" \notin failed', NEW q \in Requests,
                      task'[q].pc \in {"decide", "refresh"}, task'[q].cred.refresh # NoToken
               PROVE  task'[q].cred.refresh = issued'[task'[q].cred.grant]
    BY DEF ReadKeepsUp, Accepted
  <2>8. ASSUME failed \subseteq failed', rotates, task[q].pc \in {"decide", "refresh"},
               task[q].cred.refresh # NoToken
        PROVE  task[q].cred.refresh = issued[task[q].cred.grant]
    BY <1>0, <2>8 DEF ReadKeepsUp, Accepted
  <2>1. /\ \A p \in Requests \ {r} : task'[p] = task[p]
        /\ UNCHANGED <<issued, rotates>>
        /\ \/ task'[r] = Idle
           \/ task'[r].pc \in {"exists", "write"}
           \/ task'[r].cred = task[r].cred /\ task[r].pc = "decide"
    BY <1>6, QuietSteps DEF provider
  <2>2. failed \subseteq failed'
    BY <1>6 DEF Quiet, RefuseExisting, CheckIfConnectionExists, Decide, RefreshFails,
       UpdateMetadata, DeleteConnection, CutShort, Fails
  <2>3. task'[q].cred = task[q].cred /\ task[q].pc \in {"decide", "refresh"}
    BY <2>1 DEF Idle
  <2> QED
    BY <2>1, <2>2, <2>3, <2>8
<1>7. ASSUME NEW i \in Rows, Expire(i) PROVE ReadKeepsUp'
  BY <1>0, <1>7 DEF Expire, ReadKeepsUp, Accepted, provider
<1>8. CASE UNCHANGED vars
  BY <1>8 DEF vars, ReadKeepsUp, Accepted, provider, tokens
<1> HIDE DEF At
<1> QED
  BY <1>1, <1>2, <1>3, <1>4, <1>5, <1>6, <1>7, <1>8 DEF Moves, Acts, Quiet, Writes

\* The provider accepts the refresh token of a row that nobody is at work on, and the
\* one a read refreshes with, up to the meetings and the lost answers that TokenUsable
\* and RefusedOnlyIfReadsMet name.  A token that was used up is in no other hands than
\* those of the read that will write its successor, which is why any number of reads
\* that refresh at the same time leave the row with one that works.
THEOREM TokensAreAccepted == Spec => []RefreshesAccepted
<1> DEFINE Inv == /\ CoreInv /\ NothingFound /\ GrantsApart /\ TokensHeld
                  /\ NewestHeldOnce /\ RowsKeepUp /\ ReadKeepsUp
<1>1. Init => Inv
  BY InitCore, InitRest
<1>2. Inv /\ [Next]_vars => Inv'
  <2> SUFFICES ASSUME Inv, [Next]_vars PROVE Inv'
    OBVIOUS
  <2>1. Moves \/ UNCHANGED vars
    BY NextMoves DEF CoreInv
  <2> QED
    BY <2>1, NextCore, NextNothingFound, NextGrantsApart, NextTokensHeld, NextNewestHeldOnce,
       NextRowsKeepUp, NextReadKeepsUp
<1>3. Inv => RefreshesAccepted
  <2> SUFFICES ASSUME Inv PROVE RefreshesAccepted
    OBVIOUS
  <2>1. TokenUsable
    BY DEF RowsKeepUp, TokenUsable, Untouched
  <2>2. RefusedOnlyIfReadsMet
    <3> SUFFICES ASSUME {"get"} \notin overlaps, {"authorize"} \notin overlaps,
                        "get" \notin failed, NEW r \in Requests, At(r, "refresh")
                 PROVE  Accepted(task[r].cred)
      BY DEF RefusedOnlyIfReadsMet
    <3>1. rotates => task[r].cred.refresh # NoToken
      BY DEF At, TokensHeld
    <3>2. task[r].cred.refresh = NoToken \/ Accepted(task[r].cred)
      BY DEF At, ReadKeepsUp
    <3> QED
      BY <3>1, <3>2 DEF Accepted
  <2> QED
    BY <2>1, <2>2 DEF RefreshesAccepted
<1> QED
  BY <1>1, <1>2, <1>3, PTL DEF Spec

=============================================================================
