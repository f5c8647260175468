--------------------------- MODULE Environments ---------------------------
(***************************************************************************)
(* One environment: its secret key and the rotation of it, its settings,   *)
(* the caches of secret keys that the servers keep, and the encryption of  *)
(* the database when a server starts.                                      *)
(*                                                                         *)
(*   shared/lib/services/environment.service.ts                            *)
(*   shared/lib/utils/encryption.manager.ts                                *)
(*   server/lib/controllers/environment.controller.ts  the requests        *)
(*   server/lib/server.ts, utils/migrate.ts            the start           *)
(*                                                                         *)
(* Each action is one statement to the database, with the code up to the   *)
(* next.  A request's number is the key, or the setting, that it brings.   *)
(***************************************************************************)
EXTENDS Integers, FiniteSets, Sequences

CONSTANTS
    Servers,        \* the server processes
    EncryptionKeys, \* the values NANGO_ENCRYPTION_KEY may be given
    NoKey,          \* it is not set
    MaxRequests,    \* bound: the requests
    MaxStarts,      \* bound: the starts of a server
    MaxStops        \* bound: the stops of a server

ASSUME NoKeyAssumption == NoKey \notin EncryptionKeys
ASSUME ServersAssumption == Servers \cap Int = {}   \* no request, and not None, is one
ASSUME BoundsAssumption == MaxRequests \in Nat /\ MaxStarts \in Nat /\ MaxStops \in Nat

Requests == 1..MaxRequests
Keys == 0..MaxRequests      \* secret keys; 0 is the one given at the insertion
Settings == 0..MaxRequests
None == -1

VARIABLES
    config,     \* _nango_db_config
    row,        \* the row of the environment in _nango_environments
    tables,     \* the rows of the other tables that hold secrets
    user,       \* the account of the environment has a user
    server,     \* server -> its encryption key, its cache and the locals of its start
    task,       \* request -> the locals of its handler
    starts,     \* bound: the starts so far
    stops,      \* bound: the stops so far
    wanted,     \* history: the setting and the rows last acknowledged
    doubts,     \* history: server -> why its cache may differ from the row
    reasons     \* history: why the row may not be as it should

bounds == <<starts, stops>>
environmentsVars == <<config, row, tables, user, server, task, bounds, wanted, doubts, reasons>>

Doubts == {"elsewhere", "encrypted", "overlap"}
Reasons == {"rotation", "creation", "config", "variables", "overlap", "keys"}
-----------------------------------------------------------------------------
(* Rows and encryption.                                                    *)

\* A secret column and its iv: by is the encryption key of the text, iv whether one is set.
Text(key, by) == [key |-> key, by |-> by, iv |-> by # NoKey]
NoText == Text(None, NoKey)
Texts == [key : Keys \cup {None}, by : EncryptionKeys \cup {NoKey}, iv : BOOLEAN]

Absent == [secret |-> NoText, pending |-> NoText, setting |-> 0]
Inserted == [Absent EXCEPT !.secret = Text(0, NoKey)]
NoConfig == [hash |-> NoKey, complete |-> FALSE]

EncryptEnvironment(k, w) ==
    IF k = NoKey THEN w
    ELSE [w EXCEPT !.secret = Text(w.secret.key, k),
                   !.pending = IF w.pending.key = None THEN @ ELSE Text(w.pending.key, k)]

\* decryptEnvironment returns rather than throws: a row without the iv is taken as it is.
Decrypts(k, w) ==
    w.secret.iv => /\ k # NoKey /\ w.secret.by = k
                   /\ w.pending.key # None => w.pending.by = k

\* A row of another table: its id, and its secret by the request that brought it.
\* _nango_connections and _nango_configs, treated alike, are one table, with one row.
Tables == <<"credentials", "variables">>
TableNames == {"credentials", "variables"}
Encrypt(k, x) == IF k = NoKey THEN x ELSE [x EXCEPT !.text = Text(@.key, k)]
InTheClear(id, key) == [id |-> id, text |-> Text(key, NoKey)]
Opens(k, x) == x.text.iv => k # NoKey /\ x.text.by = k

Idle == [pc |-> "idle", at |-> None, row |-> Absent]
Done == [Idle EXCEPT !.pc = "done"]
Down == [pc |-> "down", key |-> NoKey, cache |-> {}, row |-> Absent, table |-> 1, rows |-> {}]

Serving == {p \in Servers : server[p].pc = "serving"}
Up == {p \in Servers : server[p].pc # "down"}
Active == {r \in Requests : task[r].pc \notin {"idle", "done"}}
At(r, pc) == task[r].pc = pc

\* Those that will write a whole row that they have read.
Holding == {r \in Requests : task[r].pc \in {"pending", "rotated"}}
               \cup {p \in Up : server[p].pc = "encrypt"}
Overlapping == IF Holding = {} THEN reasons ELSE reasons \cup {"overlap"}

\* A new installation, or one that has had no encryption key.
EnvironmentsInit ==
    /\ config = NoConfig
    /\ row \in {Absent, Inserted}
    /\ tables = [t \in TableNames |-> IF row = Absent THEN {} ELSE {InTheClear(0, 0)}]
    /\ user = (row # Absent)
    /\ server = [p \in Servers |-> Down]
    /\ task = [r \in Requests |-> Idle]
    /\ starts = 0 /\ stops = 0
    /\ wanted = [setting |-> 0, rows |-> [t \in TableNames |-> IF row = Absent THEN {} ELSE {0}]]
    /\ doubts = [p \in Servers |-> {}] /\ reasons = {}
-----------------------------------------------------------------------------
(* A server starts: migrate, then cacheSecrets.                            *)

Become(p, s) == server' = [server EXCEPT ![p] = s]
Enter(p, pc) == Become(p, [server[p] EXCEPT !.pc = pc])
Resting == UNCHANGED <<user, task, bounds, wanted>>

Start(p, k) ==
    /\ server[p].pc = "down" /\ starts < MaxStarts
    /\ starts' = starts + 1
    /\ Become(p, [Down EXCEPT !.pc = "migrate", !.key = k])
    /\ reasons' = IF \E q \in Up : server[q].key # k THEN reasons \cup {"keys"} ELSE reasons
    /\ UNCHANGED <<config, row, tables, user, task, stops, wanted, doubts>>

\* Mutant: a configuration with the key's hash is taken for complete.
EncryptDatabaseOnce(p) ==
    /\ server[p].pc = "migrate"
    /\ LET k == server[p].key IN
       CASE config = NoConfig -> Enter(p, IF k = NoKey THEN "cache" ELSE "drop")
         [] config # NoConfig /\ config.hash # k -> Become(p, Down)
         [] OTHER -> Enter(p, IF config.complete THEN "cache" ELSE "redrop")
    /\ Resting /\ UNCHANGED <<config, row, tables, doubts, reasons>>

EncryptDatabaseIfNeeded(p) ==
    /\ server[p].pc = "migrate"
    /\ LET k == server[p].key IN
       CASE config = NoConfig -> Enter(p, IF k = NoKey THEN "cache" ELSE "drop")
         [] config # NoConfig /\ config.hash # k -> Become(p, Down)
         [] OTHER -> Enter(p, IF config.complete THEN "cache" ELSE "read")
    /\ Resting /\ UNCHANGED <<config, row, tables, doubts, reasons>>

\* saveDbConfig, before and after encryptDatabase: a deletion, then an insertion.
DropConfig(p) ==
    /\ server[p].pc \in {"drop", "redrop"}
    /\ config' = NoConfig
    /\ Enter(p, IF server[p].pc = "drop" THEN "insert" ELSE "reinsert")
    /\ Resting /\ UNCHANGED <<row, tables, doubts, reasons>>

InsertConfig(p) ==
    /\ server[p].pc \in {"insert", "reinsert"}
    /\ config' = [hash |-> server[p].key, complete |-> server[p].pc = "reinsert"]
    /\ Enter(p, IF server[p].pc = "insert" THEN "read" ELSE "cache")
    /\ Resting /\ UNCHANGED <<row, tables, doubts, reasons>>

ReadEnvironments(p) ==
    /\ server[p].pc = "read"
    /\ IF row = Absent \/ row.secret.iv
       THEN Enter(p, "readRows")
       ELSE Become(p, [server[p] EXCEPT !.pc = "encrypt", !.row = row])
    /\ Resting /\ UNCHANGED <<config, row, tables, doubts, reasons>>

\* Writes every column, as it was read.
EncryptDatabase(p) ==
    /\ server[p].pc = "encrypt"
    /\ row' = EncryptEnvironment(server[p].key, server[p].row)
    /\ Become(p, [server[p] EXCEPT !.pc = "readRows", !.row = Absent])
    /\ reasons' = IF Holding = {p} THEN reasons ELSE reasons \cup {"overlap"}
    /\ Resting /\ UNCHANGED <<config, tables, doubts>>

\* One table after the other; the rows that have an iv are passed over.
NextRow(p, rows) ==
    Become(p, IF rows # {} THEN [server[p] EXCEPT !.pc = "encryptRows", !.rows = rows]
              ELSE IF server[p].table < Len(Tables)
              THEN [server[p] EXCEPT !.pc = "readRows", !.rows = {}, !.table = @ + 1]
              ELSE [server[p] EXCEPT !.pc = "redrop", !.rows = {}, !.table = 1])

ReadRows(p) ==
    /\ server[p].pc = "readRows"
    /\ NextRow(p, {x \in tables[Tables[server[p].table]] : ~x.text.iv})
    /\ Resting /\ UNCHANGED <<config, row, tables, doubts, reasons>>

\* The whole row again, as it was read, if its id is still there.
EncryptRow(p, x) ==
    /\ server[p].pc = "encryptRows" /\ x \in server[p].rows
    /\ LET t == Tables[server[p].table]
           same == {y \in tables[t] : y.id = x.id}
       IN  /\ tables' = [tables EXCEPT ![t] =
                  IF same = {} THEN @ ELSE (@ \ same) \cup {Encrypt(server[p].key, x)}]
           /\ reasons' = IF \A y \in same : y.text.key = x.text.key THEN reasons
                         ELSE reasons \cup {"overlap"}
    /\ NextRow(p, server[p].rows \ {x})
    /\ Resting /\ UNCHANGED <<config, row, doubts>>

CacheSecrets(p) ==
    /\ server[p].pc = "cache"
    /\ Become(p, IF row = Absent
                 THEN [server[p] EXCEPT !.pc = "serving"]
                 ELSE IF Decrypts(server[p].key, row)
                 THEN [server[p] EXCEPT !.pc = "serving", !.cache = {row.secret.key}]
                 ELSE Down)
    /\ doubts' = [doubts EXCEPT ![p] = {}]
    /\ Resting /\ UNCHANGED <<config, row, tables, reasons>>

\* What the stop of p leaves half done.
LeftBy(p) ==
    (IF \E r \in Active : task[r].at = p /\ At(r, "rotated") THEN {"rotation"} ELSE {})
    \cup (IF \E r \in Active : task[r].at = p /\ task[r].pc \in {"created", "encrypted"}
          THEN {"creation"} ELSE {})
    \cup (IF \E r \in Active : task[r].at = p /\ At(r, "variables") THEN {"variables"} ELSE {})
    \cup (IF server[p].pc \in {"insert", "reinsert"} THEN {"config"} ELSE {})

Stop(p) ==
    /\ p \in Up /\ stops < MaxStops
    /\ stops' = stops + 1
    /\ Become(p, Down)
    /\ task' = [r \in Requests |-> IF r \in Active /\ task[r].at = p THEN Done ELSE task[r]]
    /\ reasons' = reasons \cup LeftBy(p)
    /\ UNCHANGED <<config, row, tables, user, starts, wanted, doubts>>
-----------------------------------------------------------------------------
(* The requests.                                                           *)

Set(r, t) == task' = [task EXCEPT ![r] = t]
Advance(r, pc) == Set(r, [task[r] EXCEPT !.pc = pc])
End(r) == Set(r, Done)
Still == UNCHANGED <<config, user, bounds>>
Reads == Still /\ UNCHANGED <<row, tables, server, wanted, doubts, reasons>>

Key(r) == server[task[r].at].key

\* The row gets another key on p: no other server's cache is told.
Doubted(p, S) == doubts' = [q \in Servers |-> IF q = p THEN doubts[q] \cup S
                                              ELSE doubts[q] \cup {"elsewhere"}]

\* A server takes up a request of the web application, whose session reads the row:
\* the request is refused if it cannot be decrypted.
Take(r, p, t) ==
    /\ p \in Serving /\ task[r] = Idle
    /\ \A q \in Requests : q < r => task[q] # Idle
    /\ Set(r, IF t = Done THEN Done ELSE [t EXCEPT !.at = p])

GetAccountAndEnvironmentById(p) == row # Absent /\ Decrypts(server[p].key, row)

Session(r, p, pc, w) ==
    /\ user /\ GetAccountAndEnvironmentById(p)
    /\ Take(r, p, [Idle EXCEPT !.pc = pc, !.row = w])

\* A request of the API comes with a secret key, and only the cache is asked for it,
\* when no NANGO_SECRET_KEY_ variable gives the keys.
GetAccountIdAndEnvironmentIdBySecretKey(p, key) == p \in Serving /\ key \in server[p].cache

\* rotateSecretKey: getById, the pending key in the clear, the whole row encrypted.
RotateKey(r, p) == Session(r, p, "pending", row) /\ Reads

WritePending(r) ==
    /\ At(r, "pending")
    /\ row' = [row EXCEPT !.pending.key = r, !.pending.by = NoKey]
    /\ Set(r, [task[r] EXCEPT !.pc = "rotated", !.row.pending.key = r, !.row.pending.by = NoKey])
    /\ reasons' = IF Holding = {r} THEN reasons ELSE reasons \cup {"overlap"}
    /\ Still /\ UNCHANGED <<tables, server, wanted, doubts>>

WriteRotated(r) ==
    /\ At(r, "rotated")
    /\ row' = EncryptEnvironment(Key(r), task[r].row)
    /\ reasons' = IF Holding = {r} THEN reasons ELSE reasons \cup {"overlap"}
    /\ End(r)
    /\ Still /\ UNCHANGED <<tables, server, wanted, doubts>>

RevertKey(r, p) == Session(r, p, "reverted", Absent) /\ Reads

RevertSecretKey(r) ==
    /\ At(r, "reverted")
    /\ row' = [row EXCEPT !.pending = NoText]
    /\ reasons' = Overlapping
    /\ End(r)
    /\ Still /\ UNCHANGED <<tables, server, wanted, doubts>>

\* activateSecretKey: getRawById, the pending key for the key, then the cache.
ActivateKey(r, p) == Session(r, p, "replace", row) /\ Reads

\* The cache is searched for the text of the old column.
Replace(r, new) ==
    /\ LET old == task[r].row.secret
           p   == task[r].at
       IN  /\ row' = [row EXCEPT !.secret = new, !.pending = NoText]
           /\ IF old.by = NoKey
              THEN server' = [server EXCEPT ![p].cache = @ \ {old.key}] /\ Doubted(p, {})
              ELSE UNCHANGED server /\ Doubted(p, {"encrypted"})
           /\ reasons' = IF row.secret = old /\ row.pending = new THEN Overlapping
                         ELSE reasons \cup {"overlap"}
    /\ Advance(r, "recache")
    /\ Still /\ UNCHANGED <<tables, wanted>>

\* Mutant: nothing keeps the column from being null.
ReplaceAnyKey(r) == At(r, "replace") /\ Replace(r, task[r].row.pending)

ReplaceKey(r) ==
    /\ At(r, "replace")
    /\ \/ task[r].row.pending.key # None /\ Replace(r, task[r].row.pending)
       \/ task[r].row.pending.key = None /\ End(r) /\ Reads

AddToEnvironmentSecretCache(r) ==
    /\ At(r, "recache")
    /\ IF Decrypts(Key(r), row)
       THEN server' = [server EXCEPT ![task[r].at].cache = @ \cup {row.secret.key}]
       ELSE UNCHANGED server
    /\ reasons' = Overlapping
    /\ End(r)
    /\ Still /\ UNCHANGED <<row, tables, wanted, doubts>>

\* editCallbackUrl, editWebhookUrl, editSlackNotifications and their like: one column.
EditColumn(r) == row' = [row EXCEPT !.setting = r]

\* updateCallback, updateWebhookURL, updateAlwaysSendWebhook and their like.
UpdateSetting(r, p) ==
    /\ Session(r, p, "done", Absent)
    /\ EditColumn(r)
    /\ wanted' = [wanted EXCEPT !.setting = r]
    /\ reasons' = Overlapping
    /\ Still /\ UNCHANGED <<tables, server, doubts>>

\* A row that another key encrypted makes decrypt throw.
DecryptRows(p, t) ==
    IF \A x \in tables[t] : Opens(server[p].key, x) THEN {x.text.key : x \in tables[t]}
    ELSE {None}

GetEnvironmentVariables(p) == DecryptRows(p, "variables")
GetCredentials(p) == DecryptRows(p, "credentials")

\* Mutant: the old variables stay.
KeepEnvironmentVariables(r, p) == Session(r, p, "variables", Absent) /\ Reads

\* editEnvironmentVariable: all are deleted, then the new ones inserted.
UpdateEnvironmentVariables(r, p) ==
    /\ Session(r, p, "variables", Absent)
    /\ tables' = [tables EXCEPT !["variables"] = {}]
    /\ reasons' = IF \E q \in Requests : At(q, "variables") THEN reasons \cup {"variables"}
                  ELSE reasons
    /\ Still /\ UNCHANGED <<row, server, wanted, doubts>>

InsertVariables(r) ==
    /\ At(r, "variables")
    /\ tables' = [tables EXCEPT !["variables"] = @ \cup {Encrypt(Key(r), InTheClear(r, r))}]
    /\ wanted' = [wanted EXCEPT !.rows["variables"] = {r}]
    /\ End(r)
    /\ Still /\ UNCHANGED <<row, server, doubts, reasons>>

\* upsertConnection and its like: the row is updated, or inserted.
SaveCredentials(r, p) ==
    /\ row # Absent /\ Take(r, p, Done)
    /\ tables' = [tables EXCEPT !["credentials"] = {Encrypt(server[p].key, InTheClear(0, r))}]
    /\ wanted' = [wanted EXCEPT !.rows["credentials"] = {r}]
    /\ Still /\ UNCHANGED <<row, server, doubts, reasons>>

\* signup creates an account, and its environments: createEnvironment inserts the row
\* with a default key, reads it and writes it encrypted.
CreateEnvironment(r, p) ==
    /\ row = Absent
    /\ Take(r, p, [Idle EXCEPT !.pc = "created"])
    /\ row' = Inserted
    /\ reasons' = Overlapping
    /\ Doubted(p, {})
    /\ Still /\ UNCHANGED <<tables, server, wanted>>

ReadCreated(r) ==
    /\ At(r, "created")
    /\ IF Decrypts(Key(r), row)
       THEN Set(r, [task[r] EXCEPT !.pc = "encrypted", !.row = row])
       ELSE Advance(r, "user")
    /\ Reads

WriteCreated(r) ==
    /\ At(r, "encrypted")
    /\ row' = EncryptEnvironment(Key(r), task[r].row)
    /\ server' = [server EXCEPT ![task[r].at].cache = @ \cup {task[r].row.secret.key}]
    /\ reasons' = IF row = task[r].row THEN Overlapping ELSE reasons \cup {"overlap"}
    /\ Advance(r, "user")
    /\ Still /\ UNCHANGED <<tables, wanted, doubts>>

CreateUser(r) ==
    /\ At(r, "user")
    /\ user' = TRUE
    /\ End(r)
    /\ UNCHANGED <<config, row, tables, server, bounds, wanted, doubts, reasons>>

Request(r, p) ==
    \/ RotateKey(r, p)
    \/ RevertKey(r, p)
    \/ ActivateKey(r, p)
    \/ UpdateSetting(r, p)
    \/ UpdateEnvironmentVariables(r, p)
    \/ SaveCredentials(r, p)
    \/ CreateEnvironment(r, p)

Step(r) ==
    \/ WritePending(r)
    \/ WriteRotated(r)
    \/ RevertSecretKey(r)
    \/ ReplaceKey(r)
    \/ AddToEnvironmentSecretCache(r)
    \/ InsertVariables(r)
    \/ ReadCreated(r)
    \/ WriteCreated(r)
    \/ CreateUser(r)

Boot(p) ==
    \/ \E k \in EncryptionKeys \cup {NoKey} : Start(p, k)
    \/ EncryptDatabaseIfNeeded(p)
    \/ DropConfig(p)
    \/ InsertConfig(p)
    \/ ReadEnvironments(p)
    \/ EncryptDatabase(p)
    \/ ReadRows(p)
    \/ \E x \in server[p].rows : EncryptRow(p, x)
    \/ CacheSecrets(p)
    \/ Stop(p)

EnvironmentsNext ==
    \/ \E p \in Servers : Boot(p)
    \/ \E r \in Requests : Step(r) \/ \E p \in Servers : Request(r, p)

EnvironmentsSpec == EnvironmentsInit /\ [][EnvironmentsNext]_environmentsVars
-----------------------------------------------------------------------------
(* The properties.                                                         *)

TaskLocations == {"idle", "done", "pending", "rotated", "reverted", "replace", "recache",
                  "variables", "created", "encrypted", "user"}
ServerLocations == {"down", "migrate", "drop", "insert", "read", "encrypt", "readRows", "encryptRows", "redrop",
                    "reinsert", "cache", "serving"}
RowType == [secret : Texts, pending : Texts, setting : Settings]

\* The type of every variable; the row has a key; a key in the clear is never beside a pending key that
\* is encrypted, which decryptEnvironment would return as it is.
EnvironmentsTypeOK ==
    /\ config \in [hash : EncryptionKeys \cup {NoKey}, complete : BOOLEAN]
    /\ row \in RowType /\ user \in BOOLEAN
    /\ tables \in [TableNames -> SUBSET [id : Keys, text : Texts]]
    /\ server \in [Servers -> [pc : ServerLocations, key : EncryptionKeys \cup {NoKey},
                               cache : SUBSET Keys, row : RowType, table : DOMAIN Tables,
                               rows : SUBSET [id : Keys, text : Texts]]]
    /\ task \in [Requests -> [pc : TaskLocations, at : Servers \cup {None}, row : RowType]]
    /\ starts \in 0..MaxStarts /\ stops \in 0..MaxStops
    /\ wanted \in [setting : Settings, rows : [TableNames -> SUBSET Keys]]
    /\ doubts \in [Servers -> SUBSET Doubts] /\ reasons \subseteq Reasons
    /\ row # Absent => row.secret.key # None
    /\ ~row.secret.iv => row.pending.by = NoKey

Quiet == Active = {} /\ \A p \in Servers : server[p].pc \in {"down", "serving"}

Rows == UNION {tables[t] : t \in TableNames}

\* Between requests and starts there is an encryption key with which a server starts
\* and reads every row, unless a rotation was cut short, or the configuration, or the
\* servers do not share a key.
SomeServerCanStart ==
    Quiet /\ reasons \subseteq {"creation", "variables", "overlap"} =>
        \E k \in EncryptionKeys \cup {NoKey} :
            /\ config = NoConfig \/ config.hash = k
            /\ Decrypts(k, row)
            /\ \A x \in Rows : Opens(k, x)

\* A server that serves accepts the key of the row and no other, unless the key was
\* replaced on another server, or while it was encrypted, since it started.
CacheAgrees ==
    Quiet /\ row # Absent /\ reasons \cap {"rotation", "overlap", "keys"} = {} =>
        \A p \in Serving :
            /\ "elsewhere" \notin doubts[p] =>
                   GetAccountIdAndEnvironmentIdBySecretKey(p, row.secret.key)
            /\ doubts[p] = {} =>
                   \A key \in Keys : GetAccountIdAndEnvironmentIdBySecretKey(p, key) => key = row.secret.key

\* Once the encryption is complete, every row is encrypted with that key, unless a
\* creation, a rotation or the save of the configuration was cut short, or the servers
\* do not share a key.
EncryptionIsComplete ==
    Quiet /\ config.complete /\ row # Absent /\ reasons \subseteq {"variables", "overlap"} =>
        /\ row.secret.by = config.hash
        /\ row.pending.key # None => row.pending.by = config.hash
        /\ \A x \in Rows : x.text.by = config.hash

\* A setting, and the credentials that a server reads, are those last acknowledged,
\* unless a whole row was written back that had changed since it was read; and so are
\* the variables, unless an edit of them was cut short or met another.  The rows are not
\* read where the save of the configuration was cut short (a start with another key is
\* then taken for the first one) or the servers do not share a key.
EditsAreKept ==
    Quiet =>
        /\ "overlap" \notin reasons => row.setting = wanted.setting
        /\ reasons \cap {"overlap", "config", "keys"} = {} =>
               \A p \in Serving : GetCredentials(p) = wanted.rows["credentials"]
        /\ reasons \cap {"variables", "config", "keys"} = {} =>
               \A p \in Serving : GetEnvironmentVariables(p) = wanted.rows["variables"]

\* Some key reads what is stored, and it is the key that is configured.
KeysAreReadable == SomeServerCanStart /\ EncryptionIsComplete

\* What was written last is what the servers answer by and what the row holds.
WritesTakeEffect == CacheAgrees /\ EditsAreKept
=============================================================================
