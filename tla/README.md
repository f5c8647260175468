# Nango: a verification project

TLA+ models of the parts of Nango that keep state over several steps, several
processes or several failures; the TLC configurations that check them on small
instances; and proofs, checked by TLAPS, of what matters most for every value
of the constants. Paths below are relative to `src/packages/` unless they say
otherwise.

Nango lets a customer connect the accounts of its own users at external
providers (OAuth or keys), call the providers through a proxy, and run scripts
that copy data from a provider into Nango on a schedule ("syncs"). A sync runs
for one *connection*, is started by Temporal, and must hand the customer every
change exactly as the script reports it, for years, on workers that fail.

## 1. Inventory

| Component | State | Operations | Where | Module |
|---|---|---|---|---|
| Sync runs | `_nango_syncs.last_sync_date`, `_nango_sync_jobs`, the open Temporal workflows | initial and continuous run: read and clear the date, run the script, report results or failure, restore the date | `worker/lib/`, `sync/run.service.ts`, `sync.service.ts`, `job.service.ts` | SyncRun |
| Delete tracking and records | `_nango_sync_data_records`, `..._records_deletes` (the snapshot), a job's counts | batchSave, batchDelete, mark, clear, find deleted keys, snapshot, stamps, webhook, reading by date and filter | `sync/data/`, `sdk/sync.ts`, `notification/webhook.service.ts` | DeleteTracking, Records |
| Sync lifecycle and schedules | `_nango_syncs`, `_nango_sync_schedules`, the Temporal schedules | initiate, start, delete a sync; PAUSE, UNPAUSE; change of frequency; reconciliation; reports | `orchestrator.service.ts`, `schedule.service.ts`, `clients/sync.client.ts` | SyncLifecycle |
| Connections and tokens | `_nango_connections`, the provider's tokens | authorise, import, read with refresh, metadata, delete | `connection.service.ts`, `connection.controller.ts`, `oauth2.client.ts` | Connections |
| Authentication (OAuth 1 and 2, App, API key, basic, none) | the page, its popup and socket; `_nango_oauth_sessions`; socket clients | `nango.auth()`, request, callback, answer | `frontend/lib/index.ts`, `oauth`, `appAuth`, `apiAuth`, `unauth` controllers, `web-socket.client.ts` | AuthFlows, AuthRequest |
| Integrations | `_nango_configs` and what hangs on a key | create, edit, delete, show; demo | `config.controller.ts`, `config.service.ts`, `onboarding.controller.ts` | Integrations |
| Deploy and versions | `_nango_sync_configs` (active, version), S3 | deploy from the CLI, of a template; reconciliation; deletion; download | `config/deploy.service.ts`, `config/config.service.ts`, `file/remote.service.ts`, `cli/lib/sync.ts` | Deploy |
| Files of the CLI | `nango.yaml`, scripts, `models.ts`, `dist/` | dev (watchers), init, generate, compile, dryrun, deploy | `cli/lib/sync.ts`, `index.ts`, `utils.ts` | IntegrationFiles |
| Proxy and pagination | attempts and waits of a call; the place in a collection | proxy with retries; cursor, link and offset loops | `proxy.controller.ts`, `paginate.service.ts`, `node-client/` | Proxy, Pagination |
| Failure notifications | `_nango_slack_notifications`, the messages in the channel | add and remove a failing connection, close | `notification/slack.service.ts` | Notifications |
| Environments and secrets | `_nango_environments`, variables, encrypted tables, `_nango_db_config`, a cache per server | rotate, revert, activate, edit; encrypt the database at a start | `environment.service.ts`, `encryption.manager.ts` | Environments |
| Intervals, status classification | none | getInterval, getOffset; classifySyncStatus | `nango-config.service.ts`, `orchestrator.service.ts` | SyncLifecycle (classifySyncStatus) |
| HTTP API, client libraries, accounts | rows of the services above | validation and delegation | `server/lib/controllers/`, `node-client/`, `user.service.ts` | the handlers that change state are actions of the modules above |
| Activity log, web application, errors and analytics | rows that nothing reads back to decide on, or none | | | none (section 7) |

### How they interact

    nango dev ─ dist/ ─ deploy ── HTTP API ──┬─ deploy.service ─ S3, versions ─ reconcile ─┐
    page ─ popup ─ callback ─────────────────┴─ connection.service ──────────── initiate ──┤
    dashboard, nango-node ─ commands, reports ─────────────────────────────────────────────┤
                                                                     orchestrator ── SyncClient
                                                                           │             │
                                                                       Postgres      Temporal (workflow, schedule)
                                                                           │             │
                                                                           └── run.service (worker) ── script
                                                                                   │                    │ SDK
                                                       records, snapshot, job, date           proxy → provider
                                                                                   └── Slack, webhook → customer reads

The servers and the workers share only Postgres, S3 and Temporal. The code opens
no transaction around a run, a creation, a deletion, a deploy, a rotation or a
command: each `await` is a step of its own, and every process may stop between
two of them. Where one module needs another's effect it has the least of it: a
creation of a connection is one step of SyncLifecycle and its statements are in
Connections; a deploy changes the frequency in SyncLifecycle, the versions in
Deploy and the flow of a config in Integrations. Records EXTENDS DeleteTracking
and Pagination EXTENDS Proxy: there the composition is a module.

### What is hard, and what is correct

* **Sync runs.** The date is cleared before the script starts and written after
  it ended, with a backup derived from another table. Correct: no change at the
  provider is skipped for good; a date that the script sets is respected; a sync
  that was started goes on running.
* **Records.** Each batch marks, and the end of the run clears, looks up, puts
  back, stamps and takes a snapshot, over nine statements on two tables, while a
  customer reads. Correct: what was returned is live, what was flagged stays so,
  nothing is lost, and who reads with the webhook's date has it all.
* **Lifecycle.** A sync is five objects made one after the other, with failures
  swallowed. Correct: no schedule without a sync, no sync that can never run,
  Temporal and the row agree, and so does the report.
* **Connections.** A row is read, refreshed at the provider and written back
  whole. Correct: the credentials and the metadata kept are the last ones.
* **Authentication.** Five parties, and a promise that must settle truthfully.
* **Integrations.** A deletion in five statements, half by id, half by key.
* **Deploy.** A file, then a row, then another row's flag. Correct: one active
  version, that runs its own code.
* **CLI.** Two watchers, two processes, one `models.ts`.
* **Proxy and pagination.** Retries, lost answers, a collection that changes.
* **Notifications.** A read-modify-write of a list by concurrent runs.
* **Environments.** A key in a row, in a pending column, in a cache per process,
  and an encryption of all tables at each start.

`hazards` in PROJECT.json lists each at its line, with the property that covers it.

## 2. Plan

Done, in this order: **SyncRun** and **DeleteTracking** with proofs,
**SyncLifecycle**; then **Connections**, **AuthFlows** with the abstract
specification **AuthRequest**, **Deploy**, **Proxy** and **Pagination**,
**Notifications**, **Environments**, **IntegrationFiles**, **Integrations**, and
**Records** on top of DeleteTracking.

Proofs (section 5), in this order: the types and safety of **SyncRun** and
**DeleteTracking**, the refinement of DeleteTracking by **Records**, **AuthFlows**
with its refinement of AuthRequest, **Connections**, **SyncLifecycle**,
**Notifications**, **Integrations**, **Deploy**, **Environments**,
**IntegrationFiles**, **Pagination**, and the customer of **Records**: every
invariant and action property that the runs check, and the one refinement.
Liveness is left to TLC.

Left, in the order of their worth:

1. Two syncs that declare one model (`delete.service.ts:109`), and two batches
   of one script at once (`job.service.ts:82`), as variants of Records.
2. Invitations and password resets.

## 3. How the properties are written

The handlers take no lock and open no transaction, so almost every invariant one
would wish for can be broken by *some* meeting of requests or *some* failure.
Each property therefore names, as its premise, the meetings and failures that do
break it, and claims that **nothing else does**. History variables record them:
`overlaps` (the kinds of requests that were under way together), `failed`,
`reasons`, `doubts`, `muddle`, `irregular`, `odd`, `swallowed`, `begun`. They are written by actions
and read by properties and bounds only, never by a guard that stands for code.
Each excuse is necessary: with any of them taken away TLC finds a violation
(two of `DeployReachesAll` need four events to show it).

Several properties are conjunctions of named parts, so that one run reports on
one question; the parts are named below in parentheses.

Every cfg says `CHECK_DEADLOCK FALSE`: the numbers of requests, runs and
failures are bounded, and a system that has used them up stops. Bounds are
CONSTANTS named `Max...` or `Num...` with the comment "bound". Symmetry is used
for sets of model values that no CHOOSE and no order tells apart, and only in
runs without temporal properties.

## 4. The modules, their runs and what they show

### SyncRun (run `sync_run`, and `sync_run_race`)

One sync of one connection: run 1 is the initial run that `startContinuous`
starts, the others are those that Temporal starts from the schedule.

| Model | Code |
|---|---|
| `lastDate` | `_nango_syncs.last_sync_date`, null as 0 |
| `job`, `updated` | status and updated_at of the run's row in `_nango_sync_jobs` |
| `pc` | the await the worker is at in `scheduleAndRouteSync`, `run` and `reportResults` |
| `cursor`, `start` | `lastSyncDate` (what the script is given) and `syncStartDate` |
| `open` | Temporal's view: the workflow has not closed. It differs from `pc` after a crash or after 24 hours |
| `now` | the clock; the provider changes one object per tick, and a change is named by its time |
| `delivered`, `ended`, `asked`, `setter`, `mishaps`, `overlap` | history |

Each action is one await and the code up to the next. What goes wrong is an
action too: `ScriptFails`, `UpsertFails`, `LastModelMissing` (a script that
returns nothing for its last model, so that no call of reportResults is the
last), `Throws` (into the catch of `run`, from any await in its try, that of
reporting a failure included), `Aborts` (past it), `Crash`, `Timeout`, and a job
row that could not be inserted. The script is external: it fetches what changed
after `cursor` in pages of any size, saves them or returns them, and may set the
date itself. Temporal retries an activity that throws, up to three times, and
the awaits before the try of `syncProvider` do throw (`activities.ts:34`, `36`,
`82`). They only read, so an attempt that fails there leaves no trace and is a
stutter; `Aborts` is the last one. What is thrown later is caught and returned
as a value, and after a timeout there is no other attempt, since
`scheduleToCloseTimeout` equals `startToCloseTimeout` (`workflows.ts`).

* `CursorAccounted`: the date the next run would start from, column or backup,
  never skips a change, save one made while a run that ended well was under
  way. It holds whatever fails, and is the strongest thing true without
  conditions.
* `NoMissedChangeInOrder`: no change at all is skipped if runs do not overlap
  and nothing worse happens than an exception that `run` catches.
* `UserDateKept` (action property): the run service never overwrites a date the
  script set.
* `ContinuousSyncStarts` (liveness): the continuous sync starts unless the
  initial run was cut short.
* `NoMissedChange` fails in `sync_run_race` without any fault (finding 1).

Fairness: `FairSpec` assumes that a live worker's awaits are answered
(`WF(WorkerStep(r))`) and that Temporal fires the schedule again and again
unless it was created paused. Both hold of the code: the worker has no wait
without a time limit other than the script's own, and the schedule fires by the
clock. No mishap is ever owed, and no order among runs is assumed.

Bounds: 3 runs, 2 ticks, 1 kind of mishap, which may occur several times, and a
script that may set date 2. Three runs are the least in which a run that ended
well, one that failed and one that starts from what both left meet, and the
least for two continuous runs that overlap after a timeout; two ticks give a
change before and one during a run. Two different kinds of mishap are left to
the proofs, which have no such bound. The race needs 2 runs and 3 ticks.

### DeleteTracking and Records (run `delete_tracking`)

DeleteTracking has the records of one model under `track_deletes: true` over
successive runs, without their contents; what is proved of it reaches Records by
refinement. Records EXTENDS it with what a row says: every action of
DeleteTracking is a conjunct of one of Records, which changes the new columns
along with the old ones, and the statements that touch only the new columns come
in between. A page is the rows whose place, the number of rows that come before
them, lies between the offset and the limit.

| Model | Code |
|---|---|
| `present`, `recordJob`, `pending`, `deleted` | the rows of `_nango_sync_data_records`, their sync_job_id, pending_delete and external_is_deleted |
| `snapshot`, `snapJob` | the rows of `_nango_sync_data_records_deletes` |
| `call`, `oldJob`, `gone` | the arguments of `upsert`; the job id read from the first snapshot row; what getDeletedKeys found |
| `row`, `snapRow` | data_hash, created_at, updated_at of the rows. A time is the number of the run it falls in |
| `summary`, `result` | addedKeys, updatedKeys, deletedKeys of a call; the job's counts |
| `due`, `page`, `mirror` | the customer: the webhook's time to act on, the page being read, his copy |
| `returned`, `flagged`, `ever`, `complete`, `irregular`, `odd` | history |

`ScriptReturnsRecords`/`StoreResults` is the other path of `run`, on which
`track_deletes` is not passed on. `CutShort` ends a run at any await, or a call that
the script catches to go on, after it marked or wrote something. The first snapshot row "that comes" is any row: the query has no ORDER BY.

* `ReturnedRecordsStayLive`, `FlaggedRecordsStayFlagged`: what the current run
  returned, or flagged, is not undone by it, whatever earlier runs left behind.
* `DeletionsExact`: at every moment each record ever returned is in the table or
  in the snapshot, from where it is put back, unless a run was cut short or
  batchDelete used; and after regular runs the records live are those of the
  latest run, the others flagged, the snapshot exact.
* `CustomerIsUpToDate`: a customer who reads with the date of each webhook, page
  by page, has what the last run left. Not so after a run that was cut short or
  whose webhook was lost, after a script returned records, after a batchDelete
  of a record as it was (nothing stamps it), or if a later page was read during
  a run (`torn`: pages go by offset). One who reads late misses what batchDelete
  flagged, for the next run removes the row.
* `AnswersTellWhatChanged`: the webhook's counts and what the reading calls
  added, updated and deleted are what the run did to the customer's copy; every
  filter returns the rows it names, but the one that names all three words.

Bounds: 2 records with 2 contents (symmetric), 3 runs, 2 records saved or
returned per run, pages of one record, 1 mishap; no reading after a cut (the
properties would excuse it). Three runs let a snapshot hold
rows of two earlier runs, one of them cut short; pages of one record make every
reading of two records span pages.

### SyncLifecycle (run `sync_lifecycle`)

The syncs of one flow, one per connection. A sync is five things, made and
removed one at a time: its row, its initial job, its initial workflow, its
Temporal schedule, its schedule row.

| Model | Code |
|---|---|
| `row`, `owner` | `_nango_syncs`: live or deleted, and nango_connection_id |
| `job`, `workflow` | the latest job's status, and that Temporal was asked to start `initialSync` |
| `sched`, `every` | Temporal's schedule of the sync (running, paused) and its interval |
| `status`, `frequency` | the row in `_nango_sync_schedules` |
| `config`, `connected` | `runs` of the active sync config; the connections that are not deleted |
| `task` | one record per request under way: operation, await, the sync and connection at hand, those still to do, what was read |
| `failed`, `overlaps` | history |

`Arrives` starts a request: `Initiate`, `DeleteConnection`, `DeleteFlow`,
`ReconcileDeletion`, `Command` and `CommandById`, `PauseSyncs` and `StartSyncs`
of the public API, `Deploy` (with `Reconcile`, which creates what is missing; it updates no sync when
the sync config it replaces cannot be read, which counts as a failed deploy),
`ListSchedules` (`getSyncs`). `Step` is the next await of a request, in the
code's order. `InsertJobFails`, `StartFails` (the catch of `startContinuous`),
`CallFails` (a failure that is swallowed) and `CutShort` are what goes wrong.
`Reports` is what `getSyncStatus` and the status controller answer, with
`ClassifySyncStatus`, as an operator on the state. `updateFunction` is given a
description of the schedule and returns the whole of it with another interval,
so what is sent back includes the pause state as it was when it was fetched.

* `StatusAgrees`: the row's status, Temporal's and the report's agree for a sync
  that nobody is at work on, unless a PAUSE met an UNPAUSE, either met a deploy's
  update or failed, or a sync was created while `getSyncs` found no schedule and
  marked all STOPPED.
* `DeployReachesAll` (`TemporalHasFrequency`, `RowHasFrequency`): Temporal runs a
  sync as often as the row says and the row says what is deployed, unless a
  deploy met an UNPAUSE, another deploy or a creation, or failed (no later deploy
  of that frequency repairs it), or the sync had survived a deletion.
* `DeletionLeavesNothing` (`NoOrphanSchedule`, `SyncHasConnection`,
  `SyncHasFlow`): no schedule outlives its sync, no sync its connection or flow,
  unless a creation met the deletion, or, for the first and the last, a
  deletion failed: the reconciliation drops the flow first.
* `CreationIsWhole` (`OneLiveSync`, `LiveSyncComplete`): a connection has one
  live sync unless two creations met (the index of migration 20230725102233
  includes deleted_at, null in every live row), with all five parts unless an
  await of a creation or deletion failed, which nothing repairs.

Bounds: 2 requests at a time meet in every pair; 3 events (requests, kinds of
requests that fail) give a sync to meet over, or a failure after it; 2 syncs are
a double, or one for each of 2 connections; 2 frequencies. There is no fairness:
every property is of safety, about states in which nobody is at work on the sync.

### Connections (run `connections`)

The rows of one connection id, for every kind of provider (`mode`, `rotates`,
`offline`), with the provider as a source of grants and of numbered tokens.

| Model | Code |
|---|---|
| `row`, `cred`, `meta` | `_nango_connections`: the state, credentials and metadata of each row |
| `issued`, `expired` | the provider: the newest token of a grant, the access tokens that ran out |
| `task` | the handler's locals: what it found, what it read, what it will write |
| `wanted`, `newest`, `authorized`, `failed`, `overlaps` | history |

Requests: authorise (a callback, `createConnection`, or the import of a key, which
looks once more to refuse a connection that exists), read (`getConnectionCredentials`: read, decide, refresh, store
the whole row as read), set metadata, delete. `runningCredentialsRefreshes` is
searched, but nothing is ever added to it, so concurrent reads all refresh.

* `ChangesKept` (`MetadataKept`, `LatestGrantKept`): what was written last is
  kept, unless a refresh or a second authorisation, which write back what they
  had read, met the writer.
* `RefreshesAccepted` (`TokenUsable`, `RefusedOnlyIfReadsMet`): the refresh token
  kept is one the provider accepts, however many reads refresh at once, unless
  there are two rows or an answer of the provider was lost; and a refresh is
  refused only if two reads met.
* `OneConnection` (`OneLiveRow`, `AuthorizedConnectionExists`): one row, unless
  two authorisations met; and a row, unless the authorisation met a deletion.

Bounds: 2 requests at a time of up to 4, 2 rows (a double), 4 events: an
authorisation, its deletion or another, and two that meet. No fairness.

### AuthFlows and AuthRequest (run `auth_flows`)

One page, its `Nango` object, popups and sockets, the server's handlers, the
session, the provider and the user, for six modes of authentication.

| Model | Code |
|---|---|
| `status`, `win`, `tm` | `this.status`, `this.win`, `this.tm` of the Nango object, shared by its calls |
| `timers`, `promise` | per call: its interval is running; the promise it returned |
| `window`, `msg`, `clients` | the popup's (or fetch's) progress, the message on the socket, the sockets this process knows |
| `task`, `writing` | where each handler is; rows being written with nobody waiting (OAuth 1) |
| `session`, `connected`, `started` | `_nango_oauth_sessions`; the connection's row; its syncs |
| `faults` | bound |
| `swallowed`, `begun`, `reason` | history: of whose syncs some start failed unnoticed, whose row began to be written with nobody waiting, why a call may be rejected |

AuthRequest is what `auth()` promises without any of this. A promise settles
once. It is resolved only when the connection is written and the start of its
syncs is over: each was started, or that it was not is on record as swallowed
(no client for Temporal, a failure in `startContinuous`, a row that was not
returned), for success is told either way. OAuth 1 resolves once the row *began*
to be written, which may still fail, and starts no syncs.

* `ImplementsAuthRequest`: AuthFlows implements AuthRequest, with
  `awaited <- mode # "OAuth1"` and the other variables as they are.
* `RejectedHasReason`: a page that is told "not connected" is told the truth,
  unless one of eight named things happened (the popup was closed, a message of
  an earlier call took the status, the server restarted, ...).
* `AuthSettles` (liveness): every promise settles, unless the interval of an
  earlier call runs: it clears the new call's and rejects only its own promise.

Fairness: the page's code runs, a user does not leave a popup open for ever
(`WF(Closes)`), and the server's handlers go on. The first and the last hold of
any process that is up; a stop of the server is a fault that ends its handlers.
Without the second a promise waits as long as the user does, as it should.

Bounds: 2 calls (enough for every sharing of the object's fields) and 1 fault.

### Deploy (run `deploy`)

The flows of an environment, their versions and their files.

| Model | Code |
|---|---|
| `row` | `_nango_sync_configs`: flow, version, active, deleted, and whether it is a template |
| `file` | S3: what lies under `<config id>/<flow>-v<version>.js` |
| `source` | S3: the `.ts` beside it, whose name has no version |
| `configs` | the provider configs that are not deleted |
| `task` | the deploy's or deletion's locals |
| `muddle` | history: what has happened to a flow since it was deployed in order |

A deploy uploads a file and a source for each flow, reads the old rows, inserts
all new ones in one statement, deactivates the old ones in another, and deletes
what is no longer in the customer's folder; the customer has confirmed a list
computed before. `DeployPreBuilt`, `DeleteFlow` and `DeleteProviderConfig` are
the other requests. `UploadFails`, `SourceUploadFails`, `PreviousUnread` and
`OldUnread` are the errors that the services swallow.

* `ActiveVersion` (`OneActiveVersion`, `ActiveVersionRunsItsCode`,
  `SourceOfActiveVersion`): one active version, that runs its code and whose
  source is the one a download gets, unless a named thing happened since the
  flow was last deployed in order: so the next deploy in order mends it.
* `DeletionsAreRight` (`ActiveFlowHasConfig`, `DeletesWhatWasShown`): no active
  flow of a deleted provider config, and the reconciliation deletes nothing
  that the customer was not shown, unless somebody else deployed meanwhile.

Bounds: 2 flows, 3 requests, 2 of them at a time, 1 mishap, which is an overlap
or a failure: 3 requests are a state, something that goes wrong, and what
mends it. No fairness.

### Proxy and Pagination (run `pagination`)

Proxy is one call from the caller to the provider and back: the checks, the
attempts that `backOff` (external) counts, the waits, the answer, which is lost when
a response, or the handling of an error, throws (`ResponseLost`). Pagination
EXTENDS it with `paginate` of a script: each page is such a call.

| Model | Code |
|---|---|
| `retries`, `attempt`, `pc` | the header Retries (NaN if it is no number), the attempts that failed, where the call is |
| `down` | the provider answers nothing but 5xx |
| `type`, `limit`, `next` | the paginate configuration; the offset, cursor or link |
| `items`, `cap`, `hidden` | the provider: the collection, its own page size, items it filters after cutting a page |
| `delivered`, `repeated`, `steady`, `reasons` | history |

A page of the provider is cut by the number of items that come before, as a
position in a list would; the next cursor or link is the last item on it.

* `LoopIsExact` (`LoopTypeOK`, `LoopIsComplete`, `NothingTwice`): a loop that returns
  has given the script every item that was there all the time, once, whatever
  was retried on the way, unless the provider gave an empty page with more to
  come or, by offset, a page shorter than the limit, or the collection shrank
  (items missed) or grew (items twice).
* `LoopEnds` (liveness): the loop ends, unless an answer got lost (nobody awaits
  `handleResponse`) or the provider is down and the header is not a number.

Fairness: `WF(Steps)`: promises and timers of the proxy and the script go on,
and the provider answers each request in one way or another. No fault and no
success of an attempt is owed. Axios is given no timeout, which is why a lost
answer must be excused.

Bounds: 3 items, of which 1 changes, pages of up to 2, 2 retries, 1 fault: two
pages and a rest, a change between any two of them.

### Notifications (run `notifications`)

The Slack notification of one sync, and the runs of its connections.

| Model | Code |
|---|---|
| `enabled`, `connected`, `closing`, `live` | the environment's setting, the account's Slack connection, its deletion under way, the sync's connections |
| `row` | `_nango_slack_notifications`: open, connection_list, slack_timestamp |
| `message` | what the channel shows |
| `task`, `failing` | the report of a run; the connections whose last run failed |
| `accounted`, `reasons` | history |

* `FailuresAreReported` (`ListIsRight`, `ChannelAgrees`): a connection whose last
  run reported alone is on an open notification exactly when it fails, whatever
  overlapped before; and the channel shows the open notification and its count,
  unless reports overlapped, one was not sent, or Slack was disconnected.

Bounds: 2 connections, 5 runs (an overlap, and what heals it), 2 other events.
No fairness.

### Environments (run `environments`)

One environment, the servers, and the rows that hold secrets.

| Model | Code |
|---|---|
| `config` | `_nango_db_config`: the hash of the encryption key, encryption_complete |
| `row` | the environment's row: secret_key, pending_secret_key (text, key it is encrypted with, iv), and its settings as one column |
| `tables` | connections and provider configs as one table, environment variables as another |
| `server` | its NANGO_ENCRYPTION_KEY, the cache of secret keys, the locals of its start |
| `task` | rotations, reverts, activations and edits under way, with the row they read |
| `wanted`, `doubts`, `reasons` | history |

A start compares the key's hash, then encrypts every table, row by row as read
before, around the deletion and insertion of the configuration.

* `EnvironmentsTypeOK` also says that the row always has a key and that a key in
  the clear never stands beside an encrypted pending one, which
  `decryptEnvironment` would hand out as it is.
* `KeysAreReadable` (`SomeServerCanStart`, `EncryptionIsComplete`): between
  requests some key opens every row and a server starts with it; once the
  encryption is complete all is encrypted with that key; unless a rotation, a
  creation or the save of the configuration was cut short, or the servers do not
  share a key.
* `WritesTakeEffect` (`CacheAgrees`, `EditsAreKept`): a server accepts the row's
  key and no other, unless it was replaced on another server; and settings,
  credentials and variables are those last acknowledged, unless a whole row was
  written back that had changed meanwhile.

Bounds: 2 servers, 2 keys (and none), 3 requests, 2 starts, 1 stop. Two starts
are two servers, or a restart with another key. No fairness.

### IntegrationFiles (run `integration_files`)

The directory `nango-integrations`: `yaml`, `ts`, `models`, `dist` are its
files; `dev` with `events` and `changes` is `nango dev` and what its two
watchers have yet to handle; `command` is the other command under way. The
developer saves and removes scripts and changes `nango.yaml` at any time. The
compiler is the checks that decide whether a script gets a file in `dist/`.

A configuration is its flows, whether each has `runs` (or too short ones), the
state of its models, whether a flow returns one, and whether names are unique.
One that is `Unreadable` ends a command and, in the watcher of `nango.yaml`,
`nango dev` itself, with `models.ts` as it was; so do a returned model without
an id and names that are not unique, each where the code checks it. A sync without
`runs` is left out of what is sent, as is every flow but the one that is named.
`dev` scaffolds a missing `nango.yaml`, and with `--no-compile-interfaces` it does
not watch it.

* `FilesTypeOK` also says that nothing the checks refuse ever gets into `dist/`.
* `DevKeepsUp` (`DistIsCurrent`, `ModelsAgree`): when dev has handled all, what it
  compiles under the configuration *it has read* is compiled, and `models.ts` is
  made of `nango.yaml`, unless one of six named things happened (`doubts`): a
  refused configuration is one, a change that dev was not watching another.
* `RunsWhatIsWritten` (`DeploymentMatches`, `DryRunIsFaithful`): a deployment sends,
  of the flows it is to send (`Chosen`: with `runs`, and of the name that was
  given), the file compiled from the script as it is, for each that compiled and
  was not touched since, and nothing of the others; a dry run runs it, if the
  script is a flow of the configuration. (For one that did not compile, deploy
  sends the older file, or leaves the flow out.)

Bounds: 1 script, 5 configurations (what the refusals and omissions need; too short
`runs` and a flow that returns nothing are only in the proofs), 2 edits, 1 command
beside dev, 1 start. Scripts share only `models.ts`.

### Integrations (run `integrations`)

The provider configs of one key. A flow points at the *id* of a config and a
sync at that of a connection, but a connection names only the *key*: `config`,
`flows`, `conn`, `sync`, `dropped` are the rows; `edited`, `under`, `removed`,
`answers`, `failed`, `overlaps` are history.

* `IntegrationIsWhole` (`OneIntegration`, `DeletionIsComplete`): one live config
  has the key, and nothing of a deleted one is left, unless two creations met,
  another request met the deletion, or it failed after the config was marked: it
  cannot be repeated then, and its connections pass to the next config.
* `RequestsFit` (`OnlyWhatWasFound`, `AnswersAgree`): an edit and a deletion reach
  the integration they found and no other, and an answer shows what belongs
  together, unless the key got another config meanwhile.

Bounds: 2 requests at a time, 3 configs, 3 connections, 3 syncs, 4 events. No
fairness.

## 5. Proofs

Every theorem is of the component's own specification and holds for every value
of its constants: any number of records, runs, requests, rows, connections or
mishaps, where the runs of section 4 have two or three. Each module names what
it assumes of its constants: that a bound is a number, that a set is finite, that
a value is not another. These of them the proofs use:

| Module | Assumptions the proofs use |
|---|---|
| SyncRun | `DatesAssumption` (a script sets positive dates) |
| Records | `KeysAssumption` (finitely many external ids, numbered in their order), `ContentsAssumption`, `PageSizeAssumption` (a limit of 0 would be none) |
| AuthFlows | `FaultsAssumption` |
| Connections | `EventsAssumption` |
| SyncLifecycle | `FrequenciesAssumption` ("none" is no frequency) |
| Notifications | `ConnectionsAssumption` (finitely many), `RunsAssumption`, `EventsAssumption` |
| Integrations | `RowsAssumption`, `EventsAssumption` |
| Deploy | `FlowsAssumption`, `RequestsAssumption`, `MishapsAssumption` |
| Environments | `NoKeyAssumption`, `ServersAssumption` (no request is a server), `BoundsAssumption` |
| IntegrationFiles | `ConfigsAssumption`, `MissingAssumption` (a missing file is no configuration), `BoundsAssumption` |
| Pagination, Proxy | `ItemsAssumption`, `ChangesAssumption`, `PageAssumption`, `RetriesAssumption`, `FaultsAssumption` |

Three modules of proofs are about two components each: SyncRunProofs about
SyncRun and Environments, DeleteTrackingProofs about DeleteTracking with Records
and IntegrationFiles, IntegrationsProofs about Integrations and Pagination. The
two share no name, which is why the specifications of the second are called
`EnvironmentsSpec`, `FilesSpec` and `LoopSpec`, with `...Init`, `...Next` and
`...TypeOK` to match; a theorem is about the one whose specification it names.

Hardly any property of the runs is inductive: each is about a moment when nobody
is at work, or about a row, while the code keeps what it has read in a local
across awaits. The strengthening is therefore of one form: what each handler
under way *holds* at each of its awaits, and for which meetings with others that
may be wrong. Each was checked by TLC on a small instance before it was proved.
A first layer (`CoreInv`, `FlowInv` in AuthFlows) has the types, what the await
a handler is at says of its locals, and that requests that are under way together
are on record as having met; the rest is proved on top of it, action by action.

### SyncRunProofs

* `TypeCorrect`.
* `CursorsAccounted` (`CursorAccounted`): a date is first in a local of a run
  (`cursor`, `start`) and only later in a row. `DatesAccounted` adds that the
  column, every cursor that was read and every date about to be written is
  accounted for, that what the script has fetched lies in `delivered`, and that
  no change lies between the start of a run and its job's updated_at but in that
  run's window.
* `UserDatesKept` (`UserDateKept`, an action property) from `Alone`: as long as
  no two runs have overlapped, at most one is between its first and last await.
* `NothingMissedInOrder` (`NoMissedChangeInOrder`) from `OrderInv`: while all is
  in order the date of an earlier success is in the column or with the run under
  way (`DateIsKept`), so that no run resorts to the backup, and every date at
  hand, in whatever local, has all the changes up to it delivered, or waived by
  the script (`DatesDelivered`). Nothing is excused for the windows of runs, as
  it is in `CursorAccounted`, which is why both are needed.

Environments, from `EnvironmentInv`. `CoreInv` has what each await of a request
and of a start says of its locals, and what they may hold.

* `Typing` (`EnvironmentsTypeOK`): a whole row is written back, so every row that
  a request or a starting server holds to write must itself be well formed
  (`TasksFit`, `ServersFit`).
* `Readable` (`KeysAreReadable`). As long as the servers share a key (`OneKey`)
  and no save of the configuration was cut short, the configuration tells the
  key of whatever is encrypted (`ConfigTells`): a server gets past the check
  with another key only when nothing is encrypted yet. And what an encrypting
  server has passed stays encrypted behind it (`RowSealed`, `TablesSealed`,
  `PendingSealed`), for who writes there encrypts; `RowsListed` and `FirstTable`
  have what it has still before it.
* `Effective` (`WritesTakeEffect`). A whole row that is held to be written back
  is the row, unless the two met (`HeldRows`); so the settings, credentials and
  variables are those acknowledged last (`SettingKept`, `CredentialsKept`,
  `VariablesKept`), and a cache has the row's key or a request is about to see
  to it (`CacheFits`).

### DeleteTrackingProofs

* `TypeCorrect`, `ReturnedStayLive`, `FlaggedStayFlagged`. No row and no local
  names a job later than the current one (`JobsInOrder`), and a row that the
  current run returned or flagged carries its job id (`TouchedIsCurrent`):
  marking goes by job id, and only for that reason does it leave these alone,
  although snapshot rows of several runs may be mixed.
* `DeletionsAreExact` (`DeletionsExact`), from two invariants. `UncutInv`, while
  no run was cut short: the rows of one job are marked together
  (`JobsHangTogether`), the snapshot is the table as the last run left it
  (`SnapshotIsPicture`; a row of it that is saved again carries a later job than
  every row of the snapshot, which is what makes the *first* row's job id a safe
  choice), and every record is in one or the other (`NothingLost`).
  `RegularInv`, after regular runs: what the run under way has left of the
  earlier ones (`RowsAccounted`), and that the first batchSave marks the rows of
  the last run and no others (`MarkedAreMissing`).
* `RecordsRefineDeleteTracking`: Records, the detailed module, implements
  DeleteTracking: each of its actions takes a step of the tracking or leaves its
  variables alone. So `RecordsDeletionsAreExact`: what the customers read is the
  table of which the deletions are exact.

The customer of Records, wherever the readings come between the statements of
the runs, on top of `ColumnsInv` (types; no stamp is later than the last run, and
a delta is the time of a run that was reported: `Times`, `Steps`, `Punctual`) and
`Filled`:

* `UpToDate` (`CustomerIsUpToDate`) from `FairInv`, which is about the histories
  that the property does not excuse. What the snapshot says is what a run found
  (`Pictured`, `Untouched`), so what it changed in the records is what they show
  otherwise than the snapshot; that is stamped with its time or will be by the
  statement under way, and counted (`ChangesMarked`), which is why a webhook is
  sent whenever there is something to fetch. What the customer lacks is among the
  rows that its delta selects, on a page that is still to come, or a change of
  the run under way (`AtRest`, `InRun`, `AtEnd`). That the pages add up to the
  whole is a count: an answer has as many places as rows (`PlacesFit`), so a page
  that is not full is the last (`LastPage`).
* `AnswersTell` (`AnswersTellWhatChanged`) from `ExactInv`, for the histories in
  which nothing was out of the way: a row new in the customer's copy has two
  equal stamps, an altered one two different ones, a lost one the flag, each the
  time of the run, or the statement that will stamp it is next (`RowsTell`); and
  what the result has not counted yet is in the summary (`CountsTell`).

IntegrationFiles, from `FilesInv`:

* `FilesTyping` (`FilesTypeOK`).
* `KeepsUp` (`DevKeepsUp`). The watcher's events are handled in their order, so
  that only the last of a script matters (`EventsFit`); what compiles is compiled
  or has an event before it (`DistFits`, `Waiting`). `models.ts` has the
  interfaces and then the flows of the configuration that was read, unless two
  wrote it at a time (`Beside`, `ModelsFit`), flows were appended to what has some
  (`Twice`), or the configuration was refused.
* `RunsFaithfully` (`RunsWhatIsWritten`): what the command compiled, and nobody
  touched, is in `dist/` as it was compiled (`CompiledFits`), the command runs
  nothing else (`RunFits`), and packs with the configuration it chose by, or
  knows of the change (`ConfigFits`).

### SyncLifecycleProofs

* `TypeCorrect` from `CoreInv`.
* `CreationLeavesAll` (`CreationIsWhole`): unless two creations met, what
  `Initiate` found, that the connection has no live sync, is still so when it
  inserts one (`NoneFound`); and each part of a live sync is there or a handler
  is before the await that makes it (`PartsAreMade`).
* `NothingIsLeft` (`DeletionLeavesNothing`): a deleted sync has no schedule in
  Temporal (`SchedulesGo`), and each sync that has to go with a connection or a
  flow is among those that the deletion has still before it
  (`ConnectionsCovered`, `FlowCovered`). The two need each other: a sync is left
  out exactly when it was created between the reading of the list and the drop.
* `RowsTellTheSchedule` (`StatusAgrees`): the schedule of a sync agrees with its
  row, or the one command at it has done the one and will do the other
  (`StatusKept`).
* `DeploysReachAll` (`DeployReachesAll`): Temporal's intervals are the rows'
  except between the two writes of an UNPAUSE or a deploy (`TemporalKept`), and
  a row that is not what is deployed is still ahead of a deploy (`RowsKept`,
  on top of the invariant of deletions: a sync that survived one is excused).

### ConnectionsProofs

* `TypeCorrect`, with handlers and grants (`HandlersFit`, `GrantsFit`).
* `ConnectionIsOne` (`OneConnection`): what `checkIfConnectionExists` found
  holds when the statement that relies on it runs (`NothingFound`,
  `FoundIsLive`).
* `LastWriteIsKept` (`ChangesKept`): a handler that will write a whole row back
  holds the latest metadata (`StoredIsWanted`) and grant (`ReadIsNewest`).
* `TokensAreAccepted` (`RefreshesAccepted`): each grant belongs to one row
  (`GrantsApart`); a token that is used up is in nobody's hands but of the read
  that will write its successor (`TokensHeld`, `NewestHeldOnce`), and a row has
  the newest token or such a read is under way (`RowsKeepUp`, `ReadKeepsUp`).
  That is why refreshes at the same time do no lasting harm, though the table
  of running refreshes is never filled.

### AuthFlowsProofs

* `TypeCorrect`, and `FlowsImplementRequest` (`ImplementsAuthRequest`): the
  initial states map to initial states and every step to a step of AuthRequest
  or a stutter. It needs that the row comes before the start of the syncs, and
  both before the success is told, or that the row began to be written
  (`RowFirst`, `ToldLast`). AuthRequest states no fairness, so this is the whole
  of the refinement.
* `RejectionsHaveReasons` (`RejectedHasReason`): as long as nothing has befallen
  a call, its callback is the only one, only callbacks write rows, and only for a
  session that they took (`Alone`, `SessionTaken`, `InOrder`): a page that is
  told of an error is told by the end of the only handler that could write.

### NotificationsProofs

* `TypeCorrect`: that there is a row and a message for every run is a count: the
  rows used and the reports that may still insert one are no more than the runs
  (`RoomForRows`, `RoomForMessages`). This needs finitely many connections.
* `FailuresReachTheChannel` (`FailuresAreReported`): `OneAtATime`,
  `ReadIsCurrent` and `AloneIsExact` say that a report that met no other has
  read the list as it is when it writes it; `AccountedHolds` is the property.
  `ChannelInStep` follows the report from the row to the message.

### IntegrationsProofs

* `TypeCorrect`.
* `KeyHasOne` (`IntegrationIsWhole`): one live config while no two creations met
  (`OneConfig`), and flows, connections and syncs follow it (`FlowsGo`,
  `ConnectionsGo`, `SyncsGo`), each with what the deletion under way has still
  before it.
* `RequestsStay` (`RequestsFit`) on top of it: while a request is under way the
  config it found is the only one of the key (`EditsFit`, `RemovalsFit`), and
  what it read for its answer is that config's (`FlowsShown`,
  `ConnectionsShown`).
* `LoopsAreExact` (`LoopIsExact`) of Pagination, from `LoopInv`. By cursor and
  link, what comes before the position is given (`GivenBefore`, `PageAfter`). By
  offset a position is a number of items: as long as nothing is removed, what has
  an earlier place is given (`GivenPlaces`, `PagePlaces`), and as long as nothing
  is added or filtered, what is given has an earlier place (`PlacesGiven`,
  `PlacesPage`). `Before`, the number of items ahead of one, is the only thing
  counted; that a position of the collection is one of what is left of it is
  proved by counting, not by induction over the pages.

### DeployProofs

* `TypeCorrect`, `ActiveVersionHolds` (`ActiveVersion`), `DeletionsHold`
  (`DeletionsAreRight`), from `CoreInv` and `VersionInv`.
* `VersionInv` has, for each flow, that one version is active and its file, its
  source and its provider config are there (`OneActive`, `FileThere`,
  `SourceThere`, `ConfigThere`), and for each request and flow what the request
  knows: that the rows it read are all the active ones (`OneLeft`), that the
  version it chose is above them (`NewVersion`), that its file and source are
  uploaded and its config was seen (`FileUploaded`, `SourceUploaded`,
  `ConfigSeen`, `RowsGone`). Each part names the mishaps that may spoil it, as
  the property does.
* The proof goes by a frame. Requests that touch the same flow have marked it
  "overlap", and neither counts as alone on it (`Apart`). So each action is shown
  once to change nothing but flows its request touches, and there only in one of
  a few ways, or to mark what it changed (`Frame`); for all other flows and all
  other requests one lemma per conjunct then suffices, and only the acting
  request's own flows are taken action by action.

### What is only model-checked

* Liveness: `ContinuousSyncStarts`, `AuthSettles`, `LoopEnds`. Fairness and
  ENABLED are beyond the prover.
* `NoMissedChange` is false (finding 1).

Every other property of the runs is a theorem. What the proofs do not reach is
what the models leave out (section 7).

### What the proofs changed in the models

Three things that no run had shown were set right on the way.
`WritesTakeEffect` of Environments must make an exception for a configuration
whose insertion was cut short ("config"), be it the first or the second one: the
next start is taken for the first and encrypts what is encrypted. `SUBSET Words \ ...` in
`AnswersTellWhatChanged` can be read in two ways and now has parentheses. And
arms of a CASE that overlapped (the filters of `getDataRecords`, the commands of
the CLI), of which TLC takes the first and the logic any, are now disjoint. Pages
were written with sorted sequences before, and are now sets given by the number
of rows ahead, about which one can count.

## 6. Findings

The run `sync_run_race` shows the first. The others were met while modelling; they
are in the modules as the code has them, and most are why a property must make an
exception.

1. `reportResults` marks the job SUCCESS before it writes the date. A continuous
   run that starts in between (the initial run is another workflow, so BUFFER_ONE
   does not separate them) reads a null column, takes the backup, which is the
   *end* of the run, and skips what changed during it. `run.service.ts:515-517`
   says changes made during a run are not missed.
2. A script that fails leaves the date cleared: only the catch restores it, and a
   failing script does not throw in `run` (`run.service.ts:300`, `454`).
3. An initial run that is cut short leaves its job RUNNING for good, and every
   continuous run is skipped while it is (`activities.ts:82`).
4. Deletions are not tracked for scripts that return their records
   (`run.service.ts:415-436`, against `docs-v2/guides/custom.mdx:428`).
5. A record that batchDelete flags is removed by the next run; one that it flags
   without other changes gets no stamp, so no reading by date shows it.
6. Readings go page by page by offset: one during a run is torn.
7. `deleteConfig` passes the id of a row where that of a provider config is
   expected (`orchestrator.service.ts:133`): another flow loses its files.
8. The failure of the `.js` upload is noticed after the `.ts` is uploaded, that of
   the `.ts` never.
9. `runningCredentialsRefreshes` is never filled (`connection.service.ts:568`).
10. The header Retries counts attempts, and NaN is no limit
    (`proxy.controller.ts:613`, against `docs-v2/spec.yaml:760`).
11. A connection that is deleted while it fails stays on the open notification
    (`slack.service.ts:529` is reached by a run of it only).
12. The unique indexes of syncs, connections and provider configs contain
    deleted_at, null in live rows, and so prevent no double.

## 7. Not modelled

Within modelled components:

* Sync runs: the deletion of a sync during its run, which is also the only way to a
  report that nobody awaits (`run.service.ts:547`).
* Records: two syncs that declare one model, two batches at once (plan, step 2);
  the encryption of records, which leaves stamps and keys as they are.
* Lifecycle: the offset of a schedule (`getOffset`, `getInterval`: a phrase of
  the `ms` library and the wall clock, that reach no state but the phase); RUN,
  which only triggers a run; RUN_FULL, which the client does not implement; the
  deletion of the connections of a provider config (in Integrations).
* Authentication: the page's legacy answer without a socket; URLs and signatures.
* Deploy: local files of a self-hosted server, `nango.yaml` in S3 (one object,
  never read to run a flow).
* Notifications: the administrators' duplicate, which goes the same way; two reports
  of one connection at a time (after a timeout, or of two of its actions). Reports
  of two connections overlap, and for any overlap the properties make an exception.
* Environments: the public and the HMAC key (plain columns), synced records
  (which `encryptDatabase` leaves alone).
* CLI: its upgrade, docker commands, the texts of templates.

Not at all: the activity log (nothing reads it back to decide on), the web
application, `integration-templates/` (examples), errors, metrics and analytics,
the access middleware, invitations and passwords. Everywhere: formatting, log
texts, telemetry, and what a script computes.
