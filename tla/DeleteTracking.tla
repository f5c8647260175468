--------------------------- MODULE DeleteTracking ---------------------------
(***************************************************************************)
(* The records of one model of one connection under a sync that has        *)
(* track_deletes: the records table, the snapshot table that the last run  *)
(* left, and the statements by which a run saves records and finds out     *)
(* which ones are gone.  None of them are in a transaction.                *)
(*                                                                         *)
(*   shared/lib/sdk/sync.ts                       batchSave, batchDelete   *)
(*   shared/lib/services/sync/data/data.service.ts    upsert               *)
(*   shared/lib/services/sync/data/delete.service.ts  mark, clear, snapshot*)
(*   shared/lib/services/sync/run.service.ts      run, finishSync          *)
(*                                                                         *)
(* A record is its external id, one of Keys; its contents and its time     *)
(* stamps, which take some behaviours away, are added in Records.          *)
(* Runs come one after the other, and each has a job id of its own.        *)
(***************************************************************************)
EXTENDS Integers, FiniteSets

CONSTANTS
    Keys,       \* the external ids
    MaxJobs     \* bound: the runs of the sync

ASSUME MaxJobsAssumption == MaxJobs \in Nat

VARIABLES
    present,    \* _nango_sync_data_records: the external ids of its rows
    recordJob,  \* sync_job_id of the row
    pending,    \* rows with pending_delete
    deleted,    \* rows with external_is_deleted
    snapshot,   \* _nango_sync_data_records_deletes: the ids of its rows
    snapJob,    \* sync_job_id of the row
    pc,         \* the await the run is at, "idle" between runs
    job,        \* the run's job id, 0 before the first run
    call,       \* the call of upsert: its records, and softDelete
    oldJob,     \* markRecordsForDeletion: the job id it read
    gone,       \* getDeletedKeys: the snapshot rows it found no record for
    returned,   \* history: what the latest run returned, by batchSave or at the end
    flagged,    \* history: what the latest run passed to batchDelete
    ever,       \* history: everything a run has ever returned
    complete,   \* history: the latest run went through finishSync to its end
    irregular   \* history: what the runs did besides saving and finishing

tables == <<present, recordJob, pending, deleted>>
snapshotTable == <<snapshot, snapJob>>
history == <<returned, flagged, ever, complete, irregular>>
vars == <<tables, snapshotTable, pc, job, call, oldJob, gone, history>>

Locations == {"idle", "script", "select", "mark", "upsert", "store",
              "clear", "find", "insert", "drop", "take"}
Irregularities == {"cut", "empty", "batchDelete", "results"}
NoCall == [records |-> {}, softDelete |-> FALSE]

Goto(from, to) == pc = from /\ pc' = to

Init ==
    /\ present = {} /\ pending = {} /\ deleted = {}
    /\ recordJob = [k \in Keys |-> 0]
    /\ snapshot = {} /\ snapJob = [k \in Keys |-> 0]
    /\ pc = "idle" /\ job = 0 /\ call = NoCall /\ oldJob = 0 /\ gone = {}
    /\ returned = {} /\ flagged = {} /\ ever = {} /\ complete = FALSE /\ irregular = {}

StartRun ==
    /\ job < MaxJobs
    /\ Goto("idle", "script")
    /\ job' = job + 1
    /\ returned' = {} /\ flagged' = {} /\ complete' = FALSE
    /\ UNCHANGED <<tables, snapshotTable, call, oldJob, gone, ever, irregular>>

(***************************************************************************)
(* batchSave and batchDelete: upsert with track_deletes.                   *)
(***************************************************************************)

\* A call with an empty list returns at once.
Batch(records, softDelete) ==
    /\ records # {}
    /\ Goto("script", "select")
    /\ call' = [records |-> records, softDelete |-> softDelete]
    /\ irregular' = irregular \union IF softDelete THEN {"batchDelete"} ELSE {}
    /\ UNCHANGED <<tables, snapshotTable, job, oldJob, gone, returned, flagged, ever, complete>>

\* markRecordsForDeletion reads the job id off the first row of the snapshot
\* that comes, with no order asked for, and marks nothing if there is no row.
SelectOldJob ==
    /\ pc = "select"
    /\ \/ /\ snapshot = {}
          /\ pc' = "upsert"
          /\ UNCHANGED oldJob
       \/ \E first \in snapshot :
             /\ oldJob' = snapJob[first]
             /\ pc' = "mark"
    /\ UNCHANGED <<tables, snapshotTable, job, call, gone, history>>

\* Mutant: every row of the model is marked, whichever run saved it.
MarkAllRecordsForDeletion ==
    /\ Goto("mark", "upsert")
    /\ pending' = pending \union present
    /\ UNCHANGED <<present, recordJob, deleted, snapshotTable, job, call, oldJob, gone, history>>

MarkRecordsForDeletion ==
    /\ Goto("mark", "upsert")
    /\ pending' = pending \union {k \in present : recordJob[k] = oldJob}
    /\ UNCHANGED <<present, recordJob, deleted, snapshotTable, job, call, oldJob, gone, history>>

\* Mutant: the records are saved without a job id.
StoreRecordsWithoutJob(records, softDelete) ==
    /\ present' = present \union records
    /\ recordJob' = [k \in Keys |-> IF k \in records THEN -1 ELSE recordJob[k]]
    /\ pending' = pending \ records
    /\ deleted' = IF softDelete THEN deleted \union records ELSE deleted \ records

\* insert ... on conflict merge: the row gets every column of the new record.
StoreRecords(records, softDelete) ==
    /\ present' = present \union records
    /\ recordJob' = [k \in Keys |-> IF k \in records THEN job ELSE recordJob[k]]
    /\ pending' = pending \ records
    /\ deleted' = IF softDelete THEN deleted \union records ELSE deleted \ records

Upsert ==
    /\ Goto("upsert", "script")
    /\ StoreRecords(call.records, call.softDelete)
    /\ call' = NoCall
    /\ IF call.softDelete
       THEN /\ returned' = returned \ call.records
            /\ flagged' = flagged \union call.records
       ELSE /\ returned' = returned \union call.records
            /\ flagged' = flagged \ call.records
    /\ ever' = ever \union call.records
    /\ UNCHANGED <<snapshotTable, job, oldJob, gone, complete, irregular>>

(***************************************************************************)
(* The end of the script.                                                  *)
(***************************************************************************)

\* It returns nothing: run goes on to finishSync.
ScriptReturnsVoid ==
    /\ Goto("script", "clear")
    /\ irregular' = irregular \union IF returned = {} THEN {"empty"} ELSE {}
    /\ UNCHANGED <<tables, snapshotTable, job, call, oldJob, gone, returned, flagged, ever,
                   complete>>

\* It returns its records: run calls upsert without track_deletes, reports the
\* results without it too, and so neither marks, nor clears, nor takes a snapshot.
ScriptReturnsRecords(records) ==
    /\ Goto("script", "store")
    /\ call' = [records |-> records, softDelete |-> FALSE]
    /\ irregular' = irregular \union {"results"}
    /\ UNCHANGED <<tables, snapshotTable, job, oldJob, gone, returned, flagged, ever, complete>>

\* An empty result is reported with trackDeletes, which takes a snapshot.
StoreResults ==
    /\ Goto("store", IF call.records = {} THEN "drop" ELSE "idle")
    /\ StoreRecords(call.records, FALSE)
    /\ call' = NoCall
    /\ returned' = returned \union call.records
    /\ flagged' = flagged \ call.records
    /\ ever' = ever \union call.records
    /\ complete' = (call.records # {})
    /\ UNCHANGED <<snapshotTable, job, oldJob, gone, irregular>>

(***************************************************************************)
(* finishSync and reportResults.                                           *)
(***************************************************************************)

\* Mutant: the rows flagged as deleted are cleared too.
ClearOldAndDeletedRecords ==
    /\ Goto("clear", "find")
    /\ present' = present \ (pending \union deleted)
    /\ deleted' = {}
    /\ pending' = {}
    /\ UNCHANGED <<recordJob, snapshotTable, job, call, oldJob, gone, history>>

ClearOldRecords ==
    /\ Goto("clear", "find")
    /\ present' = present \ pending
    /\ deleted' = deleted \ pending
    /\ pending' = {}
    /\ UNCHANGED <<recordJob, snapshotTable, job, call, oldJob, gone, history>>

\* getDeletedKeys: the snapshot left-joined with the records.
FindDeletedKeys ==
    /\ gone' = snapshot \ present
    /\ Goto("find", IF snapshot \subseteq present THEN "drop" ELSE "insert")
    /\ UNCHANGED <<tables, snapshotTable, job, call, oldJob, history>>

\* The rows of the snapshot go back in, flagged as deleted, with their old job id.
InsertDeletedRecords ==
    /\ Goto("insert", "drop")
    /\ present' = present \union gone
    /\ recordJob' = [k \in Keys |-> IF k \in gone THEN snapJob[k] ELSE recordJob[k]]
    /\ deleted' = deleted \union gone
    /\ gone' = {}
    /\ UNCHANGED <<pending, snapshotTable, job, call, oldJob, history>>

\* takeSnapshot: DELETE, then INSERT ... SELECT.
DropSnapshot ==
    /\ Goto("drop", "take")
    /\ snapshot' = {}
    /\ UNCHANGED <<tables, snapJob, job, call, oldJob, gone, history>>

\* Mutant: the snapshot is not limited to external_is_deleted = false.
TakeFullSnapshot ==
    /\ Goto("take", "idle")
    /\ snapshot' = present
    /\ snapJob' = recordJob
    /\ complete' = TRUE
    /\ UNCHANGED <<tables, job, call, oldJob, gone, returned, flagged, ever, irregular>>

TakeSnapshot ==
    /\ Goto("take", "idle")
    /\ snapshot' = present \ deleted
    /\ snapJob' = recordJob
    /\ complete' = TRUE
    /\ UNCHANGED <<tables, job, call, oldJob, gone, returned, flagged, ever, irregular>>

\* The script fails, a statement throws, or the worker dies: the run is over
\* where it is.  So it is when the script returns records but none of this model.
\* A failure of takeSnapshot is swallowed, with the same effect.  A script may catch
\* what a call of batchSave or batchDelete throws, and go on; one that fails before it
\* has marked or written anything is as if it had not been made.
CutShort ==
    /\ pc # "idle"
    /\ \/ pc' = "idle"
       \/ pc \in {"script", "upsert"} /\ pc' = "script"
    /\ call' = NoCall /\ gone' = {}
    /\ irregular' = irregular \union {"cut"}
    /\ UNCHANGED <<tables, snapshotTable, job, oldJob, returned, flagged, ever, complete>>

Next ==
    \/ StartRun
    \/ \E records \in SUBSET Keys, softDelete \in BOOLEAN : Batch(records, softDelete)
    \/ SelectOldJob \/ MarkRecordsForDeletion \/ Upsert
    \/ ScriptReturnsVoid
    \/ \E records \in SUBSET Keys : ScriptReturnsRecords(records)
    \/ StoreResults
    \/ ClearOldRecords \/ FindDeletedKeys \/ InsertDeletedRecords
    \/ DropSnapshot \/ TakeSnapshot
    \/ CutShort

Spec == Init /\ [][Next]_vars

(***************************************************************************)
(* Properties.                                                             *)
(***************************************************************************)

TypeOK ==
    /\ present \subseteq Keys
    /\ recordJob \in [Keys -> Nat]
    /\ pending \subseteq Keys /\ deleted \subseteq Keys
    /\ snapshot \subseteq Keys
    /\ snapJob \in [Keys -> Nat]
    /\ pc \in Locations
    /\ job \in Nat
    /\ call \in [records : SUBSET Keys, softDelete : BOOLEAN]
    /\ oldJob \in Nat
    /\ gone \subseteq Keys
    /\ returned \subseteq Keys /\ flagged \subseteq Keys /\ ever \subseteq Keys
    /\ complete \in BOOLEAN
    /\ irregular \subseteq Irregularities

Live == present \ deleted
Flagged == present \cap deleted

\* Whatever was cut short before, a record that the latest run returned is never
\* flagged as deleted, nor removed, nor marked for removal, until the next run.
ReturnedRecordsStayLive == returned \subseteq Live \ pending

\* A record that batchDelete flagged in the latest run stays flagged likewise.
FlaggedRecordsStayFlagged == flagged \subseteq Flagged \ pending

\* As long as every run saves something and comes to its end, the records are
\* those the latest run returned, and the others are flagged (docs-v2/guides/
\* custom.mdx:428: "when a record previously returned by the sync script isn't
\* returned in the latest run, Nango will flag it as deleted").  And at every moment
\* of a run a record that was ever returned is still there, flagged or not, or else
\* in the snapshot, from where finishSync puts it back (custom.mdx:403: deleted
\* records "are not removed"), even if a run was empty or returned its records.
DeletionsExact ==
    /\ irregular \subseteq {"empty", "results"} => ever \subseteq present \union snapshot
    /\ (pc = "idle" /\ complete /\ irregular = {}) =>
            /\ Live = returned
            /\ Flagged = ever \ returned
            /\ snapshot = returned
=============================================================================
