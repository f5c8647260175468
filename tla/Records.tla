------------------------------ MODULE Records ------------------------------
(***************************************************************************)
(* The contents and the time stamps of the records of DeleteTracking, the  *)
(* webhook at the end of a run, and a customer who reads the records with  *)
(* the time that the webhook names.                                        *)
(*                                                                         *)
(*   shared/lib/services/sync/data/data.service.ts    upsert               *)
(*   shared/lib/services/sync/data/delete.service.ts  the stamps           *)
(*   shared/lib/services/sync/data/records.service.ts getDataRecords       *)
(*   shared/lib/services/sync/job.service.ts          updateSyncJobResult  *)
(*   shared/lib/services/sync/notification/webhook.service.ts   send       *)
(*                                                                         *)
(* Every statement of DeleteTracking is a step here too, and changes the   *)
(* new columns along with the old ones; the steps of this module's own     *)
(* come in between.  A point in time is the number of the run it falls in: *)
(* nothing below tells two moments of one run apart.  The script sets no   *)
(* date (SyncRun has that), and its calls are awaited one by one.          *)
(***************************************************************************)
EXTENDS DeleteTracking, SequencesExt

CONSTANTS
    Contents,   \* what a record may contain: its data_hash
    MaxSaved,   \* bound: the records that the script of one run passes on
    MaxMishaps, \* bound: how many of the things that history names may happen
    PageSize    \* the limit that the customer passes

\* The external ids are numbered in their order.  A limit of 0 is no limit.
ASSUME KeysAssumption == IsFiniteSet(Keys) /\ Keys \subseteq Int
ASSUME ContentsAssumption == "none" \notin Contents
ASSUME PageSizeAssumption == PageSize \in Nat \ {0}

VARIABLES
    row,        \* data_hash, created_at and updated_at of the records
    snapRow,    \* the same of the snapshot's rows
    cursor,     \* the date of the last run that succeeded, 0 if none has
    batch,      \* the contents of the records of the call of upsert
    summary,    \* its addedKeys and updatedKeys, and the deletedKeys of finishSync
    step,       \* the statement that follows one of DeleteTracking, or "none"
    result,     \* the job's result
    saved,      \* how many it has passed on so far
    due,        \* the delta of the webhook that the customer has yet to act on
    page,       \* the reading under way: its delta and its offset
    mirror,     \* the customer's copy of the records
    odd         \* history: what else happened

columns == <<row, snapRow>>
customer == <<due, page, mirror>>
recordVars == <<columns, cursor, batch, summary, step, result, saved, customer, odd>>

NoRow == [content |-> "none", created |-> 0, updated |-> 0]
NoSummary == [added |-> {}, updated |-> {}, deleted |-> {}]
NoResult == [added |-> 0, updated |-> 0, deleted |-> 0]
NoDelta == -1
NoPage == [delta |-> NoDelta, offset |-> 0, quiet |-> TRUE]
Gone == "none"
NoBatch == [k \in Keys |-> Gone]

Records == [key : Keys, content : Contents]
Lists == SeqOf(Records, MaxSaved)
Keyed(list) == {list[i].key : i \in DOMAIN list}

RecordsInit ==
    /\ Init
    /\ row = [k \in Keys |-> NoRow] /\ snapRow = row
    /\ cursor = 0
    /\ batch = NoBatch /\ summary = NoSummary /\ step = "none" /\ result = NoResult
    /\ saved = 0
    /\ due = NoDelta /\ page = NoPage /\ mirror = NoBatch
    /\ odd = {}

\* A conjunct of every action that adds to irregular or odd.
WithinBounds == Cardinality((irregular' \union odd') \ {"again", "late", "unstamped"}) <= MaxMishaps

Active == pc # "idle" \/ step # "none"
Then(from, to) == step = from /\ step' = to

(***************************************************************************)
(* A run.  job is also its time: syncStartDate, new Date() and NOW().      *)
(***************************************************************************)

Start ==
    /\ step = "none"
    /\ StartRun
    /\ result' = NoResult /\ summary' = NoSummary /\ saved' = 0
    /\ odd' = odd \union IF due # NoDelta \/ page # NoPage THEN {"late"} ELSE {}
    /\ page' = [page EXCEPT !.quiet = @ /\ page = NoPage]
    /\ UNCHANGED <<columns, cursor, batch, step, due, mirror>>

\* removeDuplicateKey keeps the first record of each key.
WithoutDuplicates(list) ==
    [k \in Keys |-> IF k \in Keyed(list)
                    THEN list[CHOOSE i \in DOMAIN list :
                                /\ list[i].key = k
                                /\ \A j \in 1..(i - 1) : list[j].key # k].content
                    ELSE Gone]

\* getAddedKeys: the keys that the comparison table does not have.
AddedKeys(keys, table) == keys \ table

\* getUpdatedKeys: the keys it has with another hash.
UpdatedKeys(keys, table, rows, contents) == {k \in keys \cap table : rows[k].content # contents[k]}

Compare(keys, contents, table, rows) ==
    summary' = [added |-> AddedKeys(keys, table),
                updated |-> UpdatedKeys(keys, table, rows, contents),
                deleted |-> {}]

\* batchSave or batchDelete: with track_deletes, upsert compares with the snapshot.
Save(list, softDelete) ==
    /\ step = "none"
    /\ Batch(Keyed(list), softDelete)
    /\ saved' = saved + Len(list) /\ saved' <= MaxSaved
    /\ batch' = WithoutDuplicates(list)
    /\ Compare(Keyed(list), batch', snapshot, snapRow)
    /\ odd' = odd \union IF \E k \in Keyed(list) : k \in returned \union flagged
                         THEN {"again"} ELSE {}
    /\ UNCHANGED <<columns, cursor, step, result, customer>>
    /\ WithinBounds

\* formatDataRecords: a record gets the date that the run started from, and the
\* present time if there is none.
FormatStamp == IF cursor = 0 THEN job ELSE cursor

\* The merge replaces both stamps; the trigger of the table then sets updated_at
\* of a row that was there with another hash.
MergedRow(k) ==
    [content |-> batch[k],
     created |-> FormatStamp,
     updated |-> IF k \in present /\ row[k].content # batch[k] THEN job ELSE FormatStamp]

\* A stamp with no keys is no statement.
AfterChanged == IF summary.added # {} THEN "added" ELSE "count"

MergeRows == row' = [k \in Keys |-> IF k \in call.records THEN MergedRow(k) ELSE row[k]]

\* A soft delete returns before the stamps.  odd records one that the trigger
\* did not stamp either.
UpsertRows ==
    /\ Upsert
    /\ MergeRows
    /\ step' = CASE call.softDelete -> "count"
                 [] ~call.softDelete /\ summary.updated # {} -> "changed"
                 [] OTHER -> AfterChanged
    /\ summary' = IF call.softDelete
                  THEN [added |-> {}, updated |-> {}, deleted |-> summary.added \union summary.updated]
                  ELSE summary
    /\ odd' = odd \union IF /\ call.softDelete
                            /\ \E k \in call.records : row'[k].updated # job \/ summary'.deleted = {}
                         THEN {"unstamped"} ELSE {}
    /\ batch' = NoBatch
    /\ UNCHANGED <<snapRow, cursor, result, saved, customer>>
    /\ WithinBounds

Stamped(keys) == [k \in Keys |-> IF k \in keys THEN [row[k] EXCEPT !.updated = job] ELSE row[k]]

\* Mutant: created_at is set as well.
SyncUpdateAtAndCreatedAtForChangedRecords ==
    /\ pc = "script" /\ Then("changed", AfterChanged)
    /\ row' = [k \in Keys |-> IF k \in summary.updated
                              THEN [row[k] EXCEPT !.updated = job, !.created = job]
                              ELSE row[k]]
    /\ UNCHANGED <<vars, snapRow, cursor, batch, summary, result, saved, customer, odd>>

SyncUpdateAtForChangedRecords ==
    /\ pc = "script" /\ Then("changed", AfterChanged)
    /\ row' = Stamped(summary.updated)
    /\ UNCHANGED <<vars, snapRow, cursor, batch, summary, result, saved, customer, odd>>

SyncCreatedAtForAddedRecords ==
    /\ pc = "script" /\ Then("added", "count")
    /\ row' = [k \in Keys |-> IF k \in summary.added
                              THEN [row[k] EXCEPT !.created = job, !.updated = job]
                              ELSE row[k]]
    /\ UNCHANGED <<vars, snapRow, cursor, batch, summary, result, saved, customer, odd>>

\* updateSyncJobResult adds to what is there.
Increased ==
    [added |-> result.added + Cardinality(summary.added),
     updated |-> result.updated + Cardinality(summary.updated),
     deleted |-> result.deleted + Cardinality(summary.deleted)]

UpdateSyncJobResult ==
    /\ pc = "script" /\ Then("count", "none")
    /\ result' = Increased
    /\ summary' = NoSummary
    /\ UNCHANGED <<vars, columns, cursor, batch, customer, odd, saved>>

(***************************************************************************)
(* The end of a run.                                                       *)
(***************************************************************************)

Finish ==
    /\ step = "none"
    /\ ScriptReturnsVoid \/ SelectOldJob \/ MarkRecordsForDeletion \/ FindDeletedKeys
    /\ UNCHANGED recordVars
    /\ WithinBounds

ClearOldRows ==
    /\ step = "none"
    /\ ClearOldRecords
    /\ row' = [k \in Keys |-> IF k \in present' THEN row[k] ELSE NoRow]
    /\ UNCHANGED <<snapRow, cursor, batch, summary, step, result, saved, customer, odd>>

InsertDeletedRows ==
    /\ step = "none" /\ step' = "deleted"
    /\ InsertDeletedRecords
    /\ row' = [k \in Keys |-> IF k \in gone THEN snapRow[k] ELSE row[k]]
    /\ summary' = [NoSummary EXCEPT !.deleted = gone]
    /\ UNCHANGED <<snapRow, cursor, batch, result, saved, customer, odd>>

\* Mutant: the stamps of the rows put back stay those of the snapshot.
LeaveStampsOfDeletedRecords ==
    /\ pc = "drop" /\ Then("deleted", "none")
    /\ UNCHANGED <<vars, columns, cursor, batch, summary, result, saved, customer, odd>>

SyncUpdateAtForDeletedRecords ==
    /\ pc = "drop" /\ Then("deleted", "none")
    /\ row' = Stamped(summary.deleted)
    /\ UNCHANGED <<vars, snapRow, cursor, batch, summary, result, saved, customer, odd>>

\* reportResults writes the date before it takes the snapshot.
DropSnapshotRows ==
    /\ step = "none"
    /\ DropSnapshot
    /\ cursor' = job
    /\ snapRow' = [k \in Keys |-> NoRow]
    /\ UNCHANGED <<row, batch, summary, step, result, saved, customer, odd>>

TakeSnapshotRows ==
    /\ step = "none" /\ step' = "report"
    /\ TakeSnapshot
    /\ snapRow' = [k \in Keys |-> IF k \in snapshot' THEN row[k] ELSE NoRow]
    /\ UNCHANGED <<row, cursor, batch, summary, result, saved, customer, odd>>

\* The records that a script returns carry the stamps of track_deletes, but are
\* compared with the records, and not stamped again.
ReturnResults(list) ==
    /\ step = "none" /\ saved + Len(list) <= MaxSaved
    /\ ScriptReturnsRecords(Keyed(list))
    /\ batch' = WithoutDuplicates(list)
    /\ Compare(Keyed(list), batch', present, row)
    /\ UNCHANGED <<columns, cursor, step, result, saved, customer, odd>>
    /\ WithinBounds

\* Without a date the stamps are null, which the columns do not take: the run
\* fails unless there is nothing to save.
StoreResultRows ==
    /\ step = "none"
    /\ call.records = {} \/ cursor # 0
    /\ StoreResults
    /\ MergeRows
    /\ cursor' = IF call.records = {} THEN cursor ELSE job
    /\ step' = IF call.records = {} THEN "none" ELSE "report"
    /\ batch' = NoBatch
    /\ UNCHANGED <<snapRow, summary, result, saved, customer, odd>>

\* reportResults: the counts, and the webhook if there is anything to tell.  The
\* initial job names no time.  A customer who has not acted on the last one yet
\* acts on both together.
QueryTimeStamp == IF job = 1 THEN 0 ELSE job

Report ==
    /\ pc = "idle" /\ Then("report", "none")
    /\ result' = Increased
    /\ summary' = NoSummary
    /\ due' = IF result' = NoResult \/ due \in 0..QueryTimeStamp THEN due ELSE QueryTimeStamp
    /\ UNCHANGED <<vars, columns, cursor, batch, page, mirror, odd, saved>>

\* The worker dies before the webhook, or the customer does not answer the tenth
\* attempt.
LoseReport ==
    /\ pc = "idle" /\ Then("report", "none")
    /\ odd' = odd \union {"unsent"}
    /\ summary' = NoSummary
    /\ UNCHANGED <<vars, columns, cursor, batch, result, saved, customer>>
    /\ WithinBounds

\* takeSnapshot swallows the failure of either statement.
FailSnapshot ==
    /\ pc \in {"drop", "take"}
    /\ step = "none" /\ step' = "report"
    /\ CutShort
    /\ cursor' = job
    /\ UNCHANGED <<columns, batch, summary, result, saved, customer, odd>>
    /\ WithinBounds

\* A call that the script gives up may have marked or saved its rows and not have
\* stamped or counted them.
CutRun ==
    /\ CutShort
    /\ pc' = "script" => pc = "upsert" \/ step # "none"
    /\ step' = "none"
    /\ batch' = NoBatch /\ summary' = NoSummary
    /\ UNCHANGED <<columns, cursor, result, saved, customer, odd>>
    /\ WithinBounds

(***************************************************************************)
(* getDataRecords.                                                         *)
(***************************************************************************)

\* The rows updated since delta.  Every run starts in a second of its own, so
\* that dropping the milliseconds of delta adds no row.
Since(delta) == {k \in present : row[k].updated >= delta}

LastAction(k) ==
    IF k \in deleted THEN "deleted"
    ELSE IF row[k].created = row[k].updated THEN "added" ELSE "updated"

\* The switch on the words of filter; no filter, no word.
Filtered(words, keys) ==
    CASE {"added", "updated"} \subseteq words -> {k \in keys : k \notin deleted}
      [] {"updated", "deleted"} \subseteq words /\ "added" \notin words -> {k \in keys : LastAction(k) # "added"}
      [] {"added", "deleted"} \subseteq words /\ "updated" \notin words -> {k \in keys : LastAction(k) # "updated"}
      [] words = {"added"} -> {k \in keys : LastAction(k) = "added"}
      [] words = {"updated"} -> {k \in keys : LastAction(k) = "updated"}
      [] words = {"deleted"} -> keys \cap deleted
      [] OTHER -> keys

\* order by external_id desc, offset and limit.
Place(keys, k) == Cardinality({j \in keys : j > k})
Page(keys, offset) == {k \in keys : Place(keys, k) \in offset..(offset + PageSize - 1)}

\* The customer applies a page to the copy, and asks for the next one unless the
\* page is not full.
Apply(delta, offset, next) ==
    LET keys == Page(Since(delta), offset)
    IN  /\ mirror' = [k \in Keys |-> IF k \notin keys THEN mirror[k]
                                     ELSE IF k \in deleted THEN Gone
                                     ELSE row[k].content]
        /\ page' = IF Cardinality(keys) < PageSize THEN NoPage ELSE next

\* Bound: what the customer reads is not followed beyond a run that was cut short.
Followed == "cut" \notin irregular

StartReading ==
    /\ Followed /\ due # NoDelta /\ page = NoPage
    /\ Apply(due, 0, [delta |-> due, offset |-> PageSize, quiet |-> ~Active])
    /\ due' = NoDelta
    /\ UNCHANGED <<vars, columns, cursor, batch, summary, step, result, odd, saved>>

\* odd records a page that was read after a run had changed the records.
ReadPage ==
    /\ Followed /\ page # NoPage
    /\ Apply(page.delta, page.offset, [page EXCEPT !.offset = @ + PageSize])
    /\ odd' = odd \union IF Active \/ ~page.quiet THEN {"torn"} ELSE {}
    /\ UNCHANGED <<vars, columns, cursor, batch, summary, step, result, due, saved>>
    /\ WithinBounds

RecordsNext ==
    \/ Start
    \/ \E list \in Lists, softDelete \in BOOLEAN : Save(list, softDelete)
    \/ UpsertRows
    \/ SyncUpdateAtForChangedRecords \/ SyncCreatedAtForAddedRecords \/ UpdateSyncJobResult
    \/ Finish \/ ClearOldRows
    \/ InsertDeletedRows \/ SyncUpdateAtForDeletedRecords
    \/ DropSnapshotRows \/ TakeSnapshotRows
    \/ \E list \in Lists : ReturnResults(list)
    \/ StoreResultRows
    \/ Report \/ LoseReport \/ FailSnapshot \/ CutRun
    \/ StartReading \/ ReadPage

RecordsSpec == RecordsInit /\ [][RecordsNext]_<<vars, recordVars>>

(***************************************************************************)
(* Properties.                                                             *)
(***************************************************************************)

\* A customer who reads the records with the time of each webhook has the records
\* that the last run left (docs-v2/guides/webhooks.mdx:27: "Use this with delta in
\* getRecords to fetch the data of this sync").  Not so after a run that was cut
\* short or whose webhook got lost, after a script returned records, after a
\* batchDelete of a record as it was, nor if a later page was read during a run.
\* A customer who reads while the next run is under way misses two things more: a
\* record that batchDelete flagged, for that run removes it, and the return to its
\* old contents of a record saved more than once.
CustomerIsUpToDate ==
    (/\ ~Active /\ complete /\ due = NoDelta /\ page = NoPage
     /\ irregular \cap {"cut", "results"} = {}
     /\ odd \cap {"unsent", "unstamped", "torn"} = {}
     /\ "late" \in odd => "batchDelete" \notin irregular /\ "again" \notin odd)
    => mirror = [k \in Keys |-> IF k \in Live THEN row[k].content ELSE Gone]

\* What the webhook counts and what the reading with its time returns are what
\* the run did to the customer's copy, record by record, and every filter but the
\* one that names all three words returns the rows it names.
AnswersTellWhatChanged ==
    (/\ ~Active /\ complete /\ due = job /\ page = NoPage
     /\ irregular \subseteq {"empty"} /\ odd = {})
    => LET Tell(word) == {k \in Since(due) : LastAction(k) = word}
           Words == {"added", "updated", "deleted"}
       IN  /\ Tell("added") = {k \in Live : mirror[k] = Gone}
           /\ Tell("updated") = {k \in Live : mirror[k] \notin {Gone, row[k].content}}
           /\ Tell("deleted") = {k \in Keys \ Live : mirror[k] # Gone}
           /\ result = [word \in Words |-> Cardinality(Tell(word))]
           /\ \A words \in (SUBSET Words) \ {{}, Words} :
                Filtered(words, Since(due)) = UNION {Tell(word) : word \in words}
=============================================================================
