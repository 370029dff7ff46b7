---------------------------- MODULE SourceIngest ----------------------------
(***************************************************************************)
(* The life of the data sources of one project in collector-server: upload *)
(* with content dedup under the project lock, the file_upload and          *)
(* pbix_extract job handlers, the wizard's save and confirm, deletion, and *)
(* a crash of the process. Each source ships one table.                    *)
(*                                                                         *)
(* The job of a source moves along JobLifecycle (see JobQueue, which is    *)
(* shown to implement it); what the handler does to data_source, to the    *)
(* staging schema and to the project's lakehouse schema is modelled here.  *)
(***************************************************************************)
EXTENDS Integers, FiniteSets

CONSTANTS
    Sources,      \* uploads, each of which may become a data_source row
    Kind,         \* "file" | "pbi"
    Content,      \* content_hash of the uploaded file
    Table,        \* raw name of the table it contains
    Patient,      \* clients wait, as the bundled UI does, for the job to end
                  \* before they save, confirm or delete, and send the roles
    Faults,       \* may statements fail and the process crash?
    Deletable,    \* sources users delete
    MaxConfirms   \* bound on the confirm requests per source

ASSUME IngestAssumption ==
    /\ "none" \notin Sources /\ Kind \in [Sources -> {"file", "pbi"}]
    /\ Patient \in BOOLEAN /\ Faults \in BOOLEAN
    /\ Deletable \subseteq Sources
    /\ MaxConfirms \in Nat

VARIABLES
    ds,         \* data_source.status ("none": no row yet, "gone": deleted)
    schemaCol,  \* data_source.staging_schema: none | own | final
    roles,      \* data_source.wizard_state has table_roles
    stg,        \* the staging schema of a file source: absent | empty | full
    lake,       \* tables of the project schema: [name, owner]
    lock,       \* holder of the project's advisory lock
    upl,        \* upload request: new | check | insert | enqueue | accepted | rejected | error
    job,        \* ingest_job.status
    cancelReq,  \* ingest_job.cancel_requested
    seen,       \* Reporter.cancelled of the running handler
    h,          \* where the job handler is
    conf,       \* confirm request: idle | read | lock | list | tx | ok | conflict | failed
    nameMap,    \* the names ResolveCollisionFreeNames gave the confirm ("" : none)
    moved,      \* the merge transaction moved the source's table
    confirms,   \* confirm requests so far
    del,        \* delete request: none | schema | tables | done
    crashed     \* the process crashed once

dsVars   == <<ds, schemaCol, roles>>
jobVars  == <<job, cancelReq, seen, h>>
confVars == <<conf, nameMap, moved, confirms>>
vars == <<dsVars, stg, lake, lock, upl, jobVars, confVars, del, crashed>>

Free == [who |-> "nobody", src |-> "none"]
Holder(who, s) == [who |-> who, src |-> s]
Suffixed(s) == [raw |-> Table[s], by |-> s]   \* "raw (label)"
Plain(s) == [raw |-> Table[s], by |-> "none"]
NoName == [raw |-> "none", by |-> "none"]
RowExists(s) == ds[s] \notin {"none", "gone"}
JobActive(s) == job[s] \in {"queued", "running"}
Names == {t.name : t \in lake}

Init ==
    /\ ds = [s \in Sources |-> "none"]
    /\ schemaCol = [s \in Sources |-> "none"]
    /\ roles = [s \in Sources |-> FALSE]
    /\ stg = [s \in Sources |-> "absent"]
    /\ lake = {}
    /\ lock = Free
    /\ upl = [s \in Sources |-> "new"]
    /\ job = [s \in Sources |-> "none"]
    /\ cancelReq = [s \in Sources |-> FALSE]
    /\ seen = [s \in Sources |-> FALSE]
    /\ h = [s \in Sources |-> "off"]
    /\ conf = [s \in Sources |-> "idle"]
    /\ nameMap = [s \in Sources |-> NoName]
    /\ moved = [s \in Sources |-> FALSE]
    /\ confirms = [s \in Sources |-> 0]
    /\ del = [s \in Sources |-> "none"]
    /\ crashed = FALSE

-----------------------------------------------------------------------------
(* Upload: dedup and registration under the project lock *)

\* Mutant of UploadLock: the check is not serialised.
UploadUnlocked(s) ==
    /\ upl[s] = "new"
    /\ upl' = [upl EXCEPT ![s] = "check"]
    /\ UNCHANGED <<dsVars, stg, lake, lock, jobVars, confVars, del, crashed>>

UploadLock(s) ==
    /\ upl[s] = "new" /\ lock = Free
    /\ lock' = Holder("upload", s)
    /\ upl' = [upl EXCEPT ![s] = "check"]
    /\ UNCHANGED <<dsVars, stg, lake, jobVars, confVars, del, crashed>>

\* Rows of the same content, status <> 'failed'.
Duplicates(s) ==
    {t \in Sources \ {s} : Content[t] = Content[s] /\ RowExists(t) /\ ds[t] # "failed"}

UploadRejected(s) ==
    /\ upl[s] = "check" /\ Duplicates(s) # {}
    /\ upl' = [upl EXCEPT ![s] = "rejected"]
    /\ lock' = Free
    /\ UNCHANGED <<dsVars, stg, lake, jobVars, confVars, del, crashed>>

UploadPasses(s) ==
    /\ upl[s] = "check" /\ Duplicates(s) = {}
    /\ upl' = [upl EXCEPT ![s] = "insert"]
    /\ UNCHANGED <<dsVars, stg, lake, lock, jobVars, confVars, del, crashed>>

\* INSERT INTO data_source, status syncing, a statement of its own; a file source
\* names its staging schema, a pbix source leaves the column NULL.
UploadInsert(s) ==
    /\ upl[s] = "insert"
    /\ ds' = [ds EXCEPT ![s] = "syncing"]
    /\ schemaCol' = [schemaCol EXCEPT ![s] = IF Kind[s] = "file" THEN "own" ELSE "none"]
    /\ upl' = [upl EXCEPT ![s] = "enqueue"]
    /\ UNCHANGED <<roles, stg, lake, lock, jobVars, confVars, del, crashed>>

\* A failing check or INSERT: nothing was registered.
UploadInsertFails(s) ==
    /\ Faults /\ upl[s] \in {"check", "insert"}
    /\ upl' = [upl EXCEPT ![s] = "error"]
    /\ lock' = Free
    /\ UNCHANGED <<dsVars, stg, lake, jobVars, confVars, del, crashed>>

UploadEnqueue(s) ==
    /\ upl[s] = "enqueue"
    /\ job' = [job EXCEPT ![s] = "queued"]
    /\ upl' = [upl EXCEPT ![s] = "accepted"]
    /\ lock' = Free
    /\ UNCHANGED <<dsVars, stg, lake, cancelReq, seen, h, confVars, del, crashed>>

\* Enqueue fails; the row is deleted again, unless that fails too (it uses the
\* same request context).
UploadEnqueueFails(s) ==
    /\ Faults /\ upl[s] = "enqueue"
    /\ ds' \in {ds, [ds EXCEPT ![s] = "gone"]}
    /\ upl' = [upl EXCEPT ![s] = "error"]
    /\ lock' = Free
    /\ UNCHANGED <<schemaCol, roles, stg, lake, jobVars, confVars, del, crashed>>

-----------------------------------------------------------------------------
(* Job *)

JobStart(s) ==
    /\ job[s] = "queued" /\ h[s] = "off"
    /\ job' = [job EXCEPT ![s] = "running"]
    /\ h' = [h EXCEPT ![s] = "parse"]
    /\ UNCHANGED <<dsVars, stg, lake, lock, upl, cancelReq, seen, confVars, del, crashed>>

CancelJob(s) ==
    /\ JobActive(s)
    /\ cancelReq' = [cancelReq EXCEPT ![s] = TRUE]
    /\ UNCHANGED <<dsVars, stg, lake, lock, upl, job, seen, h, confVars, del, crashed>>

\* A beat of the running job shows the cancel to the handler.
ObserveCancel(s) ==
    /\ h[s] # "off" /\ job[s] = "running" /\ cancelReq[s]
    /\ seen' = [seen EXCEPT ![s] = TRUE]
    /\ UNCHANGED <<dsVars, stg, lake, lock, upl, job, cancelReq, h, confVars, del, crashed>>

\* runJob after the handler returned (h is ok or err); the row may be gone.
JobEnds(s) ==
    /\ h[s] \in {"ok", "err"}
    /\ job' = [job EXCEPT ![s] = IF @ # "running" THEN @
                                 ELSE IF seen[s] THEN "cancelled"
                                 ELSE IF h[s] = "err" THEN "failed" ELSE "succeeded"]
    /\ h' = [h EXCEPT ![s] = "off"]
    /\ UNCHANGED <<dsVars, stg, lake, lock, upl, cancelReq, seen, confVars, del, crashed>>

\* The sweeper fails the job of a worker that died.
SweepJob(s) ==
    /\ job[s] = "running" /\ h[s] = "off"
    /\ job' = [job EXCEPT ![s] = "failed"]
    /\ UNCHANGED <<dsVars, stg, lake, lock, upl, cancelReq, seen, h, confVars, del, crashed>>

\* failDataSource / failDS: a best-effort UPDATE WHERE id.
FailSource(s) ==
    \/ ds' = IF RowExists(s) THEN [ds EXCEPT ![s] = "failed"] ELSE ds
    \/ Faults /\ UNCHANGED ds

\* A handler step that returns an error after failing the source.
HandlerFails(s) ==
    /\ FailSource(s)
    /\ h' = [h EXCEPT ![s] = "err"]
    /\ lock' = IF lock = Holder("job", s) THEN Free ELSE lock
    /\ UNCHANGED <<schemaCol, roles, stg, lake, upl, job, cancelReq, seen, confVars, del, crashed>>

HandlerAt(s, from, to) == h[s] = from /\ h' = [h EXCEPT ![s] = to]

\* parseHeaders of the stored file, or the pbixray subprocess.
Parsed(s) ==
    /\ HandlerAt(s, "parse", IF Kind[s] = "file" THEN "schema" ELSE "lock")
    /\ UNCHANGED <<dsVars, stg, lake, lock, upl, job, cancelReq, seen, confVars, del, crashed>>

ParseFails(s) == Faults /\ h[s] = "parse" /\ HandlerFails(s)

-----------------------------------------------------------------------------
(* The file_upload handler *)

\* CREATE SCHEMA IF NOT EXISTS, outside the transaction.
CreateStaging(s) ==
    /\ HandlerAt(s, "schema", "copy")
    /\ stg' = [stg EXCEPT ![s] = IF @ = "absent" THEN "empty" ELSE @]
    /\ UNCHANGED <<dsVars, lake, lock, upl, job, cancelReq, seen, confVars, del, crashed>>

\* The staging transaction creates the table; it now blocks a DROP SCHEMA.
BeginCopy(s) ==
    /\ ~seen[s] /\ stg[s] # "absent"
    /\ HandlerAt(s, "copy", "copying")
    /\ UNCHANGED <<dsVars, stg, lake, lock, upl, job, cancelReq, seen, confVars, del, crashed>>

\* The schema vanished, the cancel was seen between sheets or rows, or a
\* statement failed: the transaction is rolled back.
CopyFails(s) ==
    /\ \/ h[s] = "copy" /\ (stg[s] = "absent" \/ seen[s])
       \/ h[s] = "copying" /\ (seen[s] \/ Faults)
    /\ HandlerFails(s)

CopyCommit(s) ==
    /\ HandlerAt(s, "copying", "ready")
    /\ stg' = [stg EXCEPT ![s] = "full"]
    /\ UNCHANGED <<dsVars, lake, lock, upl, job, cancelReq, seen, confVars, del, crashed>>

\* UPDATE data_source SET status='ready' WHERE id: whatever status it has.
MarkReady(s) ==
    /\ HandlerAt(s, "ready", "ok")
    /\ ds' = IF RowExists(s) THEN [ds EXCEPT ![s] = "ready"] ELSE ds
    /\ UNCHANGED <<schemaCol, roles, stg, lake, lock, upl, job, cancelReq, seen, confVars, del, crashed>>

\* "mark ready" fails: the handler returns without failDataSource.
MarkReadyFails(s) ==
    /\ Faults
    /\ HandlerAt(s, "ready", "err")
    /\ UNCHANGED <<dsVars, stg, lake, lock, upl, job, cancelReq, seen, confVars, del, crashed>>

-----------------------------------------------------------------------------
(* The pbix_extract handler: the load runs under the project lock *)

PbixLock(s) ==
    /\ lock = Free
    /\ HandlerAt(s, "lock", "load")
    /\ lock' = Holder("job", s)
    /\ UNCHANGED <<dsVars, stg, lake, upl, job, cancelReq, seen, confVars, del, crashed>>

\* A cancel seen before a table: errCancelled, returned as nil; the source's
\* status is left as it is.
PbixCancelled(s) ==
    /\ seen[s] /\ HandlerAt(s, "load", "ok")
    /\ lock' = Free
    /\ UNCHANGED <<dsVars, stg, lake, upl, job, cancelReq, seen, confVars, del, crashed>>

\* Mutant of CollisionFree: the raw name, taken or not.
RawName(s) == Plain(s)

\* ResolveCollisionFreeNames: the raw name, or one suffixed with the label.
CollisionFree(s) == IF Plain(s) \in Names THEN Suffixed(s) ELSE Plain(s)

\* CreateLakehouseTable and CopyRowsInto, outside any transaction. A table of
\* that name would be replaced.
PbixLoad(s) ==
    /\ ~seen[s] /\ HandlerAt(s, "load", "populate")
    /\ lake' = {t \in lake : t.name # CollisionFree(s)}
                  \cup {[name |-> CollisionFree(s), owner |-> s]}
    /\ UNCHANGED <<dsVars, stg, lock, upl, job, cancelReq, seen, confVars, del, crashed>>

\* The ontology transaction commits, then status='ready' and staging_schema
\* is set to the project's schema.
PbixReady(s) ==
    /\ HandlerAt(s, "populate", "project")
    /\ ds' = IF RowExists(s) THEN [ds EXCEPT ![s] = "ready"] ELSE ds
    /\ schemaCol' = IF RowExists(s) THEN [schemaCol EXCEPT ![s] = "final"] ELSE schemaCol
    /\ UNCHANGED <<roles, stg, lake, lock, upl, job, cancelReq, seen, confVars, del, crashed>>

\* project.lakehouse_schema is set and the lock released.
PbixSetProject(s) ==
    /\ HandlerAt(s, "project", "ok")
    /\ lock' = Free
    /\ UNCHANGED <<dsVars, stg, lake, upl, job, cancelReq, seen, confVars, del, crashed>>

\* Any statement of the locked section fails, the last one included.
PbixFails(s) == Faults /\ h[s] \in {"load", "populate", "project"} /\ HandlerFails(s)

-----------------------------------------------------------------------------
(* Wizard *)

\* A client that polls the source only acts once the job has ended.
ClientReady(s) == RowExists(s) /\ (Patient => ~JobActive(s) /\ ds[s] # "syncing")

\* Update: status='wizard_in_progress' whatever it was before.
SaveState(s) ==
    /\ ds' = [ds EXCEPT ![s] = "wizard_in_progress"]
    /\ roles' = [roles EXCEPT ![s] = TRUE]

\* POST .../state
PostState(s) ==
    /\ ClientReady(s) /\ upl[s] = "accepted" /\ conf[s] = "idle" /\ del[s] = "none"
    /\ SaveState(s)
    /\ UNCHANGED <<schemaCol, stg, lake, lock, upl, jobVars, confVars, del, crashed>>

\* POST .../confirm with roles in the body: they are saved first.
ConfirmWithBody(s) ==
    /\ ClientReady(s) /\ upl[s] = "accepted" /\ del[s] = "none"
    /\ conf[s] \in {"idle", "ok", "conflict", "failed"} /\ confirms[s] < MaxConfirms
    /\ SaveState(s)
    /\ conf' = [conf EXCEPT ![s] = "read"]
    /\ confirms' = [confirms EXCEPT ![s] = @ + 1]
    /\ UNCHANGED <<schemaCol, stg, lake, lock, upl, jobVars, nameMap, moved, del, crashed>>

\* POST .../confirm without a body.
ConfirmBare(s) ==
    /\ ClientReady(s) /\ upl[s] = "accepted" /\ del[s] = "none" /\ (Patient => roles[s])
    /\ conf[s] \in {"idle", "ok", "conflict", "failed"} /\ confirms[s] < MaxConfirms
    /\ conf' = [conf EXCEPT ![s] = "read"]
    /\ confirms' = [confirms EXCEPT ![s] = @ + 1]
    /\ UNCHANGED <<dsVars, stg, lake, lock, upl, jobVars, nameMap, moved, del, crashed>>

ConfirmGoes(s, to) == conf' = [conf EXCEPT ![s] = to]

\* Confirm loads the row: a completed source is refused with 409, one without
\* a staging schema (or a deleted one) is an error.
ConfirmRead(s) ==
    /\ conf[s] = "read"
    /\ ConfirmGoes(s, IF ds[s] = "completed" THEN "conflict"
                      ELSE IF ~RowExists(s) \/ schemaCol[s] = "none" THEN "failed"
                      ELSE "lock")
    /\ UNCHANGED <<dsVars, stg, lake, lock, upl, jobVars, nameMap, moved, confirms, del, crashed>>

\* Under the lock: list the staging tables, resolve their names.
ConfirmResolve(s) ==
    /\ conf[s] = "lock" /\ lock = Free
    /\ lock' = Holder("confirm", s)
    /\ nameMap' = [nameMap EXCEPT ![s] = IF stg[s] = "full" THEN CollisionFree(s) ELSE NoName]
    /\ ConfirmGoes(s, "list")
    /\ UNCHANGED <<dsVars, stg, lake, upl, jobVars, moved, confirms, del, crashed>>

\* The name a staging table gets: its entry of nameMap, else its own.
FinalName(s) == IF nameMap[s] = NoName THEN Plain(s) ELSE nameMap[s]

\* Mutant of ConfirmFails: the early return keeps the project lock.
ConfirmFailsKeepsLock(s) ==
    /\ ConfirmGoes(s, "failed")
    /\ moved' = [moved EXCEPT ![s] = FALSE]
    /\ UNCHANGED <<dsVars, stg, lake, lock, upl, jobVars, nameMap, confirms, del, crashed>>

\* A confirm that ends without committing.
ConfirmFails(s) ==
    /\ lock' = Free
    /\ ConfirmGoes(s, "failed")
    /\ moved' = [moved EXCEPT ![s] = FALSE]
    /\ UNCHANGED <<dsVars, stg, lake, upl, jobVars, nameMap, confirms, del, crashed>>

\* MergeStagingIntoFinalWithNames lists again and moves: SET SCHEMA under the
\* raw name comes before the RENAME, so it needs the raw name to be free; and
\* a pbix source's "staging" schema is the final one, which cannot be merged
\* into itself.
MergeImpossible(s) ==
    \/ schemaCol[s] = "final"
    \/ stg[s] = "full" /\ FinalName(s) # Plain(s) /\ Plain(s) \in Names

ConfirmMoves(s) ==
    /\ conf[s] = "list" /\ ~MergeImpossible(s)
    /\ moved' = [moved EXCEPT ![s] = stg[s] = "full"]
    /\ ConfirmGoes(s, "tx")
    /\ UNCHANGED <<dsVars, stg, lake, lock, upl, jobVars, nameMap, confirms, del, crashed>>

ConfirmMoveFails(s) ==
    /\ conf[s] = "list" /\ (MergeImpossible(s) \/ Faults)
    /\ ConfirmFails(s)

\* DROP SCHEMA waits for a staging transaction, then drops what that left
\* behind; status='completed'; COMMIT.
ConfirmCommit(s) ==
    /\ conf[s] = "tx" /\ h[s] # "copying" /\ stg[s] # "absent"
    /\ lake' = IF moved[s]
               THEN {t \in lake : t.name # FinalName(s)}
                       \cup {[name |-> FinalName(s), owner |-> s]}
               ELSE lake
    /\ stg' = [stg EXCEPT ![s] = "absent"]
    /\ ds' = IF RowExists(s) THEN [ds EXCEPT ![s] = "completed"] ELSE ds
    /\ lock' = Free
    /\ ConfirmGoes(s, "ok")
    /\ moved' = [moved EXCEPT ![s] = FALSE]
    /\ UNCHANGED <<schemaCol, roles, upl, jobVars, nameMap, confirms, del, crashed>>

\* The schema is not there any more, or a statement failed.
ConfirmCommitFails(s) ==
    /\ conf[s] = "tx" /\ (stg[s] = "absent" \/ Faults)
    /\ ConfirmFails(s)

-----------------------------------------------------------------------------
(* Deletion, three statements *)

\* The row's schema and roles are read and the row is deleted, which cascades
\* to the job.
DeleteRow(s) ==
    /\ s \in Deletable /\ RowExists(s) /\ del[s] = "none"
    /\ upl[s] \in {"accepted", "error"}
    /\ Patient => ~JobActive(s) /\ conf[s] \notin {"read", "lock", "list", "tx"}
    /\ ds' = [ds EXCEPT ![s] = "gone"]
    /\ job' = [job EXCEPT ![s] = IF @ = "none" THEN @ ELSE "gone"]
    /\ del' = [del EXCEPT ![s] = "schema"]
    /\ UNCHANGED <<schemaCol, roles, stg, lake, lock, upl, cancelReq, seen, h, confVars, crashed>>

\* DROP SCHEMA IF EXISTS <staging_schema> CASCADE
DeleteSchema(s) ==
    /\ del[s] = "schema" /\ h[s] # "copying" /\ conf[s] # "tx"
    /\ stg' = IF schemaCol[s] = "own" THEN [stg EXCEPT ![s] = "absent"] ELSE stg
    /\ lake' = IF schemaCol[s] = "final" THEN {} ELSE lake
    /\ del' = [del EXCEPT ![s] = "tables"]
    /\ UNCHANGED <<dsVars, lock, upl, jobVars, confVars, crashed>>

\* Mutant of DeleteTables: the lakehouse tables are left behind.
DeleteNoTables(s) ==
    /\ del[s] = "tables"
    /\ del' = [del EXCEPT ![s] = "done"]
    /\ UNCHANGED <<dsVars, stg, lake, lock, upl, jobVars, confVars, crashed>>

\* DROP TABLE IF EXISTS of each raw name in the saved roles.
DeleteTables(s) ==
    /\ del[s] = "tables"
    /\ lake' = IF roles[s] THEN {t \in lake : t.name # Plain(s)} ELSE lake
    /\ del' = [del EXCEPT ![s] = "done"]
    /\ UNCHANGED <<dsVars, stg, lock, upl, jobVars, confVars, crashed>>

-----------------------------------------------------------------------------
\* The process dies and restarts: requests and handlers end where they are,
\* transactions roll back, the advisory lock goes with its connection. At
\* boot, wizards not updated for five minutes become failed_resumable.
Crash == \E S \in SUBSET {s \in Sources : ds[s] = "wizard_in_progress"} :
    /\ Faults /\ ~crashed
    /\ crashed' = TRUE
    /\ lock' = Free
    /\ ds' = [s \in Sources |-> IF s \in S THEN "failed_resumable" ELSE ds[s]]
    /\ upl' = [s \in Sources |-> IF upl[s] \in {"check", "insert", "enqueue"} THEN "error" ELSE upl[s]]
    /\ h' = [s \in Sources |-> "off"]
    /\ conf' = [s \in Sources |-> IF conf[s] \in {"read", "lock", "list", "tx"} THEN "failed" ELSE conf[s]]
    /\ moved' = [s \in Sources |-> FALSE]
    /\ del' = [s \in Sources |-> IF del[s] \in {"schema", "tables"} THEN "lost" ELSE del[s]]
    /\ UNCHANGED <<schemaCol, roles, stg, lake, job, cancelReq, seen, nameMap, confirms>>

UploadStep(s) == \/ UploadLock(s) \/ UploadRejected(s) \/ UploadPasses(s) \/ UploadInsert(s)
                 \/ UploadInsertFails(s) \/ UploadEnqueue(s) \/ UploadEnqueueFails(s)

HandlerStep(s) == \/ Parsed(s) \/ ParseFails(s) \/ CreateStaging(s) \/ BeginCopy(s)
                  \/ CopyFails(s) \/ CopyCommit(s) \/ MarkReady(s) \/ MarkReadyFails(s)
                  \/ PbixLock(s) \/ PbixCancelled(s) \/ PbixLoad(s) \/ PbixReady(s)
                  \/ PbixSetProject(s) \/ PbixFails(s) \/ JobEnds(s)

ConfirmStep(s) == \/ ConfirmRead(s) \/ ConfirmResolve(s) \/ ConfirmMoves(s)
                  \/ ConfirmMoveFails(s) \/ ConfirmCommit(s) \/ ConfirmCommitFails(s)

DeleteStep(s) == DeleteSchema(s) \/ DeleteTables(s)

UserStep(s) == \/ CancelJob(s) \/ PostState(s) \/ ConfirmWithBody(s)
               \/ ConfirmBare(s) \/ DeleteRow(s)

Next == \/ \E s \in Sources : \/ UploadStep(s) \/ JobStart(s) \/ ObserveCancel(s)
                              \/ SweepJob(s) \/ HandlerStep(s) \/ ConfirmStep(s)
                              \/ DeleteStep(s) \/ UserStep(s)
        \/ Crash

Spec == Init /\ [][Next]_vars

\* Started requests and handlers go on, queued jobs are claimed (JobQueue's
\* QueuedIsServed), the lock is granted in turn.
Fairness == \A s \in Sources :
    /\ SF_vars(UploadStep(s)) /\ WF_vars(JobStart(s)) /\ SF_vars(HandlerStep(s))
    /\ SF_vars(ConfirmStep(s)) /\ WF_vars(DeleteStep(s)) /\ WF_vars(SweepJob(s))

FairSpec == Spec /\ Fairness

-----------------------------------------------------------------------------
(* Properties *)

TableNames == {Plain(s) : s \in Sources} \cup {Suffixed(s) : s \in Sources}

\* Type invariant: every write of any handler leaves a data_source status that
\* the table's CHECK constraint admits.
TypeOK ==
    /\ ds \in [Sources -> {"none", "syncing", "ready", "failed", "wizard_in_progress",
                           "failed_resumable", "completed", "gone"}]
    /\ schemaCol \in [Sources -> {"none", "own", "final"}]
    /\ roles \in [Sources -> BOOLEAN]
    /\ stg \in [Sources -> {"absent", "empty", "full"}]
    /\ lake \subseteq [name : TableNames, owner : Sources]
    /\ lock \in {Free} \cup {Holder(k, s) : k \in {"upload", "job", "confirm"}, s \in Sources}
    /\ upl \in [Sources -> {"new", "check", "insert", "enqueue", "accepted", "rejected", "error"}]
    /\ job \in [Sources -> {"none", "queued", "running", "succeeded", "failed",
                            "cancelled", "gone"}]
    /\ cancelReq \in [Sources -> BOOLEAN] /\ seen \in [Sources -> BOOLEAN]
    /\ h \in [Sources -> {"off", "parse", "schema", "copy", "copying", "ready", "lock",
                          "load", "populate", "project", "ok", "err"}]
    /\ conf \in [Sources -> {"idle", "read", "lock", "list", "tx", "ok", "conflict", "failed"}]
    /\ nameMap \in [Sources -> TableNames \cup {NoName}]
    /\ moved \in [Sources -> BOOLEAN]
    /\ confirms \in [Sources -> 0..MaxConfirms]
    /\ del \in [Sources -> {"none", "schema", "tables", "done", "lost"}]
    /\ crashed \in BOOLEAN

\* "two byte-identical concurrent uploads cannot both pass the check": no two
\* sources of the same content are being imported or staged at once, across
\* uploads, failures, wizard saves and crashes.
NoDuplicateContent ==
    \A s, t \in Sources : s # t /\ Content[s] = Content[t] =>
        ~(ds[s] \in {"syncing", "ready"} /\ ds[t] \in {"syncing", "ready"})

\* A ready source has its data: a file source in its staging schema, a pbix
\* source in the lakehouse.
ReadyMeansLoaded ==
    \A s \in Sources : ds[s] = "ready" =>
        IF Kind[s] = "file" THEN stg[s] = "full" ELSE \E t \in lake : t.owner = s

\* A job that succeeded left a source that is not still importing.
SucceededMeansImported ==
    \A s \in Sources : job[s] = "succeeded" => ds[s] \notin {"syncing", "failed"}

\* When a DELETE has run to its end and no handler is running, nothing of the
\* source is left, in its staging area or in the lakehouse.
DeletedLeavesNothing ==
    \A s \in Sources : del[s] = "done" /\ h[s] = "off" =>
        stg[s] = "absent" /\ \A t \in lake : t.owner # s

\* What the tables say of a source is true of its data, at every step of uploads,
\* jobs, confirms, deletes and crashes.
StatusMatchesData ==
    TypeOK /\ ReadyMeansLoaded /\ SucceededMeansImported /\ DeletedLeavesNothing

\* Importing or deleting one source never removes a table of another one.
OthersTablesKept ==
    [][\A t \in lake : t \in lake' \/ del[t.owner] # "none"
                          \/ conf[t.owner] = "tx" \/ h[t.owner] = "load"]_vars

\* An accepted upload does not stay syncing under a live job for ever: the
\* source leaves syncing, or its job is shown as failed or cancelled (a failed
\* failDataSource, a crash, and the cancel of a pbix leave the source itself
\* syncing).
SyncingEnds ==
    \A s \in Sources : upl[s] = "accepted" /\ ds[s] = "syncing"
                          ~> ds[s] # "syncing" \/ job[s] \in {"failed", "cancelled"}

\* Every upload and every confirm is answered, whatever import, upload or
\* confirm holds the project lock meanwhile and whatever statement fails.
RequestsAnswered ==
    \A s \in Sources :
        /\ upl[s] = "new" ~> upl[s] \in {"accepted", "rejected", "error"}
        /\ conf[s] = "read" ~> conf[s] \in {"ok", "conflict", "failed"}

\* No import and no request hangs.
IngestEnds == SyncingEnds /\ RequestsAnswered
=============================================================================
