# text2ontology in TLA+

This directory holds TLA+ specifications of text2ontology: its concurrent and failure-prone parts as state
machines, its stateless algorithms as operators with a reference definition each; the TLC configurations that
model-check them; and TLAPS proofs of their most important properties.
Every definition is a translation of Go code; `PROJECT.json` maps each one to its lines.

## The system

text2ontology answers natural-language questions over imported business data. Six Go services share one
PostgreSQL database; a Next.js frontend talks to them through an nginx gateway.

| Part | State it keeps | Operations | What is hard about it |
|---|---|---|---|
| **ingest_job queue** (`collector-server/job`) | table `ingest_job`; worker goroutines of every replica | enqueue, claim, run, beat, cancel, sweep, retention, cascade delete | several processes on one table, lost replies, stalled beats, crash, shutdown |
| **progress reporter** (`job/progress.go`) | in-memory snapshot, the row's progress columns | Update, periodic and final flush | goroutines, writes that land late or never, order with the terminal status |
| **source ingest** (`ingest/file`, `ingest/pbix`, `ingest/wizard`, the delete handler in `cmd/server/main.go`) | `data_source`, per-source staging schema, the project's lakehouse schema | upload, job handlers, wizard save, confirm, delete, boot sweep | multi-statement operations without a transaction, status read early and used late, failures between two steps |
| **project lock** (`ingest/pbit/projectlock.go`, `pkg/srvkit/pool.go`) | a bounded connection pool, session-level advisory locks | WithProjectLock, ordinary statements | waiting while holding, sessions that die, lock leaks |
| **test runner** (`agent-server/handler/lh_test_worker.go`, `handler_lh_testing.go`) | `ont_test_run`, `ont_test_run_case`, `activeRuns`, two semaphores | create, enqueue, retry, cancel, claim, execute, collect, recover | check-then-act requests, replicas, goroutines, startup recovery |
| **thread memory ledger** (`agent-server/ledger`, `builder_ledger`, the turn handler) | JSON in `ont_agent_thread.thread_state`, `ont_agent_step` | load, rebuild, merge, optimistic save with retries | concurrent turns on one thread, retries, schema versions |
| **agent turn and missions** (`handler_agent_lakehouse.go`, `agent-server/analysis`, `mission_shadow.go`, `pkg/mission`) | `ont_agent_step`, the turn's plan, a mission row | start, judge, round loop, plan tools, verify, finish | an LLM that may call anything in any order, many exits, two state machines mirrored into one another |
| **keyword table** (`handler_triage.go`, `handler_lakehouse_metric.go`, `pkg/ontology`, `ingest/pbit/routes*.go`) | `lakehouse_keyword`, alias vectors | triage, triggers, keyword pages, bulk edits, embedding, import | ten writers of one table, each with its own idea of when two texts are equal |
| **ontology tables** (`tool_builder_*.go`, `handler_builder_activate.go`, the ontology pages) | ODs, properties, links, knowledge, join edges | propose, activate, update, delete, mark, edit | check and write in two statements, derived rows that must follow their source |
| **lakehouse-sql-server** | none; shared maps of one plan | resolve, join, build SQL, execute a plan | map iteration order, two forms of one query, parallel steps |
| **smartquery tool** (agent side) | none | compose, bind, dry-run, pivot | two servers that both rewrite one specification |
| **recall-server** | none; a cache in the thread's ledger | search, lineage, disambiguate, splice | goroutines per token, cached and fresh results in one answer |
| **judge, synthesizer, reflection** | none | decide, check, advise | independent rules that may contradict each other |
| **export and import** (`handler_export_import.go`) | the project's ontology tables | export, import (skip, merge, replace) | many statements, no transaction |
| mcp-tools-server, other CRUD, gateway, frontend | none of their own beyond the database | request in, rows out | data processing rather than protocols |

How they interact: an upload (file, URL or pbix) inserts a `data_source` and enqueues a job inside the project
lock; a worker claims the job and runs the handler, which writes the staging or the lakehouse schema; the
wizard's confirm moves staged tables under the same lock; deleting a source cascades to its jobs; heartbeats and
sweeps share the connection pool with the imports. A turn of the agent asks recall-server what the question's words mean in the
keyword and ontology tables, has the judge decide whether it can be answered, and then lets the LLM call tools;
smartquery composes a specification, lakehouse-sql-server turns it into SQL, the agent pivots and checks the rows.
What the turn learned goes to the thread's ledger and to its mission. The test runner executes the same agent in
the background.

## Modules

| Module | Models | Abstract specification / composition |
|---|---|---|
| `JobQueue` | the job queue of several collector processes and the cancel endpoint | implements `JobLifecycle` (property `RefinesLifecycle`) |
| `JobLifecycle` | the life of one job as `job/types.go` documents it | abstract |
| `ProgressReporter` | the Reporter of one job and the end of `runJob` | |
| `SourceIngest` | the sources of one project, from upload to deletion | its `job` variable implements `JobLifecycle` (theorem `JobsFollowTheLifecycle`) |
| `ProjectLock` | WithProjectLock over the bounded pool | the lock that `SourceIngest` takes as one step |
| `TestRun` | the background test runner of several replicas | |
| `Thread` | the requests of one thread, which the next two modules share | |
| `ThreadLedger` | the turns of one thread, lakehouse or builder | |
| `AgentTurn` | the turns of one thread against an arbitrary LLM, with plan and mission | the ledger's part of a turn is `ThreadLedger` |
| `KeywordStore` | the keyword table and its writers | |
| `Ontology` | ODs, properties, links, knowledge, join edges and their writers | |
| `PlanExecutor` | one plan of dependent queries, its steps as goroutines | `Meaning` is its abstract result |
| `QuerySpec` | from a smartquery call to the specification the other server runs | feeds `QueryEngine` |
| `QueryEngine` | from a specification to the rows of its SQL | |
| `Transfer` | export and import of a project | |
| `Recall` | from tokens to a context, and the next turn from the cache | |
| `Judge` | the reachability judge and capability gaps | its verdict is a choice in `AgentTurn` |
| `Answer` | the synthesizer's checks, and reflection | |
| `Pivot` | the pivot, summary and preview of a result | |
| `JobQueueProofs`, `SourceIngestProofs`, `TestRunProofs`, `ThreadLedgerProofs`, `KeywordStoreProofs`, `OntologyProofs` | theorems and proofs about the module of that name | |
| `ServicesProofs` | the same about `ProjectLock`, `ProgressReporter` and `PlanExecutor` | |
| `AgentTurnProofs` | the same about `AgentTurn`, `Judge` and `Answer` | |
| `MC*` | instances for TLC; `MCServices`, `MCAgent`, `MCBackend` and `MCAlgorithms` hold several modules | |

### JobQueue

One variable per column of `ingest_job` that control depends on (`status`, `kind`, `cancelReq`, `error`);
`heartbeat_at` is abstracted to `old[j]`, "older than two minutes", kept only while the row is running, the one
status in which it is read. `cancelling` is the row lock of a cancel UPDATE that has not committed: the claim
statement's `FOR UPDATE SKIP LOCKED` passes over it, and other writers wait for it. A worker's `pc` is its place in
`runJob`: lookup, handler, mark (markTerminal is next), flush. `Claim` and `ClaimReplyLost` are one statement with
and without its answer. `MarkTerminal` writes `WHERE id = $1` whatever the status is, as the code does. A shutdown
makes a process `draining`: its context is cancelled, so its handlers may still return but none of its statements
succeeds. `BeatsMayStall` says whether 24 consecutive beats of a live worker can be lost; `HeartbeatAges` is the
passage of two minutes. `starts` is a history variable.

### ProgressReporter

The mutex makes `Update` and the copy in `Flush` atomic; the UPDATE is executed later (`FlightLands`) or fails
(`FlightLost`), also after `runJob` returned. `MarkTerminal` precedes `FinalFlush` because the final flush is
deferred.

### SourceIngest

Each source ships one table. `lock` is the project's advisory lock (its own protocol is `ProjectLock`). The upload is
lock, check, insert, enqueue, four steps, since the dedup SELECT and the INSERT are two statements; `UploadEnqueueFails` keeps the row when the compensating DELETE fails too. The file
handler's staging transaction is `BeginCopy` to `CopyCommit` or `CopyFails`: while it is open, a DROP SCHEMA waits.
The pbix handler works under the lock and outside any transaction. `SaveState` is `wizard.Update`, which sets
`wizard_in_progress` unconditionally. The confirm reads the row, waits for the lock, resolves names, moves tables and
commits; `MergeImpossible` is where SET SCHEMA under the raw name fails. The delete handler reads the row's schema
and roles and deletes it (one step here; the two statements are adjacent), then drops the schema, then the tables.
`Patient` is the bundled UI's behaviour of polling until a job has ended before it acts.

### ProjectLock

An import moves through `conn` (wants the dedicated connection), `lock` (wants the key), `want` (fn wants a
connection for a statement) and `stmt`. `session` is what the server holds, so a lock can outlive or predecease the
import. `Hash` may map two projects to one key. `Others` are callers of single statements.

### TestRun

`req` are requests that checked the run's status and have not yet written it. `Claim` flips the row and then consults
`activeRuns`. A case's goroutine is `wait`, `gate` (holds runSem), `slot` (holds globalLLMSem too), `run`, or the
status of a result that sits in the channel. The collector persists, recounts and looks for a cancel. A crash empties
a replica; its start resets running cases and runs of **all** replicas, as the code does. `Worlds` are the scenarios of
one instance: how many replicas, cases, requests and restarts, and whether statements fail.

### ThreadLedger

A turn reads its step index, loads (or starts empty when the load fails), rebuilds if needed, merges its recall,
inserts its user row, looks things up, and saves with a version check and at most `MaxRetries` reloads. An Od entry
keeps the turn that loaded it and the strength of its load method; "facts" are the intents, Ok and Ol entries and
tokens, all keyed unions. What recall finds is a constant function of the question. The reads between Load and the
recall merge are one step: they concern the turn's private copy. The thread's agent is
a column of the row; `Builder` selects the builder ledger's turn and reapply.
The rebuild's limit of 20 user rows is above every bound used here and left out.

### AgentTurn

A turn is `recall`, `judge`, `loop`, `ending` or `done`. The LLM is an adversary: in each round it fails, answers, or
calls any tool with any argument, since the dispatcher accepts plan tools it does not advertise. `plan[t]` is the
feature ledger (statuses, retries, the budget of calls before a nudge), `mission[t]` the shadow mission in memory and
`stored[t]` its row, which a failing save leaves behind. `TurnEnd` is the deferred closure. `rows` are the rows of
`ont_agent_step` with the index they were given; `seen[t]` are the turns that were over when t began. Prompts, the
content of answers and the event stream are left out.

### KeywordStore

A row of `lakehouse_keyword` keeps its text, anchors, aliases, whether it is a stopword, and what is embedded. Words
are compared in the three ways the code does it: exactly, by `LOWER`, and without case, spaces and underscores.
Requests are single actions because each is one transaction or one statement; the embedding job is two, since it
reads, calls the model and writes back. `last` is the request that was just answered, for the properties that speak
of what a request leaves.

### Ontology

ODs and properties are absent, proposed, active or gone. `Begin` is the SELECT of a handler that later writes; several
requests may be between the two. `sql` and `canon` number the texts of an OD and of the query built from it. `cause`
is a history variable: what happened to an OD that the code does not protect against.

### Possible extensions

The hypothesis `Orderly` of `TestRunProofs` is about what all clients of a run do together; it could be replaced by a
condition on each client, say that one sends its next request on a run only after the answer to the last.
