------------------------------ MODULE JobQueue ------------------------------
(***************************************************************************)
(* The durable background-task queue of collector-server                   *)
(* (services/collector-server/job) together with the cancel endpoint of    *)
(* backend-api: the ingest_job table, the worker pools of several          *)
(* collector processes that claim rows from it, the heartbeat of each      *)
(* running job, the stale-job sweeper, the retention sweep, the cascade    *)
(* from data_source, and the crash, shutdown and restart of a process.     *)
(*                                                                         *)
(* Time is abstracted: old[j] is "heartbeat_at < now() - 2 minutes", kept  *)
(* only while the row is running, the one status in which it is read.      *)
(***************************************************************************)
EXTENDS Integers, FiniteSets

CONSTANTS
    MaxJobs,        \* bound on the rows ever inserted; ids in created_at order
    Procs,          \* collector-server processes (replicas)
    Workers,        \* worker goroutines of all processes
    ProcOf,         \* the process a worker belongs to
    Kinds,          \* kinds of job that are enqueued
    Registered,     \* kinds with a handler in the dispatcher
    BeatsMayStall,  \* may 24 consecutive beats of a live worker be lost?
    MaxHalts        \* bound on crashes and shutdowns of processes

ASSUME ConstAssumption ==
    /\ MaxJobs \in Nat
    /\ ProcOf \in [Workers -> Procs]
    /\ Registered \subseteq Kinds
    /\ BeatsMayStall \in BOOLEAN
    /\ MaxHalts \in Nat

Jobs == 1..MaxJobs
NoJob == 0

VARIABLES
    \* the ingest_job table, one column each
    status, kind, cancelReq, old, error,
    cancelling,     \* rows locked by a cancel UPDATE that has not committed
    \* the processes
    proc,           \* up | draining (jobCtx cancelled) | down
    boot,           \* boot-time goroutines a process has still to run
    halts,          \* crashes and shutdowns so far
    \* the workers
    pc, cur,        \* where the worker is in runJob, and on which job
    seenCancel,     \* Reporter.cancelled of the worker's current job
    outcome,        \* the status and error markTerminal will write
    starts          \* history: how often a handler was entered for a job

rowVars  == <<status, kind, cancelReq, old, error, cancelling>>
procVars == <<proc, boot, halts>>
workVars == <<pc, cur, seenCancel, outcome, starts>>
vars == <<rowVars, procVars, workVars>>

Terminal == {"succeeded", "failed", "cancelled"}
Statuses == {"none", "queued", "running", "gone"} \cup Terminal
Errors   == {"none", "worker_lost", "no_handler", "handler", "panic", "cancelled"}
Busy     == {"lookup", "handler", "mark", "flush"}
BootTasks == {"sweepStale", "sweepOld"}
NoOutcome == [status |-> "failed", error |-> "none"]

Exists(j) == status[j] \notin {"none", "gone"}
\* No other statement holds the row's lock.
Unlocked(j) == j \notin cancelling
Up(w) == proc[ProcOf[w]] = "up"

Init ==
    /\ status = [j \in Jobs |-> "none"]
    /\ kind \in [Jobs -> Kinds]
    /\ cancelReq = [j \in Jobs |-> FALSE]
    /\ old = [j \in Jobs |-> FALSE]
    /\ error = [j \in Jobs |-> "none"]
    /\ cancelling = {}
    /\ proc = [p \in Procs |-> "up"]
    /\ boot = [p \in Procs |-> {}]   \* the scans of the first boot: no rows
    /\ halts = 0
    /\ pc = [w \in Workers |-> "idle"]
    /\ cur = [w \in Workers |-> NoJob]
    /\ seenCancel = [w \in Workers |-> FALSE]
    /\ outcome = [w \in Workers |-> NoOutcome]
    /\ starts = [j \in Jobs |-> 0]

-----------------------------------------------------------------------------
(* Producers and users *)

\* Enqueue: INSERT a row, which the column default makes 'queued'. Rows are
\* numbered in insertion order; kind[j] was chosen in Init.
Enqueue(j) ==
    /\ status[j] = "none"
    /\ \A i \in Jobs : i < j => status[i] # "none"
    /\ status' = [status EXCEPT ![j] = "queued"]
    /\ UNCHANGED <<kind, cancelReq, old, error, cancelling, procVars, workVars>>

\* handleJobCancel, the UPDATE takes the row lock: only an active job. (A
\* second cancel would rewrite the value that is already there.)
CancelBegin(j) ==
    /\ status[j] \in {"queued", "running"}
    /\ ~cancelReq[j]
    /\ Unlocked(j)
    /\ cancelling' = cancelling \cup {j}
    /\ UNCHANGED <<status, kind, cancelReq, old, error, procVars, workVars>>

\* ... and commits.
CancelCommit(j) ==
    /\ j \in cancelling
    /\ cancelling' = cancelling \ {j}
    /\ cancelReq' = [cancelReq EXCEPT ![j] = TRUE]
    /\ UNCHANGED <<status, kind, old, error, procVars, workVars>>

\* DELETE FROM ingest_job: the row and its columns are gone.
DeleteRows(S) ==
    /\ status' = [j \in Jobs |-> IF j \in S THEN "gone" ELSE status[j]]
    /\ cancelReq' = [j \in Jobs |-> j \notin S /\ cancelReq[j]]
    /\ old' = [j \in Jobs |-> j \notin S /\ old[j]]
    /\ error' = [j \in Jobs |-> IF j \in S THEN "none" ELSE error[j]]
    /\ UNCHANGED <<kind, cancelling>>

\* Deleting a data_source cascades to its jobs, whatever their status.
DeleteSource(j) ==
    /\ Exists(j)
    /\ Unlocked(j)
    /\ DeleteRows({j})
    /\ UNCHANGED <<procVars, workVars>>

-----------------------------------------------------------------------------
(* Workers *)

\* The rows claimNext chooses from: FOR UPDATE SKIP LOCKED passes over a row
\* that a cancel is just updating.
Claimable == {j \in Jobs : status[j] = "queued" /\ Unlocked(j)}

\* Mutant of ClaimRow: the row is only selected, its status written later.
ClaimRowSelectOnly(j) ==
    /\ j \in Claimable
    /\ \A i \in Claimable : j <= i
    /\ UNCHANGED rowVars

\* The claim UPDATE: the oldest claimable row becomes running, beaten now.
ClaimRow(j) ==
    /\ j \in Claimable
    /\ \A i \in Claimable : j <= i
    /\ status' = [status EXCEPT ![j] = "running"]
    /\ old' = [old EXCEPT ![j] = FALSE]
    /\ UNCHANGED <<kind, cancelReq, error, cancelling>>

\* claimNext returns the job and runJob starts with a fresh Reporter.
Claim(w) == \E j \in Jobs :
    /\ pc[w] = "idle" /\ Up(w)
    /\ ClaimRow(j)
    /\ pc' = [pc EXCEPT ![w] = "lookup"]
    /\ cur' = [cur EXCEPT ![w] = j]
    /\ seenCancel' = [seenCancel EXCEPT ![w] = FALSE]
    /\ UNCHANGED <<outcome, starts, procVars>>

\* The UPDATE committed but its answer was lost (connection error): the
\* worker logs "claim error" and polls again, the row stays running.
ClaimReplyLost(w) == \E j \in Jobs :
    /\ pc[w] = "idle" /\ Up(w)
    /\ ClaimRow(j)
    /\ UNCHANGED <<procVars, workVars>>

\* dispatcher.lookup finds the handler and it is entered ...
Lookup(w) ==
    /\ pc[w] = "lookup" /\ proc[ProcOf[w]] # "down"
    /\ kind[cur[w]] \in Registered
    /\ pc' = [pc EXCEPT ![w] = "handler"]
    /\ starts' = [starts EXCEPT ![cur[w]] = @ + 1]
    /\ UNCHANGED <<cur, seenCancel, outcome, rowVars, procVars>>

\* ... or there is none for this kind, and the job will be failed.
LookupFails(w) ==
    /\ pc[w] = "lookup" /\ proc[ProcOf[w]] # "down"
    /\ kind[cur[w]] \notin Registered
    /\ pc' = [pc EXCEPT ![w] = "mark"]
    /\ outcome' = [outcome EXCEPT ![w] = [status |-> "failed", error |-> "no_handler"]]
    /\ UNCHANGED <<cur, seenCancel, starts, rowVars, procVars>>

\* Mutant of Verdict: a panic leaves a status the CHECK constraint rejects.
VerdictUnknownStatus(ret, seen) ==
    IF ret = "panic" THEN [status |-> "panicked", error |-> "panic"]
    ELSE IF seen THEN [status |-> "cancelled", error |-> "cancelled"]
    ELSE [status |-> "succeeded", error |-> "none"]

\* runJob after the handler: a panic fails the job; else an observed cancel
\* wins over both an error and a nil return.
Verdict(ret, seen) ==
    IF ret = "panic" THEN [status |-> "failed", error |-> "panic"]
    ELSE IF seen THEN [status |-> "cancelled", error |-> "cancelled"]
    ELSE IF ret = "err" THEN [status |-> "failed", error |-> "handler"]
    ELSE [status |-> "succeeded", error |-> "none"]

HandlerReturn(w) == \E ret \in {"nil", "err", "panic"} :
    /\ pc[w] = "handler" /\ proc[ProcOf[w]] # "down"
    /\ outcome' = [outcome EXCEPT ![w] = Verdict(ret, seenCancel[w])]
    /\ pc' = [pc EXCEPT ![w] = "mark"]
    /\ UNCHANGED <<cur, seenCancel, starts, rowVars, procVars>>

\* The UPDATE of markTerminal, WHERE id = $1 and nothing else: it overwrites
\* whatever status the row has; a deleted row is not matched.
TerminalWrite(w) ==
    IF Exists(cur[w])
    THEN /\ Unlocked(cur[w])
         /\ status' = [status EXCEPT ![cur[w]] = outcome[w].status]
         /\ error' = [error EXCEPT ![cur[w]] = outcome[w].error]
         /\ old' = [old EXCEPT ![cur[w]] = FALSE]
    ELSE UNCHANGED <<status, error, old>>

MarkTerminal(w) ==
    /\ pc[w] = "mark" /\ Up(w)
    /\ TerminalWrite(w)
    /\ pc' = [pc EXCEPT ![w] = "flush"]
    /\ UNCHANGED <<kind, cancelReq, cancelling, procVars,
                   cur, seenCancel, outcome, starts>>

\* markTerminal failed: a database error, or parentCtx is cancelled because
\* the process drains. The error is only logged.
MarkTerminalLost(w) ==
    /\ pc[w] = "mark" /\ proc[ProcOf[w]] # "down"
    /\ pc' = [pc EXCEPT ![w] = "flush"]
    /\ UNCHANGED <<rowVars, procVars, cur, seenCancel, outcome, starts>>

\* The deferred final flush and cancel(); runJob returns, and the worker
\* loop polls again or, when jobCtx is cancelled, ends.
FinishJob(w) ==
    /\ pc[w] = "flush" /\ proc[ProcOf[w]] # "down"
    /\ pc' = [pc EXCEPT ![w] = "idle"]
    /\ cur' = [cur EXCEPT ![w] = NoJob]
    /\ seenCancel' = [seenCancel EXCEPT ![w] = FALSE]
    /\ outcome' = [outcome EXCEPT ![w] = NoOutcome]
    /\ UNCHANGED <<starts, rowVars, procVars>>

\* beat: refresh heartbeat_at of a row that is still running and read
\* cancel_requested back; a row in another status is left alone.
Beat(w) ==
    /\ pc[w] \in Busy /\ Up(w)
    /\ status[cur[w]] = "running" /\ Unlocked(cur[w])
    /\ old' = [old EXCEPT ![cur[w]] = FALSE]
    /\ seenCancel' = [seenCancel EXCEPT ![w] = @ \/ cancelReq[cur[w]]]
    /\ UNCHANGED <<status, kind, cancelReq, error, cancelling, procVars,
                   pc, cur, outcome, starts>>

-----------------------------------------------------------------------------
(* Time and sweepers *)

\* Some live goroutine beats for the job.
Tended(j) == \E w \in Workers : cur[w] = j /\ pc[w] \in Busy /\ Up(w)

\* Two minutes pass without a beat of the job.
HeartbeatAges(j) ==
    /\ status[j] = "running" /\ ~old[j]
    /\ BeatsMayStall \/ ~Tended(j)
    /\ old' = [old EXCEPT ![j] = TRUE]
    /\ UNCHANGED <<status, kind, cancelReq, error, cancelling, procVars, workVars>>

\* Mutant of Stale: every running row counts as stale.
StaleIgnoringHeartbeat == {j \in Jobs : status[j] = "running"}

Stale == {j \in Jobs : status[j] = "running" /\ old[j]}

\* Mutant of SweepStaleJobs: stale rows are put back in the queue.
RequeueStaleJobs ==
    /\ Stale # {}
    /\ \A j \in Stale : Unlocked(j)
    /\ status' = [j \in Jobs |-> IF j \in Stale THEN "queued" ELSE status[j]]
    /\ old' = [j \in Jobs |-> j \notin Stale /\ old[j]]
    /\ UNCHANGED <<kind, cancelReq, error, cancelling>>

\* SweepStaleJobs, one UPDATE over all stale rows.
SweepStaleJobs ==
    /\ Stale # {}
    /\ \A j \in Stale : Unlocked(j)
    /\ status' = [j \in Jobs |-> IF j \in Stale THEN "failed" ELSE status[j]]
    /\ error' = [j \in Jobs |-> IF j \in Stale THEN "worker_lost" ELSE error[j]]
    /\ old' = [j \in Jobs |-> j \notin Stale /\ old[j]]
    /\ UNCHANGED <<kind, cancelReq, cancelling>>

\* Mutant of PeriodicSweep: only the boot scan sweeps.
NoPeriodicSweep(p) == FALSE /\ proc[p] = "up" /\ UNCHANGED vars

\* RunSweeper: the periodic sweep of a running process.
PeriodicSweep(p) ==
    /\ proc[p] = "up"
    /\ SweepStaleJobs
    /\ UNCHANGED <<procVars, workVars>>

\* The boot scan of stale jobs, which may find nothing.
BootSweepStale(p) ==
    /\ proc[p] = "up" /\ "sweepStale" \in boot[p]
    /\ boot' = [boot EXCEPT ![p] = @ \ {"sweepStale"}]
    /\ IF Stale = {} THEN UNCHANGED rowVars ELSE SweepStaleJobs
    /\ UNCHANGED <<proc, halts, workVars>>

\* SweepOldJobs at boot deletes the terminal rows completed 30 days ago.
BootSweepOld(p) == \E S \in SUBSET {j \in Jobs : status[j] \in Terminal} :
    /\ proc[p] = "up" /\ "sweepOld" \in boot[p]
    /\ boot' = [boot EXCEPT ![p] = @ \ {"sweepOld"}]
    /\ \A j \in S : Unlocked(j)
    /\ DeleteRows(S)
    /\ UNCHANGED <<proc, halts, workVars>>

-----------------------------------------------------------------------------
(* Processes *)

\* SIGTERM: OnShutdown cancels jobCtx. No more claims, beats, sweeps or
\* successful writes of this process; its handlers may still return.
Shutdown(p) ==
    /\ proc[p] = "up" /\ halts < MaxHalts
    /\ proc' = [proc EXCEPT ![p] = "draining"]
    /\ halts' = halts + 1
    /\ UNCHANGED <<boot, rowVars, workVars>>

\* The process dies: after its drain, or at any moment by a crash. Its
\* goroutines are gone; the rows are not.
Dies(p) ==
    /\ proc' = [proc EXCEPT ![p] = "down"]
    /\ boot' = [boot EXCEPT ![p] = {}]
    /\ pc' = [w \in Workers |-> IF ProcOf[w] = p THEN "idle" ELSE pc[w]]
    /\ cur' = [w \in Workers |-> IF ProcOf[w] = p THEN NoJob ELSE cur[w]]
    /\ seenCancel' = [w \in Workers |-> IF ProcOf[w] = p THEN FALSE ELSE seenCancel[w]]
    /\ outcome' = [w \in Workers |-> IF ProcOf[w] = p THEN NoOutcome ELSE outcome[w]]
    /\ UNCHANGED <<starts, rowVars>>

Exit(p)  == proc[p] = "draining" /\ Dies(p) /\ UNCHANGED halts
Crash(p) == proc[p] = "up" /\ halts < MaxHalts /\ Dies(p) /\ halts' = halts + 1

\* main: the boot scans are launched and the pool starts.
Restart(p) ==
    /\ proc[p] = "down"
    /\ proc' = [proc EXCEPT ![p] = "up"]
    /\ boot' = [boot EXCEPT ![p] = BootTasks]
    /\ UNCHANGED <<halts, rowVars, workVars>>

-----------------------------------------------------------------------------
WorkerStep(w) == \/ Claim(w) \/ ClaimReplyLost(w) \/ Lookup(w) \/ LookupFails(w)
                 \/ HandlerReturn(w) \/ MarkTerminal(w) \/ MarkTerminalLost(w)
                 \/ FinishJob(w) \/ Beat(w)

RowStep(j) == \/ Enqueue(j) \/ CancelBegin(j) \/ CancelCommit(j)
              \/ DeleteSource(j) \/ HeartbeatAges(j)

ProcStep(p) == \/ PeriodicSweep(p) \/ BootSweepStale(p) \/ BootSweepOld(p)
               \/ Shutdown(p) \/ Exit(p) \/ Crash(p) \/ Restart(p)

Next == \/ \E w \in Workers : WorkerStep(w)
        \/ \E j \in Jobs : RowStep(j)
        \/ \E p \in Procs : ProcStep(p)

Spec == Init /\ [][Next]_vars

\* Workers poll every 500 ms, handlers return, statements finish, a process
\* that stopped is restarted, time passes and the sweeper ticks every 30 s.
Fairness ==
    /\ \A w \in Workers : /\ WF_vars(Claim(w)) /\ WF_vars(Lookup(w) \/ LookupFails(w))
                          /\ WF_vars(HandlerReturn(w)) /\ WF_vars(FinishJob(w))
                          /\ WF_vars(MarkTerminal(w) \/ MarkTerminalLost(w))
    /\ \A j \in Jobs : WF_vars(CancelCommit(j)) /\ WF_vars(HeartbeatAges(j))
    /\ \A p \in Procs : /\ WF_vars(PeriodicSweep(p)) /\ WF_vars(Exit(p))
                        /\ WF_vars(Restart(p))

FairSpec == Spec /\ Fairness

-----------------------------------------------------------------------------
(* Properties *)

\* Type invariant: column and goroutine domains; a terminal write is always one of
\* the statuses the table's CHECK constraint admits.
TypeOK ==
    /\ status \in [Jobs -> Statuses]
    /\ kind \in [Jobs -> Kinds]
    /\ cancelReq \in [Jobs -> BOOLEAN]
    /\ old \in [Jobs -> BOOLEAN]
    /\ error \in [Jobs -> Errors]
    /\ cancelling \subseteq Jobs
    /\ proc \in [Procs -> {"up", "draining", "down"}]
    /\ boot \in [Procs -> SUBSET BootTasks]
    /\ halts \in 0..MaxHalts
    /\ pc \in [Workers -> {"idle"} \cup Busy]
    /\ cur \in [Workers -> Jobs \cup {NoJob}]
    /\ seenCancel \in [Workers -> BOOLEAN]
    /\ outcome \in [Workers -> [status : Terminal, error : Errors]]
    /\ starts \in [Jobs -> Nat]

\* Across processes, crashes, lost replies, stalled heartbeats and sweeps, a
\* job's handler is entered at most once and no two workers are ever in
\* runJob for the same job (claimNext takes only queued rows, and no path
\* puts a row back to queued).
AtMostOneExecution ==
    /\ \A j \in Jobs : starts[j] <= 1
    /\ \A v, w \in Workers :
          v # w /\ pc[v] \in Busy /\ pc[w] \in Busy => cur[v] # cur[w]

\* A row ends cancelled only if somebody asked for it: Reporter.cancelled is
\* per job, and the beat reads the flag of the row it belongs to.
CancelledWasRequested ==
    \A j \in Jobs : status[j] = "cancelled" => cancelReq[j]

\* While beats are timely, a job the sweeper failed as worker_lost has no
\* live worker: no handler is running for a job shown as lost.
LostMeansAbandoned ==
    \A j \in Jobs : status[j] = "failed" /\ error[j] = "worker_lost" => ~Tended(j)

\* handleJobCancel's comment: "Terminal statuses are immutable." While beats are
\* timely, a row in a terminal status keeps it until it is deleted.
TerminalImmutable ==
    [][\A j \in Jobs : status[j] \in Terminal => status'[j] \in {status[j], "gone"}]_vars

Lifecycle == INSTANCE JobLifecycle WITH Jobs <- Jobs, status <- status

\* While beats are timely, the queue of several processes implements the
\* documented lifecycle of a row (the package comment of job/types.go).
RefinesLifecycle == Lifecycle!Spec

\* A running row does not stay running: its worker finishes it or, when the
\* worker died or its terminal write was lost, the sweeper does.
RunningEnds ==
    \A j \in Jobs : status[j] = "running" ~> status[j] \in Terminal \cup {"gone"}

\* A queued row is claimed (or deleted): a cancel in flight delays it, no more.
QueuedIsServed ==
    \A j \in Jobs : status[j] = "queued" ~> status[j] # "queued"

\* No job waits for ever: what is queued is served and what runs ends, across a
\* crash, a lost terminal write and a heartbeat that stalls.
EveryJobEnds == RunningEnds /\ QueuedIsServed
=============================================================================
