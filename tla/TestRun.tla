------------------------------- MODULE TestRun -------------------------------
(***************************************************************************)
(* The background test runner of agent-server: requests enqueue or retry a *)
(* run, the poll loop of each replica claims queued runs with SKIP LOCKED  *)
(* and a goroutine executes the pending cases behind two semaphores while  *)
(* a collector persists their results and looks for a cancel. Replicas     *)
(* crash, and reset every running row when they start.                     *)
(***************************************************************************)
EXTENDS Integers, FiniteSets

CONSTANTS
    Runs, Cases, RunOf,   \* ont_test_run, ont_test_run_case, its run_id
    Replicas,
    Requests,             \* enqueue / retry-errors / bulk-retry requests
    Concurrency,          \* capacity of runSem
    GlobalSlots,          \* capacity of globalLLMSem
    Worlds                \* what may happen: [replicas: the ones that run, faults: statements may
                          \* fail, retries: cases retried synchronously, outside the worker,
                          \* restarts: bound on the crashes of replicas]

NoReplica == "none"

ASSUME TestRunAssumption ==
    /\ RunOf \in [Cases -> Runs] /\ IsFiniteSet(Cases)
    /\ IsFiniteSet(Replicas) /\ NoReplica \notin Replicas
    /\ Concurrency \in 1..10 /\ GlobalSlots \in Nat \ {0}
    /\ Worlds \subseteq [replicas : SUBSET Replicas, faults : BOOLEAN, retries : SUBSET Cases, restarts : Nat]

VARIABLES
    runStatus,   \* ont_test_run.status ("idle": created, not yet enqueued)
    cancelReq,   \* ont_test_run.cancel_requested
    caseStatus,  \* ont_test_run_case.status
    req,         \* request: [at: new | reset | queue | done, run]
    up,          \* replica: "down" | "recoverCases" | "recoverRuns" | "up"
    active,      \* activeRuns of a replica
    proc,        \* processQueuedRun per replica and run: off | load | exec | final | status | exit
    cancelled,   \* its cancelled flag
    w,           \* goroutine of a case: none | wait | gate | slot | run, or the
                 \* status of the result it has put into resultCh
    retry,       \* replica that retries a case synchronously
    stats,       \* completed_count and error_count of a run
    restarts,
    world        \* which of Worlds it is, never changed

dbVars == <<runStatus, cancelReq, caseStatus, stats>>
procVars == <<active, proc, cancelled, w>>
vars == <<dbVars, req, up, procVars, retry, restarts, world>>

CasesOf(r) == {c \in Cases : RunOf[c] = r}
InState(r, st) == {c \in CasesOf(r) : caseStatus[c] = st}
Ended == {"completed", "error", "cancelled"}

\* Mutant of CountCases: whatever has not failed counts as completed.
CountNotFailed(r, status) ==
    [completed |-> Cardinality({c \in CasesOf(r) : status[c] # "error"}),
     error     |-> Cardinality({c \in CasesOf(r) : status[c] = "error"})]

\* updateLHRunStats recounts the cases of the run.
CountCases(r, status) ==
    [completed |-> Cardinality({c \in CasesOf(r) : status[c] = "completed"}),
     error     |-> Cardinality({c \in CasesOf(r) : status[c] = "error"})]

\* A run that was just created, or one that has been executed before.
Init ==
    /\ \/ /\ runStatus = [r \in Runs |-> "idle"]
          /\ caseStatus = [c \in Cases |-> "pending"]
       \/ /\ runStatus = [r \in Runs |-> "completed"]
          /\ caseStatus \in [Cases -> {"completed", "error"}]
       \/ /\ runStatus = [r \in Runs |-> "cancelled"]
          /\ caseStatus \in [Cases -> Ended]
    /\ cancelReq = [r \in Runs |-> runStatus[r] = "cancelled"]
    /\ req \in [Requests -> [at : {"new"}, run : Runs]]
    /\ world \in Worlds
    /\ up = [p \in Replicas |-> IF p \in world.replicas THEN "up" ELSE "absent"]
    /\ active = [p \in Replicas |-> {}]
    /\ proc = [p \in Replicas |-> [r \in Runs |-> "off"]]
    /\ cancelled = [p \in Replicas |-> [r \in Runs |-> FALSE]]
    /\ w = [p \in Replicas |-> [c \in Cases |-> "none"]]
    /\ retry = [c \in Cases |-> NoReplica]
    /\ stats = [r \in Runs |-> [completed |-> Cardinality(InState(r, "completed")),
                               error     |-> Cardinality(InState(r, "error"))]]
    /\ restarts = 0

-----------------------------------------------------------------------------
(* Requests: the status is read, then written without a condition *)

ReqGoes(q, to) == req' = [req EXCEPT ![q].at = to]
RunIsIdle(r) == runStatus[r] \notin {"running", "queued"}

\* handleLHTestRunEnqueue: there must be pending cases.
EnqueueCheck(q) ==
    LET r == req[q].run IN
    /\ req[q].at = "new" /\ RunIsIdle(r) /\ InState(r, "pending") # {}
    /\ ReqGoes(q, "queue")
    /\ UNCHANGED <<dbVars, up, procVars, retry, restarts, world>>

\* retry-errors and bulk-retry.
RetryCheck(q) ==
    /\ req[q].at = "new" /\ RunIsIdle(req[q].run)
    /\ ReqGoes(q, "reset")
    /\ UNCHANGED <<dbVars, up, procVars, retry, restarts, world>>

\* The named cases, or the failed and cancelled ones, that are not pending or
\* running go back to pending; without any the request is refused.
RetryReset(q) ==
    LET r == req[q].run IN
    /\ req[q].at = "reset"
    /\ \E S \in SUBSET {c \in CasesOf(r) : caseStatus[c] \in Ended} :
         /\ caseStatus' = [c \in Cases |-> IF c \in S THEN "pending" ELSE caseStatus[c]]
         /\ ReqGoes(q, IF S = {} THEN "done" ELSE "queue")
    /\ UNCHANGED <<runStatus, cancelReq, stats, up, procVars, retry, restarts, world>>

QueueRun(q) ==
    /\ req[q].at = "queue"
    /\ runStatus' = [runStatus EXCEPT ![req[q].run] = "queued"]
    /\ cancelReq' = [cancelReq EXCEPT ![req[q].run] = FALSE]
    /\ ReqGoes(q, "done")
    /\ UNCHANGED <<caseStatus, stats, up, procVars, retry, restarts, world>>

\* POST .../cancel
CancelRun(r) ==
    /\ runStatus[r] \in {"queued", "running"} /\ ~cancelReq[r]
    /\ cancelReq' = [cancelReq EXCEPT ![r] = TRUE]
    /\ UNCHANGED <<runStatus, caseStatus, stats, req, up, procVars, retry, restarts, world>>

\* handleLHTestRunCaseRetry: executed inside the request, whatever the run or
\* the worker is doing with the case.
CaseRetryBegins(p, c) ==
    /\ c \in world.retries /\ up[p] = "up" /\ retry[c] = NoReplica
    /\ retry' = [retry EXCEPT ![c] = p]
    /\ caseStatus' = [caseStatus EXCEPT ![c] = "running"]
    /\ UNCHANGED <<runStatus, cancelReq, stats, req, up, procVars, restarts, world>>

CaseRetryEnds(c) ==
    /\ retry[c] # NoReplica
    /\ \E st \in {"completed", "error"} : caseStatus' = [caseStatus EXCEPT ![c] = st]
    /\ stats' = [stats EXCEPT ![RunOf[c]] = CountCases(RunOf[c], caseStatus')]
    /\ retry' = [retry EXCEPT ![c] = NoReplica]
    /\ UNCHANGED <<runStatus, cancelReq, req, up, procVars, restarts, world>>

-----------------------------------------------------------------------------
(* Poll loop *)

\* Mutant of Claim: the candidate is selected, its status written later.
ClaimWithoutFlip(p, r) ==
    /\ up[p] = "up" /\ runStatus[r] = "queued" /\ r \notin active[p]
    /\ proc' = [proc EXCEPT ![p][r] = "load"]
    /\ cancelled' = [cancelled EXCEPT ![p][r] = FALSE]
    /\ active' = [active EXCEPT ![p] = @ \cup {r}]
    /\ UNCHANGED <<dbVars, req, up, w, retry, restarts, world>>

\* claimNextRun, then activeRuns.LoadOrStore: a run that is still in the map
\* has been flipped to running and is not dispatched.
Claim(p, r) ==
    /\ up[p] = "up" /\ runStatus[r] = "queued"
    /\ runStatus' = [runStatus EXCEPT ![r] = "running"]
    /\ IF r \in active[p] THEN UNCHANGED <<proc, cancelled, active>>
       ELSE /\ proc' = [proc EXCEPT ![p][r] = "load"]
            /\ cancelled' = [cancelled EXCEPT ![p][r] = FALSE]
            /\ active' = [active EXCEPT ![p] = @ \cup {r}]
    /\ UNCHANGED <<cancelReq, caseStatus, stats, req, up, w, retry, restarts, world>>

\* The claim commits but its answer is lost.
ClaimReplyLost(p, r) ==
    /\ world.faults /\ up[p] = "up" /\ runStatus[r] = "queued"
    /\ runStatus' = [runStatus EXCEPT ![r] = "running"]
    /\ UNCHANGED <<cancelReq, caseStatus, stats, req, up, procVars, retry, restarts, world>>

ProcGoes(p, r, to) == proc' = [proc EXCEPT ![p][r] = to]

\* No LLM config, no project or no cases to read: the run ends in error.
LoadFails(p, r) ==
    /\ world.faults /\ proc[p][r] = "load"
    /\ runStatus' = [runStatus EXCEPT ![r] = "error"]
    /\ ProcGoes(p, r, "exit")
    /\ UNCHANGED <<cancelReq, caseStatus, stats, req, up, active, cancelled, w, retry, restarts, world>>

\* The pending cases each get a goroutine; without any the run is completed.
LoadCases(p, r) ==
    /\ proc[p][r] = "load"
    /\ IF InState(r, "pending") = {}
       THEN /\ runStatus' = [runStatus EXCEPT ![r] = "completed"]
            /\ ProcGoes(p, r, "exit")
            /\ UNCHANGED w
       ELSE /\ w' = [w EXCEPT ![p] = [c \in Cases |->
                        IF c \in InState(r, "pending") THEN "wait" ELSE @[c]]]
            /\ ProcGoes(p, r, "exec")
            /\ UNCHANGED runStatus
    /\ UNCHANGED <<cancelReq, caseStatus, stats, req, up, active, cancelled, retry, restarts, world>>

-----------------------------------------------------------------------------
(* The goroutine of a case *)

WGoes(p, c, to) == w' = [w EXCEPT ![p][c] = to]

\* Goroutines behind a gate: runSem is held from "gate" on, globalLLMSem too
\* from "slot" on.
RunSemHeld(p, r) == {c \in CasesOf(r) : w[p][c] \in {"gate", "slot", "run"}}
GlobalHeld(p) == {c \in Cases : w[p][c] \in {"slot", "run"}}

\* The cancel flag is set, before or after the slot: a pending case becomes
\* cancelled and a synthetic result is sent.
SkipCancelled(p, c) ==
    /\ w[p][c] \in {"wait", "slot"} /\ cancelled[p][RunOf[c]]
    /\ caseStatus' = [caseStatus EXCEPT ![c] = IF @ = "pending" THEN "cancelled" ELSE @]
    /\ WGoes(p, c, "cancelled")
    /\ UNCHANGED <<runStatus, cancelReq, stats, req, up, active, proc, cancelled, retry, restarts, world>>

TakeRunSem(p, c) ==
    /\ w[p][c] = "wait" /\ ~cancelled[p][RunOf[c]]
    /\ Cardinality(RunSemHeld(p, RunOf[c])) < Concurrency
    /\ WGoes(p, c, "gate")
    /\ UNCHANGED <<dbVars, req, up, active, proc, cancelled, retry, restarts, world>>

\* Mutant of TakeGlobalSem: only the run's own semaphore is taken.
TakeNoGlobalSem(p, c) ==
    /\ w[p][c] = "gate"
    /\ WGoes(p, c, "slot")
    /\ UNCHANGED <<dbVars, req, up, active, proc, cancelled, retry, restarts, world>>

TakeGlobalSem(p, c) ==
    /\ w[p][c] = "gate"
    /\ Cardinality(GlobalHeld(p)) < GlobalSlots
    /\ WGoes(p, c, "slot")
    /\ UNCHANGED <<dbVars, req, up, active, proc, cancelled, retry, restarts, world>>

\* The case is marked running, whatever it is by now, and executed.
StartCase(p, c) ==
    /\ w[p][c] = "slot" /\ ~cancelled[p][RunOf[c]]
    /\ caseStatus' = [caseStatus EXCEPT ![c] = "running"]
    /\ WGoes(p, c, "run")
    /\ UNCHANGED <<runStatus, cancelReq, stats, req, up, active, proc, cancelled, retry, restarts, world>>

\* runLakehouseTestCase returns, or panics and is recovered: a result is sent
\* and both slots are released.
EndCase(p, c) ==
    /\ w[p][c] = "run"
    /\ \E st \in {"completed", "error"} : WGoes(p, c, st)
    /\ UNCHANGED <<dbVars, req, up, active, proc, cancelled, retry, restarts, world>>

-----------------------------------------------------------------------------
(* The collector *)

\* One result: persist it, recount, look for a cancel.
Collect(p, c) ==
    LET r == RunOf[c] IN
    /\ proc[p][r] = "exec" /\ w[p][c] \in Ended
    /\ caseStatus' \in {IF w[p][c] = "cancelled" THEN caseStatus
                          ELSE [caseStatus EXCEPT ![c] = w[p][c]]}
                        \cup (IF world.faults THEN {caseStatus} ELSE {})
    /\ stats' = [stats EXCEPT ![r] = CountCases(r, caseStatus')]
    /\ cancelled' \in {[cancelled EXCEPT ![p][r] = @ \/ cancelReq[r]]}
                       \cup (IF world.faults THEN {cancelled} ELSE {})
    /\ WGoes(p, c, "none")
    /\ UNCHANGED <<runStatus, cancelReq, req, up, active, proc, retry, restarts, world>>

\* resultCh is closed and empty.
Drained(p, r) ==
    /\ proc[p][r] = "exec" /\ \A c \in CasesOf(r) : w[p][c] = "none"
    /\ ProcGoes(p, r, "final")
    /\ UNCHANGED <<dbVars, req, up, active, cancelled, w, retry, restarts, world>>

\* A cancelled run takes its pending cases with it.
CancelPending(p, r) ==
    /\ proc[p][r] = "final"
    /\ caseStatus' = [c \in Cases |-> IF cancelled[p][r] /\ c \in InState(r, "pending")
                                      THEN "cancelled" ELSE caseStatus[c]]
    /\ ProcGoes(p, r, "status")
    /\ UNCHANGED <<runStatus, cancelReq, stats, req, up, active, cancelled, w, retry, restarts, world>>

WriteStatus(p, r) ==
    /\ proc[p][r] = "status"
    /\ runStatus' \in {[runStatus EXCEPT ![r] = IF cancelled[p][r] THEN "cancelled" ELSE "completed"]}
                       \cup (IF world.faults THEN {runStatus} ELSE {})
    /\ ProcGoes(p, r, "exit")
    /\ UNCHANGED <<cancelReq, caseStatus, stats, req, up, active, cancelled, w, retry, restarts, world>>

\* The last recount, and the deferred activeRuns.Delete.
Exit(p, r) ==
    /\ proc[p][r] = "exit"
    /\ stats' = [stats EXCEPT ![r] = CountCases(r, caseStatus)]
    /\ active' = [active EXCEPT ![p] = @ \ {r}]
    /\ ProcGoes(p, r, "off")
    /\ UNCHANGED <<runStatus, cancelReq, caseStatus, req, up, cancelled, w, retry, restarts, world>>

-----------------------------------------------------------------------------
(* Crash and start *)

Crash(p) ==
    /\ up[p] \notin {"down", "absent"} /\ restarts < world.restarts
    /\ up' = [up EXCEPT ![p] = "down"]
    /\ active' = [active EXCEPT ![p] = {}]
    /\ proc' = [proc EXCEPT ![p] = [r \in Runs |-> "off"]]
    /\ cancelled' = [cancelled EXCEPT ![p] = [r \in Runs |-> FALSE]]
    /\ w' = [w EXCEPT ![p] = [c \in Cases |-> "none"]]
    /\ retry' = [c \in Cases |-> IF retry[c] = p THEN NoReplica ELSE retry[c]]
    /\ restarts' = restarts + 1
    /\ UNCHANGED <<dbVars, req, world>>

Start(p) ==
    /\ up[p] = "down"
    /\ up' = [up EXCEPT ![p] = "recoverCases"]
    /\ UNCHANGED <<dbVars, req, procVars, retry, restarts, world>>

\* recoverInterruptedRuns: all running cases of all replicas ...
RecoverCases(p) ==
    /\ up[p] = "recoverCases"
    /\ caseStatus' = [c \in Cases |-> IF caseStatus[c] = "running" THEN "pending" ELSE caseStatus[c]]
    /\ up' = [up EXCEPT ![p] = "recoverRuns"]
    /\ UNCHANGED <<runStatus, cancelReq, stats, req, procVars, retry, restarts, world>>

\* Mutant of RecoverRuns: the runs stay running.
RecoverNoRuns(p) ==
    /\ up[p] = "recoverRuns"
    /\ up' = [up EXCEPT ![p] = "up"]
    /\ UNCHANGED <<dbVars, req, procVars, retry, restarts, world>>

\* ... then all running runs, whose cancel is forgotten.
RecoverRuns(p) ==
    /\ up[p] = "recoverRuns"
    /\ runStatus' = [r \in Runs |-> IF runStatus[r] = "running" THEN "queued" ELSE runStatus[r]]
    /\ cancelReq' = [r \in Runs |-> IF runStatus[r] = "running" THEN FALSE ELSE cancelReq[r]]
    /\ up' = [up EXCEPT ![p] = "up"]
    /\ UNCHANGED <<caseStatus, stats, req, procVars, retry, restarts, world>>

RequestStep(q) == EnqueueCheck(q) \/ RetryCheck(q) \/ RetryReset(q) \/ QueueRun(q)
RunStep(p, r) == \/ LoadFails(p, r) \/ LoadCases(p, r) \/ Drained(p, r)
                 \/ CancelPending(p, r) \/ WriteStatus(p, r) \/ Exit(p, r)
CaseStep(p, c) == \/ SkipCancelled(p, c) \/ TakeRunSem(p, c) \/ TakeGlobalSem(p, c)
                  \/ StartCase(p, c) \/ EndCase(p, c) \/ Collect(p, c)
Recover(p) == Start(p) \/ RecoverCases(p) \/ RecoverRuns(p)

Next ==
    \/ \E q \in Requests : RequestStep(q)
    \/ \E r \in Runs : CancelRun(r)
    \/ \E p \in Replicas, r \in Runs : Claim(p, r) \/ ClaimReplyLost(p, r) \/ RunStep(p, r)
    \/ \E p \in Replicas, c \in Cases : CaseStep(p, c) \/ CaseRetryBegins(p, c)
    \/ \E c \in Cases : CaseRetryEnds(c)
    \/ \E p \in Replicas : Crash(p) \/ Recover(p)

Spec == Init /\ [][Next]_vars

\* The poll loop ticks every two seconds, LLM calls time out, the semaphores
\* and channels hand over, requests that passed their check go on, and a
\* crashed replica is started again.
Fairness ==
    /\ \A q \in Requests : WF_vars(RetryReset(q)) /\ WF_vars(QueueRun(q))
    /\ \A p \in Replicas, r \in Runs : WF_vars(Claim(p, r)) /\ WF_vars(RunStep(p, r))
    /\ \A p \in Replicas, c \in Cases : SF_vars(CaseStep(p, c))
    /\ \A c \in Cases : WF_vars(CaseRetryEnds(c))
    /\ \A p \in Replicas : WF_vars(Recover(p))

FairSpec == Spec /\ Fairness

-----------------------------------------------------------------------------
(* Properties *)

\* Type invariant: statuses of runs and cases, places of the goroutines, and
\* counters within the number of cases.
TypeOK ==
    /\ runStatus \in [Runs -> {"idle", "queued", "running", "completed", "cancelled", "error"}]
    /\ cancelReq \in [Runs -> BOOLEAN]
    /\ caseStatus \in [Cases -> {"pending", "running"} \cup Ended]
    /\ req \in [Requests -> [at : {"new", "reset", "queue", "done"}, run : Runs]]
    /\ up \in [Replicas -> {"absent", "down", "recoverCases", "recoverRuns", "up"}]
    /\ active \in [Replicas -> SUBSET Runs]
    /\ proc \in [Replicas -> [Runs -> {"off", "load", "exec", "final", "status", "exit"}]]
    /\ cancelled \in [Replicas -> [Runs -> BOOLEAN]]
    /\ w \in [Replicas -> [Cases -> {"none", "wait", "gate", "slot", "run"} \cup Ended]]
    /\ retry \in [Cases -> Replicas \cup {NoReplica}]
    /\ stats \in [Runs -> [completed : 0..Cardinality(Cases), error : 0..Cardinality(Cases)]]
    /\ world \in Worlds /\ restarts \in 0..world.restarts

Processors(r) == {p \in Replicas : proc[p][r] # "off"}

\* claimRunSQL: "concurrent worker loops (across replicas or goroutines) never
\* claim the same run": until a replica restarts, and so puts the runs of all
\* others back into the queue, a run that is queued once has one processor.
OneProcessor == restarts = 0 => \A r \in Runs : Cardinality(Processors(r)) <= 1

\* A run is processed by a replica exactly as long as it is in its activeRuns,
\* and its goroutines live only inside that: nothing of a run is left behind
\* for the next claim of it.
GoroutinesBelongToTheRun ==
    \A p \in Replicas :
        /\ active[p] = {r \in Runs : proc[p][r] # "off"}
        /\ \A c \in Cases : w[p][c] # "none" => proc[p][RunOf[c]] = "exec"

\* Claims, processors and goroutines of a run agree, on every replica.
RunHasOneProcessor == TypeOK /\ OneProcessor /\ GoroutinesBelongToTheRun

\* One replica, whose statements succeed, and nobody who retries single cases.
Calm == Cardinality(world.replicas) = 1 /\ ~world.faults /\ world.retries = {}

\* A finished run has no case that is still to run or running, for nobody is left
\* to execute it, and the counters a polling client sees are exact. (Requests and
\* single-case retries may open it again, and a replica that starts resets the
\* rows of its peers.)
FinishedRunsAreDone ==
    Calm => \A r \in Runs :
        /\ runStatus[r] \in {"completed", "cancelled"} /\ Processors(r) = {}
        /\ \A q \in Requests : req[q].at # "queue"
        => /\ CasesOf(r) = UNION {InState(r, st) : st \in Ended}
           /\ stats[r].completed = Cardinality(InState(r, "completed"))
           /\ stats[r].error = Cardinality(InState(r, "error"))

LLMCalls(p) == Cardinality({c \in Cases : w[p][c] = "run"})
                 + Cardinality({c \in Cases : retry[c] = p})

\* globalLLMSem "limits the total number of concurrent LLM calls across all
\* runs": those of a replica together, while no handler retries a case by itself.
LLMCallsBounded == world.retries = {} => \A p \in Replicas : LLMCalls(p) <= GlobalSlots

\* handleLHTestRunEnqueue: "background worker will pick it up": a run that is
\* queued is executed to its end, whatever is cancelled or crashes meanwhile.
QueuedRunEnds ==
    \A r \in Runs : Calm /\ runStatus[r] = "queued" ~> runStatus[r] \in {"completed", "cancelled", "error"}
=============================================================================
