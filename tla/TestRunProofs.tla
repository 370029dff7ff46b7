---------------------------- MODULE TestRunProofs ----------------------------
(***************************************************************************)
(* Proofs about TestRun for every set of runs, cases, replicas, requests   *)
(* and worlds, and every capacity of the two semaphores.                   *)
(***************************************************************************)
EXTENDS TestRun, FiniteSetTheorems, TLAPS

InFlight(q) == req[q].at \in {"reset", "queue"}

\* The clients take turns: a request that has passed its check is the only one
\* on its way to that run, and no replica still works on the run. (The handlers
\* check the status without a lock, so that two of them may both find the run
\* idle; nor do they look whether the last processor has left.)
Orderly ==
    \A q \in Requests : InFlight(q) =>
        /\ Processors(req[q].run) = {}
        /\ \A q2 \in Requests : InFlight(q2) /\ req[q2].run = req[q].run => q2 = q

\* A replica has processors only while it is up; the ones outside the world
\* never are; and a run stays idle while a request is on its way to it.
UpInv ==
    /\ \A p \in Replicas, r \in Runs : proc[p][r] # "off" => up[p] = "up"
    /\ \A p \in Replicas : up[p] # "absent" => p \in world.replicas
IdleInv == \A q \in Requests : InFlight(q) => RunIsIdle(req[q].run)

\* Before the first restart: every replica that exists polls, a queued run
\* has no processor and a run at most one.
OneInv ==
    restarts = 0 =>
        /\ \A p \in Replicas : up[p] \in {"up", "absent"}
        /\ \A r \in Runs : runStatus[r] = "queued" => \A p \in Replicas : proc[p][r] = "off"
        /\ \A r \in Runs, p, p2 \in Replicas :
              proc[p][r] # "off" /\ proc[p2][r] # "off" => p = p2

Stale(r) == stats[r] # CountCases(r, caseStatus)

\* With one replica and no faults, of every run: a case that is left keeps the
\* run from being finished, or a request is about to queue it; stale counters
\* have such a case; the processor's phase agrees with the statuses of the run
\* and of its cases; and a processor that saw the cancel has recounted.
LeftOf(r) ==
    (\E c \in CasesOf(r) : caseStatus[c] \notin Ended) /\ runStatus[r] \in {"completed", "cancelled"}
       => \E q \in Requests : req[q].at = "queue" /\ req[q].run = r
StaleOf(r) == Stale(r) => \E c \in CasesOf(r) : caseStatus[c] \notin Ended
PhaseOf(p, r) ==
    /\ runStatus[r] = "queued" => proc[p][r] = "off"
    /\ proc[p][r] \in {"load", "exec", "final", "status"} => runStatus[r] = "running"
    /\ proc[p][r] = "exec" => \A c \in CasesOf(r) :
          /\ caseStatus[c] = "pending" => w[p][c] \in {"wait", "gate", "slot"}
          /\ caseStatus[c] = "running" => w[p][c] \in {"run", "completed", "error"}
    /\ proc[p][r] \in {"final", "status", "exit"} => \A c \in CasesOf(r) : caseStatus[c] \in Ended
    /\ proc[p][r] # "off" /\ cancelled[p][r] => ~Stale(r)
    /\ p \in world.replicas /\ proc[p][r] # "exec" /\ up[p] \notin {"down", "recoverCases"}
          => \A c \in CasesOf(r) : caseStatus[c] # "running"
CalmOf(r) == LeftOf(r) /\ StaleOf(r) /\ \A p \in Replicas : PhaseOf(p, r)
CalmInv == Calm => \A r \in Runs : CalmOf(r)

-----------------------------------------------------------------------------
(* Counters and types *)

\* updateLHRunStats counts at most all the cases.
LEMMA CountsInRange ==
    ASSUME NEW r, NEW status
    PROVE  CountCases(r, status) \in [completed : 0..Cardinality(Cases), error : 0..Cardinality(Cases)]
<1> DEFINE C == {c \in CasesOf(r) : status[c] = "completed"}
           E == {c \in CasesOf(r) : status[c] = "error"}
<1>1. IsFiniteSet(Cases) /\ C \in SUBSET Cases /\ E \in SUBSET Cases
  BY TestRunAssumption DEF CasesOf
<1>2. IsFiniteSet(C) /\ Cardinality(C) <= Cardinality(Cases)
  BY ONLY <1>1, FS_Subset
<1>3. IsFiniteSet(E) /\ Cardinality(E) <= Cardinality(Cases)
  BY ONLY <1>1, FS_Subset
<1>4. Cardinality(C) \in Nat /\ Cardinality(E) \in Nat /\ Cardinality(Cases) \in Nat
  BY ONLY <1>1, <1>2, <1>3, FS_CardinalityType
<1>5. Cardinality(C) \in 0..Cardinality(Cases) /\ Cardinality(E) \in 0..Cardinality(Cases)
  BY ONLY <1>2, <1>3, <1>4
<1>6. CountCases(r, status) = [completed |-> Cardinality(C), error |-> Cardinality(E)]
  BY DEF CountCases
<1> QED BY ONLY <1>5, <1>6

\* A table keeps its type when one of its rows, or one entry of a row, is set.
LEMMA RowUpdate ==
    ASSUME NEW A, NEW B, NEW V, NEW f \in [A -> [B -> V]], NEW a \in A, NEW row \in [B -> V]
    PROVE  [f EXCEPT ![a] = row] \in [A -> [B -> V]]
OBVIOUS

LEMMA EntryUpdate ==
    ASSUME NEW A, NEW B, NEW V, NEW f \in [A -> [B -> V]], NEW a \in A, NEW b \in B, NEW v \in V
    PROVE  [f EXCEPT ![a][b] = v] \in [A -> [B -> V]]
OBVIOUS

\* Every step of the requests, the poll loops, the goroutines and the replicas
\* keeps the types.
LEMMA NextTypeOK ==
    ASSUME TypeOK, [Next]_vars
    PROVE  TypeOK'
<1> USE TestRunAssumption DEF TypeOK, dbVars, procVars, Ended
<1>1. ASSUME NEW q \in Requests, EnqueueCheck(q) PROVE TypeOK'
  BY <1>1 DEF EnqueueCheck, ReqGoes
<1>2. ASSUME NEW q \in Requests, RetryCheck(q) PROVE TypeOK'
  BY <1>2 DEF RetryCheck, ReqGoes
<1>3. ASSUME NEW q \in Requests, RetryReset(q) PROVE TypeOK'
  <2>1. PICK S \in SUBSET Cases :
          /\ caseStatus' = [c \in Cases |-> IF c \in S THEN "pending" ELSE caseStatus[c]]
          /\ req' = [req EXCEPT ![q].at = IF S = {} THEN "done" ELSE "queue"]
    BY <1>3 DEF RetryReset, ReqGoes, CasesOf
  <2>2. caseStatus' \in [Cases -> {"pending", "running"} \cup Ended]
    BY <2>1
  <2>3. (IF S = {} THEN "done" ELSE "queue") \in {"new", "reset", "queue", "done"}
    OBVIOUS
  <2>4. req' \in [Requests -> [at : {"new", "reset", "queue", "done"}, run : Runs]]
    <3> DEFINE to == IF S = {} THEN "done" ELSE "queue"
    <3>1. req' = [req EXCEPT ![q].at = to] /\ to \in {"new", "reset", "queue", "done"}
      BY <2>1, <2>3
    <3>2. req \in [Requests -> [at : {"new", "reset", "queue", "done"}, run : Runs]]
      OBVIOUS
    <3> HIDE DEF to
    <3> QED BY ONLY <3>1, <3>2, q \in Requests
  <2> QED BY <1>3, <2>2, <2>4 DEF RetryReset
<1>4. ASSUME NEW q \in Requests, QueueRun(q) PROVE TypeOK'
  BY <1>4 DEF QueueRun, ReqGoes
<1>5. ASSUME NEW r \in Runs, CancelRun(r) PROVE TypeOK'
  BY <1>5 DEF CancelRun
<1>6. ASSUME NEW p \in Replicas, NEW c \in Cases, CaseRetryBegins(p, c) PROVE TypeOK'
  BY <1>6 DEF CaseRetryBegins
<1>7. ASSUME NEW c \in Cases, CaseRetryEnds(c) PROVE TypeOK'
  <2>1. stats' = [stats EXCEPT ![RunOf[c]] = CountCases(RunOf[c], caseStatus')]
    BY <1>7 DEF CaseRetryEnds
  <2>2. stats' \in [Runs -> [completed : 0..Cardinality(Cases), error : 0..Cardinality(Cases)]]
    BY <2>1, CountsInRange
  <2> QED BY <1>7, <2>2 DEF CaseRetryEnds
<1>8. ASSUME NEW p \in Replicas, NEW r \in Runs, Claim(p, r) PROVE TypeOK'
  <2>1. CASE r \in active[p]
    BY <1>8, <2>1 DEF Claim
  <2>2. CASE r \notin active[p]
    <3>1. proc' = [proc EXCEPT ![p][r] = "load"] /\ cancelled' = [cancelled EXCEPT ![p][r] = FALSE]
          /\ active' = [active EXCEPT ![p] = @ \cup {r}]
      BY <1>8, <2>2 DEF Claim
    <3>2. proc' \in [Replicas -> [Runs -> {"off", "load", "exec", "final", "status", "exit"}]]
      BY <3>1
    <3>3. cancelled' \in [Replicas -> [Runs -> BOOLEAN]]
      BY <3>1
    <3>4. active' \in [Replicas -> SUBSET Runs]
      BY <3>1
    <3> QED BY <1>8, <3>2, <3>3, <3>4 DEF Claim
  <2> QED BY <2>1, <2>2
<1>9. ASSUME NEW p \in Replicas, NEW r \in Runs, ClaimReplyLost(p, r) PROVE TypeOK'
  BY <1>9 DEF ClaimReplyLost
<1>10. ASSUME NEW p \in Replicas, NEW r \in Runs, LoadFails(p, r) PROVE TypeOK'
  BY <1>10 DEF LoadFails, ProcGoes
<1>11. ASSUME NEW p \in Replicas, NEW r \in Runs, LoadCases(p, r) PROVE TypeOK'
  <2>1. proc' \in [Replicas -> [Runs -> {"off", "load", "exec", "final", "status", "exit"}]]
    <3>1. proc' = [proc EXCEPT ![p][r] = "exit"] \/ proc' = [proc EXCEPT ![p][r] = "exec"]
      BY <1>11 DEF LoadCases, ProcGoes
    <3>2. proc \in [Replicas -> [Runs -> {"off", "load", "exec", "final", "status", "exit"}]]
      OBVIOUS
    <3> QED BY ONLY <3>1, <3>2, EntryUpdate, p \in Replicas, r \in Runs
  <2>2. runStatus' \in [Runs -> {"idle", "queued", "running", "completed", "cancelled", "error"}]
    BY <1>11 DEF LoadCases
  <2>3. w' = w \/ w' = [w EXCEPT ![p] = [c \in Cases |-> IF c \in InState(r, "pending") THEN "wait" ELSE @[c]]]
    BY <1>11 DEF LoadCases
  <2>4. w' \in [Replicas -> [Cases -> {"none", "wait", "gate", "slot", "run"} \cup Ended]]
    <3> DEFINE row == [c \in Cases |-> IF c \in InState(r, "pending") THEN "wait" ELSE w[p][c]]
    <3>1. w' = w \/ w' = [w EXCEPT ![p] = row]
      BY <2>3
    <3>2. row \in [Cases -> {"none", "wait", "gate", "slot", "run"} \cup Ended]
      OBVIOUS
    <3>3. w \in [Replicas -> [Cases -> {"none", "wait", "gate", "slot", "run"} \cup Ended]]
      OBVIOUS
    <3> HIDE DEF row
    <3> QED BY ONLY <3>1, <3>2, <3>3, RowUpdate, p \in Replicas
  <2> QED BY <1>11, <2>1, <2>2, <2>4 DEF LoadCases
<1>12. ASSUME NEW p \in Replicas, NEW c \in Cases, SkipCancelled(p, c) PROVE TypeOK'
  BY <1>12 DEF SkipCancelled, WGoes
<1>13. ASSUME NEW p \in Replicas, NEW c \in Cases, TakeRunSem(p, c) PROVE TypeOK'
  BY <1>13 DEF TakeRunSem, WGoes
<1>14. ASSUME NEW p \in Replicas, NEW c \in Cases, TakeGlobalSem(p, c) PROVE TypeOK'
  BY <1>14 DEF TakeGlobalSem, WGoes
<1>15. ASSUME NEW p \in Replicas, NEW c \in Cases, StartCase(p, c) PROVE TypeOK'
  BY <1>15 DEF StartCase, WGoes
<1>16. ASSUME NEW p \in Replicas, NEW c \in Cases, EndCase(p, c) PROVE TypeOK'
  BY <1>16 DEF EndCase, WGoes
<1>17. ASSUME NEW p \in Replicas, NEW c \in Cases, Collect(p, c) PROVE TypeOK'
  <2>1. stats' = [stats EXCEPT ![RunOf[c]] = CountCases(RunOf[c], caseStatus')]
    BY <1>17 DEF Collect
  <2>2. stats' \in [Runs -> [completed : 0..Cardinality(Cases), error : 0..Cardinality(Cases)]]
    BY <2>1, CountsInRange
  <2>3. caseStatus' \in [Cases -> {"pending", "running"} \cup Ended]
    BY <1>17 DEF Collect
  <2>4. cancelled' = cancelled \/ cancelled' = [cancelled EXCEPT ![p][RunOf[c]] = @ \/ cancelReq[RunOf[c]]]
    BY <1>17 DEF Collect
  <2>6. cancelled' \in [Replicas -> [Runs -> BOOLEAN]]
    <3> DEFINE flag == cancelled[p][RunOf[c]] \/ cancelReq[RunOf[c]]
    <3>1. cancelled' = cancelled \/ cancelled' = [cancelled EXCEPT ![p][RunOf[c]] = flag]
      BY <2>4
    <3>2. flag \in BOOLEAN
      OBVIOUS
    <3> HIDE DEF flag
    <3>3. [cancelled EXCEPT ![p][RunOf[c]] = flag] \in [Replicas -> [Runs -> BOOLEAN]]
      BY <3>2, EntryUpdate
    <3> QED BY <3>1, <3>3
  <2>7. w' \in [Replicas -> [Cases -> {"none", "wait", "gate", "slot", "run"} \cup Ended]]
    BY <1>17 DEF Collect, WGoes
  <2> QED BY <1>17, <2>2, <2>3, <2>6, <2>7 DEF Collect
<1>18. ASSUME NEW p \in Replicas, NEW r \in Runs, Drained(p, r) PROVE TypeOK'
  BY <1>18 DEF Drained, ProcGoes
<1>19. ASSUME NEW p \in Replicas, NEW r \in Runs, CancelPending(p, r) PROVE TypeOK'
  BY <1>19 DEF CancelPending, ProcGoes
<1>20. ASSUME NEW p \in Replicas, NEW r \in Runs, WriteStatus(p, r) PROVE TypeOK'
  BY <1>20 DEF WriteStatus, ProcGoes
<1>21. ASSUME NEW p \in Replicas, NEW r \in Runs, Exit(p, r) PROVE TypeOK'
  <2>1. stats' = [stats EXCEPT ![r] = CountCases(r, caseStatus)]
    BY <1>21 DEF Exit
  <2>2. stats' \in [Runs -> [completed : 0..Cardinality(Cases), error : 0..Cardinality(Cases)]]
    BY <2>1, CountsInRange
  <2> QED BY <1>21, <2>2 DEF Exit, ProcGoes
<1>22. ASSUME NEW p \in Replicas, Crash(p) PROVE TypeOK'
  BY <1>22 DEF Crash
<1>23. ASSUME NEW p \in Replicas, Recover(p) PROVE TypeOK'
  <2>1. CASE Start(p)
    BY <2>1 DEF Start
  <2>2. CASE RecoverCases(p)
    BY <2>2 DEF RecoverCases
  <2>3. CASE RecoverRuns(p)
    <3>1. cancelReq' = [r \in Runs |-> IF runStatus[r] = "running" THEN FALSE ELSE cancelReq[r]]
      BY <2>3 DEF RecoverRuns
    <3>2. \A r \in Runs : cancelReq'[r] = FALSE \/ cancelReq'[r] = cancelReq[r]
      BY <3>1
    <3>3. cancelReq' \in [Runs -> BOOLEAN]
      BY <3>1, <3>2
    <3> QED BY <2>3, <3>3 DEF RecoverRuns
  <2> QED BY <1>23, <2>1, <2>2, <2>3 DEF Recover
<1>24. CASE UNCHANGED vars
  BY <1>24 DEF vars
<1> QED BY <1>1, <1>2, <1>3, <1>4, <1>5, <1>6, <1>7, <1>8, <1>9, <1>10, <1>11, <1>12, <1>13, <1>14,
           <1>15, <1>16, <1>17, <1>18, <1>19, <1>20, <1>21, <1>22, <1>23, <1>24
        DEF Next, RequestStep, RunStep, CaseStep

-----------------------------------------------------------------------------
(* Who works on a run *)

\* activeRuns and the goroutines, entry by entry.
ActiveInv == \A p \in Replicas, r \in Runs : r \in active[p] <=> proc[p][r] # "off"
GoroutineInv == \A p \in Replicas, c \in Cases : w[p][c] # "none" => proc[p][RunOf[c]] = "exec"

\* LoadOrStore and Delete frame processQueuedRun.
LEMMA NextActive ==
    ASSUME TypeOK, ActiveInv, [Next]_vars
    PROVE  ActiveInv'
<1> USE DEF TypeOK, ActiveInv, dbVars, procVars
<1>1. ASSUME NEW q \in Requests, EnqueueCheck(q) PROVE ActiveInv'
  BY <1>1 DEF EnqueueCheck, ReqGoes
<1>2. ASSUME NEW q \in Requests, RetryCheck(q) PROVE ActiveInv'
  BY <1>2 DEF RetryCheck, ReqGoes
<1>3. ASSUME NEW q \in Requests, RetryReset(q) PROVE ActiveInv'
  BY <1>3 DEF RetryReset, ReqGoes
<1>4. ASSUME NEW q \in Requests, QueueRun(q) PROVE ActiveInv'
  BY <1>4 DEF QueueRun, ReqGoes
<1>5. ASSUME NEW r \in Runs, CancelRun(r) PROVE ActiveInv'
  BY <1>5 DEF CancelRun
<1>6. ASSUME NEW p \in Replicas, NEW c \in Cases, CaseRetryBegins(p, c) PROVE ActiveInv'
  BY <1>6 DEF CaseRetryBegins
<1>7. ASSUME NEW c \in Cases, CaseRetryEnds(c) PROVE ActiveInv'
  BY <1>7 DEF CaseRetryEnds
<1>8. ASSUME NEW p \in Replicas, NEW r \in Runs, Claim(p, r) PROVE ActiveInv'
  <2>1. CASE r \in active[p]
    BY <1>8, <2>1 DEF Claim
  <2>2. CASE r \notin active[p]
    <3>1. proc' = [proc EXCEPT ![p][r] = "load"] /\ active' = [active EXCEPT ![p] = @ \cup {r}]
      BY <1>8, <2>2 DEF Claim
    <3> QED BY <3>1
  <2> QED BY <2>1, <2>2
<1>9. ASSUME NEW p \in Replicas, NEW r \in Runs, ClaimReplyLost(p, r) PROVE ActiveInv'
  BY <1>9 DEF ClaimReplyLost
<1>10. ASSUME NEW p \in Replicas, NEW r \in Runs, LoadFails(p, r) PROVE ActiveInv'
  BY <1>10 DEF LoadFails, ProcGoes
<1>11. ASSUME NEW p \in Replicas, NEW r \in Runs, LoadCases(p, r) PROVE ActiveInv'
  BY <1>11 DEF LoadCases, ProcGoes
<1>12. ASSUME NEW p \in Replicas, NEW c \in Cases, SkipCancelled(p, c) PROVE ActiveInv'
  BY <1>12 DEF SkipCancelled, WGoes
<1>13. ASSUME NEW p \in Replicas, NEW c \in Cases, TakeRunSem(p, c) PROVE ActiveInv'
  BY <1>13 DEF TakeRunSem, WGoes
<1>14. ASSUME NEW p \in Replicas, NEW c \in Cases, TakeGlobalSem(p, c) PROVE ActiveInv'
  BY <1>14 DEF TakeGlobalSem, WGoes
<1>15. ASSUME NEW p \in Replicas, NEW c \in Cases, StartCase(p, c) PROVE ActiveInv'
  BY <1>15 DEF StartCase, WGoes
<1>16. ASSUME NEW p \in Replicas, NEW c \in Cases, EndCase(p, c) PROVE ActiveInv'
  BY <1>16 DEF EndCase, WGoes
<1>17. ASSUME NEW p \in Replicas, NEW c \in Cases, Collect(p, c) PROVE ActiveInv'
  BY <1>17 DEF Collect, WGoes
<1>18. ASSUME NEW p \in Replicas, NEW r \in Runs, Drained(p, r) PROVE ActiveInv'
  BY <1>18 DEF Drained, ProcGoes
<1>19. ASSUME NEW p \in Replicas, NEW r \in Runs, CancelPending(p, r) PROVE ActiveInv'
  BY <1>19 DEF CancelPending, ProcGoes
<1>20. ASSUME NEW p \in Replicas, NEW r \in Runs, WriteStatus(p, r) PROVE ActiveInv'
  BY <1>20 DEF WriteStatus, ProcGoes
<1>21. ASSUME NEW p \in Replicas, NEW r \in Runs, Exit(p, r) PROVE ActiveInv'
  BY <1>21 DEF Exit, ProcGoes
<1>22. ASSUME NEW p \in Replicas, Crash(p) PROVE ActiveInv'
  BY <1>22 DEF Crash
<1>23. ASSUME NEW p \in Replicas, Start(p) PROVE ActiveInv'
  BY <1>23 DEF Start
<1>24. ASSUME NEW p \in Replicas, RecoverCases(p) PROVE ActiveInv'
  BY <1>24 DEF RecoverCases
<1>25. ASSUME NEW p \in Replicas, RecoverRuns(p) PROVE ActiveInv'
  BY <1>25 DEF RecoverRuns
<1>26. CASE UNCHANGED vars
  BY <1>26 DEF vars
<1> QED BY <1>1, <1>2, <1>3, <1>4, <1>5, <1>6, <1>7, <1>8, <1>9, <1>10, <1>11, <1>12, <1>13,
           <1>14, <1>15, <1>16, <1>17, <1>18, <1>19, <1>20, <1>21, <1>22, <1>23, <1>24, <1>25,
           <1>26
        DEF Next, RequestStep, RunStep, CaseStep, Recover

\* The goroutines of a run live between LoadCases and Drained.
LEMMA NextGoroutine ==
    ASSUME TypeOK, ActiveInv, GoroutineInv, [Next]_vars
    PROVE  GoroutineInv'
<1> USE TestRunAssumption DEF TypeOK, GoroutineInv, dbVars, procVars
<1>1. ASSUME NEW q \in Requests, EnqueueCheck(q) PROVE GoroutineInv'
  BY <1>1 DEF EnqueueCheck, ReqGoes
<1>2. ASSUME NEW q \in Requests, RetryCheck(q) PROVE GoroutineInv'
  BY <1>2 DEF RetryCheck, ReqGoes
<1>3. ASSUME NEW q \in Requests, RetryReset(q) PROVE GoroutineInv'
  BY <1>3 DEF RetryReset, ReqGoes
<1>4. ASSUME NEW q \in Requests, QueueRun(q) PROVE GoroutineInv'
  BY <1>4 DEF QueueRun, ReqGoes
<1>5. ASSUME NEW r \in Runs, CancelRun(r) PROVE GoroutineInv'
  BY <1>5 DEF CancelRun
<1>6. ASSUME NEW p \in Replicas, NEW c \in Cases, CaseRetryBegins(p, c) PROVE GoroutineInv'
  BY <1>6 DEF CaseRetryBegins
<1>7. ASSUME NEW c \in Cases, CaseRetryEnds(c) PROVE GoroutineInv'
  BY <1>7 DEF CaseRetryEnds
<1>8. ASSUME NEW p \in Replicas, NEW r \in Runs, Claim(p, r) PROVE GoroutineInv'
  <2>1. CASE r \in active[p]
    BY <1>8, <2>1 DEF Claim
  <2>2. CASE r \notin active[p]
    <3>1. proc' = [proc EXCEPT ![p][r] = "load"] /\ w' = w
      BY <1>8, <2>2 DEF Claim
    <3>2. \A c \in Cases : w[p][c] # "none" => RunOf[c] # r
      BY <2>2 DEF ActiveInv
    <3> QED BY <3>1, <3>2
  <2> QED BY <2>1, <2>2
<1>9. ASSUME NEW p \in Replicas, NEW r \in Runs, ClaimReplyLost(p, r) PROVE GoroutineInv'
  BY <1>9 DEF ClaimReplyLost
<1>10. ASSUME NEW p \in Replicas, NEW r \in Runs, LoadFails(p, r) PROVE GoroutineInv'
  BY <1>10 DEF LoadFails, ProcGoes
<1>11. ASSUME NEW p \in Replicas, NEW r \in Runs, LoadCases(p, r) PROVE GoroutineInv'
  <2>1. CASE InState(r, "pending") = {}
    <3>1. proc' = [proc EXCEPT ![p][r] = "exit"] /\ w' = w /\ proc[p][r] = "load"
      BY <1>11, <2>1 DEF LoadCases, ProcGoes
    <3> QED BY <3>1
  <2>2. CASE InState(r, "pending") # {}
    <3>1. /\ proc' = [proc EXCEPT ![p][r] = "exec"] /\ proc[p][r] = "load"
          /\ w' = [w EXCEPT ![p] = [c \in Cases |->
                        IF c \in InState(r, "pending") THEN "wait" ELSE @[c]]]
      BY <1>11, <2>2 DEF LoadCases, ProcGoes
    <3>2. \A c \in InState(r, "pending") : RunOf[c] = r
      BY DEF InState, CasesOf
    <3>3. \A p2 \in Replicas, c \in Cases :
             w'[p2][c] # "none" => w[p2][c] # "none" \/ (p2 = p /\ RunOf[c] = r)
      BY <3>1, <3>2
    <3>4. \A p2 \in Replicas, r2 \in Runs : proc[p2][r2] = "exec" => proc'[p2][r2] = "exec"
      BY <3>1
    <3> QED BY <3>1, <3>3, <3>4
  <2> QED BY <2>1, <2>2
<1>12. ASSUME NEW p \in Replicas, NEW c \in Cases, SkipCancelled(p, c) PROVE GoroutineInv'
  BY <1>12 DEF SkipCancelled, WGoes
<1>13. ASSUME NEW p \in Replicas, NEW c \in Cases, TakeRunSem(p, c) PROVE GoroutineInv'
  BY <1>13 DEF TakeRunSem, WGoes
<1>14. ASSUME NEW p \in Replicas, NEW c \in Cases, TakeGlobalSem(p, c) PROVE GoroutineInv'
  BY <1>14 DEF TakeGlobalSem, WGoes
<1>15. ASSUME NEW p \in Replicas, NEW c \in Cases, StartCase(p, c) PROVE GoroutineInv'
  BY <1>15 DEF StartCase, WGoes
<1>16. ASSUME NEW p \in Replicas, NEW c \in Cases, EndCase(p, c) PROVE GoroutineInv'
  BY <1>16 DEF EndCase, WGoes
<1>17. ASSUME NEW p \in Replicas, NEW c \in Cases, Collect(p, c) PROVE GoroutineInv'
  BY <1>17 DEF Collect, WGoes
<1>18. ASSUME NEW p \in Replicas, NEW r \in Runs, Drained(p, r) PROVE GoroutineInv'
  <2>1. /\ proc' = [proc EXCEPT ![p][r] = "final"] /\ w' = w
        /\ \A c \in Cases : RunOf[c] = r => w[p][c] = "none"
    BY <1>18 DEF Drained, ProcGoes, CasesOf
  <2> QED BY <2>1
<1>19. ASSUME NEW p \in Replicas, NEW r \in Runs, CancelPending(p, r) PROVE GoroutineInv'
  BY <1>19 DEF CancelPending, ProcGoes
<1>20. ASSUME NEW p \in Replicas, NEW r \in Runs, WriteStatus(p, r) PROVE GoroutineInv'
  BY <1>20 DEF WriteStatus, ProcGoes
<1>21. ASSUME NEW p \in Replicas, NEW r \in Runs, Exit(p, r) PROVE GoroutineInv'
  BY <1>21 DEF Exit, ProcGoes
<1>22. ASSUME NEW p \in Replicas, Crash(p) PROVE GoroutineInv'
  BY <1>22 DEF Crash
<1>23. ASSUME NEW p \in Replicas, Start(p) PROVE GoroutineInv'
  BY <1>23 DEF Start
<1>24. ASSUME NEW p \in Replicas, RecoverCases(p) PROVE GoroutineInv'
  BY <1>24 DEF RecoverCases
<1>25. ASSUME NEW p \in Replicas, RecoverRuns(p) PROVE GoroutineInv'
  BY <1>25 DEF RecoverRuns
<1>26. CASE UNCHANGED vars
  BY <1>26 DEF vars
<1> QED BY <1>1, <1>2, <1>3, <1>4, <1>5, <1>6, <1>7, <1>8, <1>9, <1>10, <1>11, <1>12, <1>13,
           <1>14, <1>15, <1>16, <1>17, <1>18, <1>19, <1>20, <1>21, <1>22, <1>23, <1>24, <1>25,
           <1>26
        DEF Next, RequestStep, RunStep, CaseStep, Recover

\* Claims are made by replicas that are up, and a crash ends everything of a
\* replica.
LEMMA NextUp ==
    ASSUME TypeOK, UpInv, [Next]_vars
    PROVE  UpInv'
<1> USE DEF TypeOK, UpInv, dbVars, procVars
<1>1. ASSUME NEW q \in Requests, EnqueueCheck(q) PROVE UpInv'
  BY <1>1 DEF EnqueueCheck, ReqGoes
<1>2. ASSUME NEW q \in Requests, RetryCheck(q) PROVE UpInv'
  BY <1>2 DEF RetryCheck, ReqGoes
<1>3. ASSUME NEW q \in Requests, RetryReset(q) PROVE UpInv'
  BY <1>3 DEF RetryReset, ReqGoes
<1>4. ASSUME NEW q \in Requests, QueueRun(q) PROVE UpInv'
  BY <1>4 DEF QueueRun, ReqGoes
<1>5. ASSUME NEW r \in Runs, CancelRun(r) PROVE UpInv'
  BY <1>5 DEF CancelRun
<1>6. ASSUME NEW p \in Replicas, NEW c \in Cases, CaseRetryBegins(p, c) PROVE UpInv'
  BY <1>6 DEF CaseRetryBegins
<1>7. ASSUME NEW c \in Cases, CaseRetryEnds(c) PROVE UpInv'
  BY <1>7 DEF CaseRetryEnds
<1>8. ASSUME NEW p \in Replicas, NEW r \in Runs, Claim(p, r) PROVE UpInv'
  BY <1>8 DEF Claim
<1>9. ASSUME NEW p \in Replicas, NEW r \in Runs, ClaimReplyLost(p, r) PROVE UpInv'
  BY <1>9 DEF ClaimReplyLost
<1>10. ASSUME NEW p \in Replicas, NEW r \in Runs, LoadFails(p, r) PROVE UpInv'
  BY <1>10 DEF LoadFails, ProcGoes
<1>11. ASSUME NEW p \in Replicas, NEW r \in Runs, LoadCases(p, r) PROVE UpInv'
  BY <1>11 DEF LoadCases, ProcGoes
<1>12. ASSUME NEW p \in Replicas, NEW c \in Cases, SkipCancelled(p, c) PROVE UpInv'
  BY <1>12 DEF SkipCancelled, WGoes
<1>13. ASSUME NEW p \in Replicas, NEW c \in Cases, TakeRunSem(p, c) PROVE UpInv'
  BY <1>13 DEF TakeRunSem, WGoes
<1>14. ASSUME NEW p \in Replicas, NEW c \in Cases, TakeGlobalSem(p, c) PROVE UpInv'
  BY <1>14 DEF TakeGlobalSem, WGoes
<1>15. ASSUME NEW p \in Replicas, NEW c \in Cases, StartCase(p, c) PROVE UpInv'
  BY <1>15 DEF StartCase, WGoes
<1>16. ASSUME NEW p \in Replicas, NEW c \in Cases, EndCase(p, c) PROVE UpInv'
  BY <1>16 DEF EndCase, WGoes
<1>17. ASSUME NEW p \in Replicas, NEW c \in Cases, Collect(p, c) PROVE UpInv'
  BY <1>17 DEF Collect, WGoes
<1>18. ASSUME NEW p \in Replicas, NEW r \in Runs, Drained(p, r) PROVE UpInv'
  BY <1>18 DEF Drained, ProcGoes
<1>19. ASSUME NEW p \in Replicas, NEW r \in Runs, CancelPending(p, r) PROVE UpInv'
  BY <1>19 DEF CancelPending, ProcGoes
<1>20. ASSUME NEW p \in Replicas, NEW r \in Runs, WriteStatus(p, r) PROVE UpInv'
  BY <1>20 DEF WriteStatus, ProcGoes
<1>21. ASSUME NEW p \in Replicas, NEW r \in Runs, Exit(p, r) PROVE UpInv'
  BY <1>21 DEF Exit, ProcGoes
<1>22. ASSUME NEW p \in Replicas, Crash(p) PROVE UpInv'
  BY <1>22 DEF Crash
<1>23. ASSUME NEW p \in Replicas, Start(p) PROVE UpInv'
  BY <1>23 DEF Start
<1>24. ASSUME NEW p \in Replicas, RecoverCases(p) PROVE UpInv'
  BY <1>24 DEF RecoverCases
<1>25. ASSUME NEW p \in Replicas, RecoverRuns(p) PROVE UpInv'
  BY <1>25 DEF RecoverRuns
<1>26. CASE UNCHANGED vars
  BY <1>26 DEF vars
<1> QED BY <1>1, <1>2, <1>3, <1>4, <1>5, <1>6, <1>7, <1>8, <1>9, <1>10, <1>11, <1>12, <1>13,
           <1>14, <1>15, <1>16, <1>17, <1>18, <1>19, <1>20, <1>21, <1>22, <1>23, <1>24, <1>25,
           <1>26
        DEF Next, RequestStep, RunStep, CaseStep, Recover

\* While a request is on its way nothing makes its run queued or running.
LEMMA NextIdle ==
    ASSUME TypeOK, IdleInv, Orderly, [Next]_vars
    PROVE  IdleInv'
<1> USE DEF TypeOK, IdleInv, InFlight, RunIsIdle, dbVars, procVars
<1>1. ASSUME NEW q \in Requests, EnqueueCheck(q) PROVE IdleInv'
  BY <1>1 DEF EnqueueCheck, ReqGoes
<1>2. ASSUME NEW q \in Requests, RetryCheck(q) PROVE IdleInv'
  BY <1>2 DEF RetryCheck, ReqGoes
<1>3. ASSUME NEW q \in Requests, RetryReset(q) PROVE IdleInv'
  BY <1>3 DEF RetryReset, ReqGoes
<1>4. ASSUME NEW q \in Requests, QueueRun(q) PROVE IdleInv'
  BY <1>4 DEF QueueRun, ReqGoes, Orderly
<1>5. ASSUME NEW r \in Runs, CancelRun(r) PROVE IdleInv'
  BY <1>5 DEF CancelRun
<1>6. ASSUME NEW p \in Replicas, NEW c \in Cases, CaseRetryBegins(p, c) PROVE IdleInv'
  BY <1>6 DEF CaseRetryBegins
<1>7. ASSUME NEW c \in Cases, CaseRetryEnds(c) PROVE IdleInv'
  BY <1>7 DEF CaseRetryEnds
<1>8. ASSUME NEW p \in Replicas, NEW r \in Runs, Claim(p, r) PROVE IdleInv'
  BY <1>8 DEF Claim
<1>9. ASSUME NEW p \in Replicas, NEW r \in Runs, ClaimReplyLost(p, r) PROVE IdleInv'
  BY <1>9 DEF ClaimReplyLost
<1>10. ASSUME NEW p \in Replicas, NEW r \in Runs, LoadFails(p, r) PROVE IdleInv'
  BY <1>10 DEF LoadFails, ProcGoes
<1>11. ASSUME NEW p \in Replicas, NEW r \in Runs, LoadCases(p, r) PROVE IdleInv'
  BY <1>11 DEF LoadCases, ProcGoes
<1>12. ASSUME NEW p \in Replicas, NEW c \in Cases, SkipCancelled(p, c) PROVE IdleInv'
  BY <1>12 DEF SkipCancelled, WGoes
<1>13. ASSUME NEW p \in Replicas, NEW c \in Cases, TakeRunSem(p, c) PROVE IdleInv'
  BY <1>13 DEF TakeRunSem, WGoes
<1>14. ASSUME NEW p \in Replicas, NEW c \in Cases, TakeGlobalSem(p, c) PROVE IdleInv'
  BY <1>14 DEF TakeGlobalSem, WGoes
<1>15. ASSUME NEW p \in Replicas, NEW c \in Cases, StartCase(p, c) PROVE IdleInv'
  BY <1>15 DEF StartCase, WGoes
<1>16. ASSUME NEW p \in Replicas, NEW c \in Cases, EndCase(p, c) PROVE IdleInv'
  BY <1>16 DEF EndCase, WGoes
<1>17. ASSUME NEW p \in Replicas, NEW c \in Cases, Collect(p, c) PROVE IdleInv'
  BY <1>17 DEF Collect, WGoes
<1>18. ASSUME NEW p \in Replicas, NEW r \in Runs, Drained(p, r) PROVE IdleInv'
  BY <1>18 DEF Drained, ProcGoes
<1>19. ASSUME NEW p \in Replicas, NEW r \in Runs, CancelPending(p, r) PROVE IdleInv'
  BY <1>19 DEF CancelPending, ProcGoes
<1>20. ASSUME NEW p \in Replicas, NEW r \in Runs, WriteStatus(p, r) PROVE IdleInv'
  BY <1>20 DEF WriteStatus, ProcGoes
<1>21. ASSUME NEW p \in Replicas, NEW r \in Runs, Exit(p, r) PROVE IdleInv'
  BY <1>21 DEF Exit, ProcGoes
<1>22. ASSUME NEW p \in Replicas, Crash(p) PROVE IdleInv'
  BY <1>22 DEF Crash
<1>23. ASSUME NEW p \in Replicas, Start(p) PROVE IdleInv'
  BY <1>23 DEF Start
<1>24. ASSUME NEW p \in Replicas, RecoverCases(p) PROVE IdleInv'
  BY <1>24 DEF RecoverCases
<1>25. ASSUME NEW p \in Replicas, RecoverRuns(p) PROVE IdleInv'
  BY <1>25 DEF RecoverRuns
<1>26. CASE UNCHANGED vars
  BY <1>26 DEF vars
<1> QED BY <1>1, <1>2, <1>3, <1>4, <1>5, <1>6, <1>7, <1>8, <1>9, <1>10, <1>11, <1>12, <1>13,
           <1>14, <1>15, <1>16, <1>17, <1>18, <1>19, <1>20, <1>21, <1>22, <1>23, <1>24, <1>25,
           <1>26
        DEF Next, RequestStep, RunStep, CaseStep, Recover

\* Without a restart a run is claimed once for every time it is queued, and it
\* is queued when nobody works on it.
LEMMA NextOne ==
    ASSUME TypeOK, ActiveInv, OneInv, Orderly, [Next]_vars
    PROVE  OneInv'
<1> USE DEF TypeOK, OneInv, dbVars, procVars
<1>1. ASSUME NEW q \in Requests, EnqueueCheck(q) PROVE OneInv'
  BY <1>1 DEF EnqueueCheck, ReqGoes
<1>2. ASSUME NEW q \in Requests, RetryCheck(q) PROVE OneInv'
  BY <1>2 DEF RetryCheck, ReqGoes
<1>3. ASSUME NEW q \in Requests, RetryReset(q) PROVE OneInv'
  BY <1>3 DEF RetryReset, ReqGoes
<1>4. ASSUME NEW q \in Requests, QueueRun(q) PROVE OneInv'
  BY <1>4 DEF QueueRun, Orderly, InFlight, Processors
<1>5. ASSUME NEW r \in Runs, CancelRun(r) PROVE OneInv'
  BY <1>5 DEF CancelRun
<1>6. ASSUME NEW p \in Replicas, NEW c \in Cases, CaseRetryBegins(p, c) PROVE OneInv'
  BY <1>6 DEF CaseRetryBegins
<1>7. ASSUME NEW c \in Cases, CaseRetryEnds(c) PROVE OneInv'
  BY <1>7 DEF CaseRetryEnds
<1>8. ASSUME NEW p \in Replicas, NEW r \in Runs, Claim(p, r) PROVE OneInv'
  <2>1. CASE r \in active[p]
    BY <1>8, <2>1 DEF Claim, ActiveInv
  <2>2. CASE r \notin active[p]
    <3>1. /\ proc' = [proc EXCEPT ![p][r] = "load"] /\ runStatus' = [runStatus EXCEPT ![r] = "running"]
          /\ UNCHANGED <<up, restarts>> /\ runStatus[r] = "queued"
      BY <1>8, <2>2 DEF Claim
    <3> QED BY <3>1
  <2> QED BY <2>1, <2>2
<1>9. ASSUME NEW p \in Replicas, NEW r \in Runs, ClaimReplyLost(p, r) PROVE OneInv'
  BY <1>9 DEF ClaimReplyLost
<1>10. ASSUME NEW p \in Replicas, NEW r \in Runs, LoadFails(p, r) PROVE OneInv'
  BY <1>10 DEF LoadFails, ProcGoes
<1>11. ASSUME NEW p \in Replicas, NEW r \in Runs, LoadCases(p, r) PROVE OneInv'
  <2>1. \A p2 \in Replicas, r2 \in Runs : proc'[p2][r2] # "off" => proc[p2][r2] # "off"
    <3>1. proc[p][r] = "load" /\ \E to \in {"exec", "exit"} : proc' = [proc EXCEPT ![p][r] = to]
      BY <1>11 DEF LoadCases, ProcGoes
    <3> QED BY <3>1
  <2>2. \A r2 \in Runs : runStatus'[r2] = "queued" => runStatus[r2] = "queued"
    BY <1>11 DEF LoadCases
  <2>3. UNCHANGED <<up, restarts>> /\ proc' \in [Replicas -> [Runs -> {"off", "load", "exec", "final", "status", "exit"}]]
    BY <1>11, NextTypeOK DEF LoadCases
  <2> QED BY <2>1, <2>2, <2>3
<1>12. ASSUME NEW p \in Replicas, NEW c \in Cases, SkipCancelled(p, c) PROVE OneInv'
  BY <1>12 DEF SkipCancelled, WGoes
<1>13. ASSUME NEW p \in Replicas, NEW c \in Cases, TakeRunSem(p, c) PROVE OneInv'
  BY <1>13 DEF TakeRunSem, WGoes
<1>14. ASSUME NEW p \in Replicas, NEW c \in Cases, TakeGlobalSem(p, c) PROVE OneInv'
  BY <1>14 DEF TakeGlobalSem, WGoes
<1>15. ASSUME NEW p \in Replicas, NEW c \in Cases, StartCase(p, c) PROVE OneInv'
  BY <1>15 DEF StartCase, WGoes
<1>16. ASSUME NEW p \in Replicas, NEW c \in Cases, EndCase(p, c) PROVE OneInv'
  BY <1>16 DEF EndCase, WGoes
<1>17. ASSUME NEW p \in Replicas, NEW c \in Cases, Collect(p, c) PROVE OneInv'
  BY <1>17 DEF Collect, WGoes
<1>18. ASSUME NEW p \in Replicas, NEW r \in Runs, Drained(p, r) PROVE OneInv'
  BY <1>18 DEF Drained, ProcGoes
<1>19. ASSUME NEW p \in Replicas, NEW r \in Runs, CancelPending(p, r) PROVE OneInv'
  BY <1>19 DEF CancelPending, ProcGoes
<1>20. ASSUME NEW p \in Replicas, NEW r \in Runs, WriteStatus(p, r) PROVE OneInv'
  BY <1>20 DEF WriteStatus, ProcGoes
<1>21. ASSUME NEW p \in Replicas, NEW r \in Runs, Exit(p, r) PROVE OneInv'
  BY <1>21 DEF Exit, ProcGoes
<1>22. ASSUME NEW p \in Replicas, Crash(p) PROVE OneInv'
  BY <1>22 DEF Crash
<1>23. ASSUME NEW p \in Replicas, Start(p) PROVE OneInv'
  BY <1>23 DEF Start
<1>24. ASSUME NEW p \in Replicas, RecoverCases(p) PROVE OneInv'
  BY <1>24 DEF RecoverCases
<1>25. ASSUME NEW p \in Replicas, RecoverRuns(p) PROVE OneInv'
  BY <1>25 DEF RecoverRuns
<1>26. CASE UNCHANGED vars
  BY <1>26 DEF vars
<1> QED BY <1>1, <1>2, <1>3, <1>4, <1>5, <1>6, <1>7, <1>8, <1>9, <1>10, <1>11, <1>12, <1>13,
           <1>14, <1>15, <1>16, <1>17, <1>18, <1>19, <1>20, <1>21, <1>22, <1>23, <1>24, <1>25,
           <1>26
        DEF Next, RequestStep, RunStep, CaseStep, Recover

-----------------------------------------------------------------------------
(* The semaphores *)

RetryInv == world.retries = {} => \A c \in Cases : retry[c] = NoReplica
SlotInv == \A p \in Replicas : Cardinality(GlobalHeld(p)) <= GlobalSlots

\* Only the retry handler executes cases outside the worker.
LEMMA NextRetry ==
    ASSUME TypeOK, RetryInv, [Next]_vars
    PROVE  RetryInv'
<1> USE DEF TypeOK, RetryInv, dbVars, procVars
<1>1. ASSUME NEW q \in Requests, EnqueueCheck(q) PROVE RetryInv'
  BY <1>1 DEF EnqueueCheck, ReqGoes
<1>2. ASSUME NEW q \in Requests, RetryCheck(q) PROVE RetryInv'
  BY <1>2 DEF RetryCheck, ReqGoes
<1>3. ASSUME NEW q \in Requests, RetryReset(q) PROVE RetryInv'
  BY <1>3 DEF RetryReset, ReqGoes
<1>4. ASSUME NEW q \in Requests, QueueRun(q) PROVE RetryInv'
  BY <1>4 DEF QueueRun, ReqGoes
<1>5. ASSUME NEW r \in Runs, CancelRun(r) PROVE RetryInv'
  BY <1>5 DEF CancelRun
<1>6. ASSUME NEW p \in Replicas, NEW c \in Cases, CaseRetryBegins(p, c) PROVE RetryInv'
  BY <1>6 DEF CaseRetryBegins
<1>7. ASSUME NEW c \in Cases, CaseRetryEnds(c) PROVE RetryInv'
  BY <1>7 DEF CaseRetryEnds
<1>8. ASSUME NEW p \in Replicas, NEW r \in Runs, Claim(p, r) PROVE RetryInv'
  BY <1>8 DEF Claim
<1>9. ASSUME NEW p \in Replicas, NEW r \in Runs, ClaimReplyLost(p, r) PROVE RetryInv'
  BY <1>9 DEF ClaimReplyLost
<1>10. ASSUME NEW p \in Replicas, NEW r \in Runs, LoadFails(p, r) PROVE RetryInv'
  BY <1>10 DEF LoadFails, ProcGoes
<1>11. ASSUME NEW p \in Replicas, NEW r \in Runs, LoadCases(p, r) PROVE RetryInv'
  BY <1>11 DEF LoadCases, ProcGoes
<1>12. ASSUME NEW p \in Replicas, NEW c \in Cases, SkipCancelled(p, c) PROVE RetryInv'
  BY <1>12 DEF SkipCancelled, WGoes
<1>13. ASSUME NEW p \in Replicas, NEW c \in Cases, TakeRunSem(p, c) PROVE RetryInv'
  BY <1>13 DEF TakeRunSem, WGoes
<1>14. ASSUME NEW p \in Replicas, NEW c \in Cases, TakeGlobalSem(p, c) PROVE RetryInv'
  BY <1>14 DEF TakeGlobalSem, WGoes
<1>15. ASSUME NEW p \in Replicas, NEW c \in Cases, StartCase(p, c) PROVE RetryInv'
  BY <1>15 DEF StartCase, WGoes
<1>16. ASSUME NEW p \in Replicas, NEW c \in Cases, EndCase(p, c) PROVE RetryInv'
  BY <1>16 DEF EndCase, WGoes
<1>17. ASSUME NEW p \in Replicas, NEW c \in Cases, Collect(p, c) PROVE RetryInv'
  BY <1>17 DEF Collect, WGoes
<1>18. ASSUME NEW p \in Replicas, NEW r \in Runs, Drained(p, r) PROVE RetryInv'
  BY <1>18 DEF Drained, ProcGoes
<1>19. ASSUME NEW p \in Replicas, NEW r \in Runs, CancelPending(p, r) PROVE RetryInv'
  BY <1>19 DEF CancelPending, ProcGoes
<1>20. ASSUME NEW p \in Replicas, NEW r \in Runs, WriteStatus(p, r) PROVE RetryInv'
  BY <1>20 DEF WriteStatus, ProcGoes
<1>21. ASSUME NEW p \in Replicas, NEW r \in Runs, Exit(p, r) PROVE RetryInv'
  BY <1>21 DEF Exit, ProcGoes
<1>22. ASSUME NEW p \in Replicas, Crash(p) PROVE RetryInv'
  BY <1>22 DEF Crash
<1>23. ASSUME NEW p \in Replicas, Start(p) PROVE RetryInv'
  BY <1>23 DEF Start
<1>24. ASSUME NEW p \in Replicas, RecoverCases(p) PROVE RetryInv'
  BY <1>24 DEF RecoverCases
<1>25. ASSUME NEW p \in Replicas, RecoverRuns(p) PROVE RetryInv'
  BY <1>25 DEF RecoverRuns
<1>26. CASE UNCHANGED vars
  BY <1>26 DEF vars
<1> QED BY <1>1, <1>2, <1>3, <1>4, <1>5, <1>6, <1>7, <1>8, <1>9, <1>10, <1>11, <1>12, <1>13,
           <1>14, <1>15, <1>16, <1>17, <1>18, <1>19, <1>20, <1>21, <1>22, <1>23, <1>24, <1>25,
           <1>26
        DEF Next, RequestStep, RunStep, CaseStep, Recover

\* The holders of globalLLMSem are cases, and finitely many.
LEMMA HeldFinite ==
    ASSUME NEW p \in Replicas
    PROVE  IsFiniteSet(GlobalHeld(p)) /\ Cardinality(GlobalHeld(p)) \in Nat
<1>1. GlobalHeld(p) \in SUBSET Cases /\ IsFiniteSet(Cases)
  BY TestRunAssumption DEF GlobalHeld
<1> QED BY ONLY <1>1, FS_Subset, FS_CardinalityType

\* Slots are handed out below the capacity only.
LEMMA NextSlots ==
    ASSUME TypeOK, SlotInv, [Next]_vars
    PROVE  SlotInv'
<1> DEFINE Quiet == \A p2 \in Replicas : GlobalHeld(p2)' \subseteq GlobalHeld(p2)
<1>quiet. ASSUME Quiet PROVE SlotInv'
  <2> SUFFICES ASSUME NEW p2 \in Replicas PROVE Cardinality(GlobalHeld(p2)') <= GlobalSlots
    BY DEF SlotInv
  <2>1. GlobalHeld(p2)' \in SUBSET GlobalHeld(p2) /\ IsFiniteSet(GlobalHeld(p2))
    BY <1>quiet, HeldFinite
  <2>2. Cardinality(GlobalHeld(p2)') <= Cardinality(GlobalHeld(p2)) /\ IsFiniteSet(GlobalHeld(p2)')
    BY ONLY <2>1, FS_Subset
  <2>3. Cardinality(GlobalHeld(p2)') \in Nat
    BY ONLY <2>2, FS_CardinalityType
  <2>4. Cardinality(GlobalHeld(p2)) <= GlobalSlots /\ Cardinality(GlobalHeld(p2)) \in Nat
    BY HeldFinite DEF SlotInv
  <2> QED BY ONLY <2>2, <2>3, <2>4, TestRunAssumption
<1> USE DEF TypeOK, GlobalHeld, dbVars, procVars, Ended
<1>1. ASSUME NEW q \in Requests, EnqueueCheck(q) PROVE SlotInv'
  BY <1>1, <1>quiet DEF EnqueueCheck, ReqGoes
<1>2. ASSUME NEW q \in Requests, RetryCheck(q) PROVE SlotInv'
  BY <1>2, <1>quiet DEF RetryCheck, ReqGoes
<1>3. ASSUME NEW q \in Requests, RetryReset(q) PROVE SlotInv'
  BY <1>3, <1>quiet DEF RetryReset, ReqGoes
<1>4. ASSUME NEW q \in Requests, QueueRun(q) PROVE SlotInv'
  BY <1>4, <1>quiet DEF QueueRun, ReqGoes
<1>5. ASSUME NEW r \in Runs, CancelRun(r) PROVE SlotInv'
  BY <1>5, <1>quiet DEF CancelRun
<1>6. ASSUME NEW p \in Replicas, NEW c \in Cases, CaseRetryBegins(p, c) PROVE SlotInv'
  BY <1>6, <1>quiet DEF CaseRetryBegins
<1>7. ASSUME NEW c \in Cases, CaseRetryEnds(c) PROVE SlotInv'
  BY <1>7, <1>quiet DEF CaseRetryEnds
<1>8. ASSUME NEW p \in Replicas, NEW r \in Runs, Claim(p, r) PROVE SlotInv'
  BY <1>8, <1>quiet DEF Claim
<1>9. ASSUME NEW p \in Replicas, NEW r \in Runs, ClaimReplyLost(p, r) PROVE SlotInv'
  BY <1>9, <1>quiet DEF ClaimReplyLost
<1>10. ASSUME NEW p \in Replicas, NEW r \in Runs, LoadFails(p, r) PROVE SlotInv'
  BY <1>10, <1>quiet DEF LoadFails, ProcGoes
<1>11. ASSUME NEW p \in Replicas, NEW r \in Runs, LoadCases(p, r) PROVE SlotInv'
  <2>1. w' = w \/ w' = [w EXCEPT ![p] = [c \in Cases |-> IF c \in InState(r, "pending") THEN "wait" ELSE @[c]]]
    BY <1>11 DEF LoadCases
  <2>0. w \in [Replicas -> [Cases -> {"none", "wait", "gate", "slot", "run"} \cup Ended]]
    OBVIOUS
  <2>2. \A p2 \in Replicas, c \in Cases : w'[p2][c] = w[p2][c] \/ w'[p2][c] = "wait"
    BY ONLY <2>0, <2>1, p \in Replicas
  <2>3. Quiet
    BY <2>2
  <2> QED BY <2>3, <1>quiet
<1>12. ASSUME NEW p \in Replicas, NEW c \in Cases, SkipCancelled(p, c) PROVE SlotInv'
  BY <1>12, <1>quiet DEF SkipCancelled, WGoes
<1>13. ASSUME NEW p \in Replicas, NEW c \in Cases, TakeRunSem(p, c) PROVE SlotInv'
  BY <1>13, <1>quiet DEF TakeRunSem, WGoes
<1>14. ASSUME NEW p \in Replicas, NEW c \in Cases, TakeGlobalSem(p, c) PROVE SlotInv'
  <2>1. GlobalHeld(p)' = GlobalHeld(p) \cup {c} /\ c \notin GlobalHeld(p)
    BY <1>14 DEF TakeGlobalSem, WGoes
  <2>2. \A p2 \in Replicas \ {p} : GlobalHeld(p2)' = GlobalHeld(p2)
    BY <1>14 DEF TakeGlobalSem, WGoes
  <2>3. Cardinality(GlobalHeld(p)') = Cardinality(GlobalHeld(p)) + 1
    BY <2>1, HeldFinite, FS_AddElement
  <2>4. Cardinality(GlobalHeld(p)) < GlobalSlots /\ Cardinality(GlobalHeld(p)) \in Nat
    BY <1>14, HeldFinite DEF TakeGlobalSem
  <2>5. Cardinality(GlobalHeld(p)') <= GlobalSlots
    BY ONLY <2>3, <2>4, TestRunAssumption
  <2> QED BY <2>2, <2>5 DEF SlotInv
<1>15. ASSUME NEW p \in Replicas, NEW c \in Cases, StartCase(p, c) PROVE SlotInv'
  BY <1>15, <1>quiet DEF StartCase, WGoes
<1>16. ASSUME NEW p \in Replicas, NEW c \in Cases, EndCase(p, c) PROVE SlotInv'
  BY <1>16, <1>quiet DEF EndCase, WGoes
<1>17. ASSUME NEW p \in Replicas, NEW c \in Cases, Collect(p, c) PROVE SlotInv'
  BY <1>17, <1>quiet DEF Collect, WGoes
<1>18. ASSUME NEW p \in Replicas, NEW r \in Runs, Drained(p, r) PROVE SlotInv'
  BY <1>18, <1>quiet DEF Drained, ProcGoes
<1>19. ASSUME NEW p \in Replicas, NEW r \in Runs, CancelPending(p, r) PROVE SlotInv'
  BY <1>19, <1>quiet DEF CancelPending, ProcGoes
<1>20. ASSUME NEW p \in Replicas, NEW r \in Runs, WriteStatus(p, r) PROVE SlotInv'
  BY <1>20, <1>quiet DEF WriteStatus, ProcGoes
<1>21. ASSUME NEW p \in Replicas, NEW r \in Runs, Exit(p, r) PROVE SlotInv'
  BY <1>21, <1>quiet DEF Exit, ProcGoes
<1>22. ASSUME NEW p \in Replicas, Crash(p) PROVE SlotInv'
  BY <1>22, <1>quiet DEF Crash
<1>23. ASSUME NEW p \in Replicas, Start(p) PROVE SlotInv'
  BY <1>23, <1>quiet DEF Start
<1>24. ASSUME NEW p \in Replicas, RecoverCases(p) PROVE SlotInv'
  BY <1>24, <1>quiet DEF RecoverCases
<1>25. ASSUME NEW p \in Replicas, RecoverRuns(p) PROVE SlotInv'
  BY <1>25, <1>quiet DEF RecoverRuns
<1>26. CASE UNCHANGED vars
  BY <1>26, <1>quiet DEF vars
<1> QED BY <1>1, <1>2, <1>3, <1>4, <1>5, <1>6, <1>7, <1>8, <1>9, <1>10, <1>11, <1>12, <1>13,
           <1>14, <1>15, <1>16, <1>17, <1>18, <1>19, <1>20, <1>21, <1>22, <1>23, <1>24, <1>25,
           <1>26
        DEF Next, RequestStep, RunStep, CaseStep, Recover

-----------------------------------------------------------------------------
(* One replica, no faults *)

\* The counters depend on which cases are completed and which failed.
LEMMA SameCounts ==
    ASSUME NEW r, NEW s1, NEW s2,
           \A c \in CasesOf(r) : /\ s1[c] = "completed" <=> s2[c] = "completed"
                                 /\ s1[c] = "error" <=> s2[c] = "error"
    PROVE  CountCases(r, s1) = CountCases(r, s2)
<1>1. {c \in CasesOf(r) : s1[c] = "completed"} = {c \in CasesOf(r) : s2[c] = "completed"}
  OBVIOUS
<1>2. {c \in CasesOf(r) : s1[c] = "error"} = {c \in CasesOf(r) : s2[c] = "error"}
  OBVIOUS
<1> QED BY <1>1, <1>2 DEF CountCases

\* All processors are those of the one replica that runs.
LEMMA SoloReplica ==
    ASSUME TypeOK, UpInv, Calm
    PROVE  /\ \A p, p2 \in world.replicas : p = p2
           /\ \A p, p2 \in Replicas, r \in Runs :
                 proc[p][r] # "off" /\ up[p2] # "absent" => p2 = p
           /\ \A p \in Replicas, r \in Runs : proc[p][r] # "off" => p \in world.replicas /\ up[p] = "up"
<1>1. world.replicas \in SUBSET Replicas /\ IsFiniteSet(Replicas)
  BY TestRunAssumption DEF TypeOK
<1>2. IsFiniteSet(world.replicas)
  BY ONLY <1>1, FS_Subset
<1>3. \E p : world.replicas = {p}
  BY <1>2, FS_Singleton DEF Calm
<1> QED BY <1>3 DEF UpInv

\* A step that leaves a run, its cases, processors and goroutines alone.
LEMMA CalmFrame ==
    ASSUME TypeOK, NEW k \in Runs, CalmOf(k), world' = world, \A p \in Replicas : up'[p] = up[p],
           runStatus'[k] = runStatus[k], stats'[k] = stats[k],
           \A c \in CasesOf(k) : caseStatus'[c] = caseStatus[c],
           \A p \in Replicas : /\ proc'[p][k] = proc[p][k] /\ cancelled'[p][k] = cancelled[p][k]
                               /\ \A c \in CasesOf(k) : w'[p][c] = w[p][c],
           \A q \in Requests : req[q].at = "queue" /\ req[q].run = k => req'[q].at = "queue" /\ req'[q].run = k
    PROVE  CalmOf(k)'
<1>1. CountCases(k, caseStatus') = CountCases(k, caseStatus)
  BY SameCounts
<1>2. CasesOf(k)' = CasesOf(k)
  BY DEF CasesOf
<1>3. Stale(k)' <=> Stale(k)
  BY <1>1 DEF Stale
<1> QED BY <1>2, <1>3 DEF CalmOf, LeftOf, StaleOf, PhaseOf, Ended

\* Every step keeps the phases, the statuses and the counters of run k together.
LEMMA NextCalm ==
    ASSUME TypeOK, ActiveInv, GoroutineInv, UpInv, RetryInv, Orderly, Calm,
           \A r \in Runs : CalmOf(r), [Next]_vars, NEW k \in Runs
    PROVE  CalmOf(k)'
<1>calm. world.retries = {} /\ ~world.faults
  BY DEF Calm
<1>in. /\ \A c : c \in CasesOf(k) <=> c \in Cases /\ RunOf[c] = k
       /\ CasesOf(k)' = CasesOf(k)
  BY DEF CasesOf
<1>pre. CalmOf(k)
  OBVIOUS
<1>solo. /\ \A p, p2 \in world.replicas : p = p2
         /\ \A p, p2 \in Replicas, r \in Runs : proc[p][r] # "off" /\ up[p2] # "absent" => p2 = p
         /\ \A p \in Replicas, r \in Runs : proc[p][r] # "off" => p \in world.replicas /\ up[p] = "up"
  BY SoloReplica
<1> USE TestRunAssumption DEF TypeOK, dbVars, procVars
<1>1. ASSUME NEW q \in Requests, EnqueueCheck(q) PROVE CalmOf(k)'
  BY <1>1, <1>in, <1>pre, CalmFrame DEF EnqueueCheck, ReqGoes
<1>2. ASSUME NEW q \in Requests, RetryCheck(q) PROVE CalmOf(k)'
  BY <1>2, <1>in, <1>pre, CalmFrame DEF RetryCheck, ReqGoes
<1>3. ASSUME NEW q \in Requests, RetryReset(q) PROVE CalmOf(k)'
  <2> DEFINE r == req[q].run
  <2>0. PICK S \in SUBSET {c \in CasesOf(r) : caseStatus[c] \in Ended} :
          /\ caseStatus' = [c \in Cases |-> IF c \in S THEN "pending" ELSE caseStatus[c]]
          /\ req' = [req EXCEPT ![q].at = IF S = {} THEN "done" ELSE "queue"]
    BY <1>3 DEF RetryReset, ReqGoes
  <2>1. CASE r # k \/ S = {}
    <3>1. \A c \in CasesOf(k) : caseStatus'[c] = caseStatus[c]
      BY <2>0, <2>1, <1>in DEF CasesOf
    <3>2. \A q2 \in Requests : req[q2].at = "queue" => req'[q2].at = "queue" /\ req'[q2].run = req[q2].run
      BY <1>3, <2>0 DEF RetryReset
    <3> QED BY <1>3, <3>1, <3>2, <1>pre, CalmFrame DEF RetryReset
  <2>2. CASE r = k /\ S # {}
    <3>1. \A p \in Replicas : proc[p][k] = "off" /\ proc' = proc /\ up' = up /\ world' = world
      BY <1>3, <2>2 DEF RetryReset, Orderly, InFlight, Processors
    <3>2. req'[q].at = "queue" /\ req'[q].run = k
      BY <2>0, <2>2
    <3>3. PICK c \in CasesOf(k) : caseStatus'[c] = "pending"
      BY <2>0, <2>2, <1>in
    <3>4. \A c2 \in CasesOf(k) : caseStatus'[c2] = "running" => caseStatus[c2] = "running"
      BY <2>0, <1>in
    <3>5. \A p \in Replicas : p \in world.replicas /\ up[p] \notin {"down", "recoverCases"}
             => \A c2 \in CasesOf(k) : caseStatus'[c2] # "running"
      BY <3>1, <3>4, <1>pre DEF CalmOf, LeftOf, StaleOf, PhaseOf
    <3>6. LeftOf(k)' /\ StaleOf(k)'
      BY <3>2, <3>3, <1>in DEF LeftOf, StaleOf, Ended
    <3>7. ASSUME NEW p \in Replicas PROVE PhaseOf(p, k)'
      BY <3>1, <3>5, <1>in DEF PhaseOf
    <3> QED BY <3>6, <3>7 DEF CalmOf
  <2> QED BY <2>1, <2>2
<1>4. ASSUME NEW q \in Requests, QueueRun(q) PROVE CalmOf(k)'
  <2>1. CASE req[q].run # k
    BY <1>4, <2>1, <1>in, <1>pre, CalmFrame DEF QueueRun, ReqGoes
  <2>2. CASE req[q].run = k
    <3>1. \A p \in Replicas : proc[p][k] = "off"
      BY <1>4, <2>2 DEF QueueRun, Orderly, InFlight, Processors
    <3>2. runStatus'[k] = "queued" /\ UNCHANGED <<caseStatus, stats, up, proc, world>>
      BY <1>4, <2>2 DEF QueueRun
    <3>3. Stale(k)' <=> Stale(k)
      BY <3>2 DEF Stale, CountCases, CasesOf
    <3> QED BY <3>1, <3>2, <3>3, <1>in, <1>pre DEF CalmOf, LeftOf, StaleOf, PhaseOf, Ended
  <2> QED BY <2>1, <2>2
<1>5. ASSUME NEW r \in Runs, CancelRun(r) PROVE CalmOf(k)'
  BY <1>5, <1>in, <1>pre, CalmFrame DEF CancelRun
<1>6. ASSUME NEW p \in Replicas, NEW c \in Cases, CaseRetryBegins(p, c) PROVE CalmOf(k)'
  BY <1>6, <1>calm DEF CaseRetryBegins
<1>7. ASSUME NEW c \in Cases, CaseRetryEnds(c) PROVE CalmOf(k)'
  BY <1>7, <1>calm DEF CaseRetryEnds, RetryInv
<1>8. ASSUME NEW p \in Replicas, NEW r \in Runs, Claim(p, r) PROVE CalmOf(k)'
  <2>1. CASE r # k
    <3>1. \A p2 \in Replicas : proc'[p2][k] = proc[p2][k] /\ cancelled'[p2][k] = cancelled[p2][k]
      <4>1. CASE r \in active[p]
        BY <1>8, <4>1 DEF Claim
      <4>2. CASE r \notin active[p]
        <5>1. proc' = [proc EXCEPT ![p][r] = "load"] /\ cancelled' = [cancelled EXCEPT ![p][r] = FALSE]
          BY <1>8, <4>2 DEF Claim
        <5>2. proc'[p] = [proc[p] EXCEPT ![r] = "load"] /\ cancelled'[p] = [cancelled[p] EXCEPT ![r] = FALSE]
          BY <5>1
        <5>3. \A p2 \in Replicas : p2 # p => proc'[p2] = proc[p2] /\ cancelled'[p2] = cancelled[p2]
          BY <5>1
        <5>4. /\ proc[p] \in [Runs -> {"off", "load", "exec", "final", "status", "exit"}]
              /\ cancelled[p] \in [Runs -> BOOLEAN]
          OBVIOUS
        <5> QED BY ONLY <2>1, <5>2, <5>3, <5>4, p \in Replicas, k \in Runs
      <4> QED BY <4>1, <4>2
    <3>2. runStatus'[k] = runStatus[k] /\ UNCHANGED <<caseStatus, stats, req, up, w, world>>
      BY <1>8, <2>1 DEF Claim
    <3> QED BY <3>1, <3>2, <1>pre, CalmFrame
  <2>2. CASE r = k
    <3>1. \A p2 \in Replicas : proc[p2][k] = "off"
      BY <1>8, <2>2, <1>pre DEF Claim, CalmOf, PhaseOf
    <3>2. /\ proc' = [proc EXCEPT ![p][k] = "load"] /\ cancelled' = [cancelled EXCEPT ![p][k] = FALSE]
          /\ runStatus'[k] = "running" /\ UNCHANGED <<caseStatus, stats, up, world>>
      BY <1>8, <2>2, <3>1 DEF Claim, ActiveInv
    <3>3. Stale(k)' <=> Stale(k)
      BY <3>2 DEF Stale, CountCases, CasesOf
    <3>4. /\ proc'[p][k] = "load" /\ ~cancelled'[p][k]
          /\ \A p2 \in Replicas : p2 # p => proc'[p2][k] = "off"
      BY <3>1, <3>2
    <3> QED BY <3>1, <3>2, <3>3, <3>4, <1>in, <1>pre DEF CalmOf, LeftOf, StaleOf, PhaseOf, Ended
  <2> QED BY <2>1, <2>2
<1>9. ASSUME NEW p \in Replicas, NEW r \in Runs, ClaimReplyLost(p, r) PROVE CalmOf(k)'
  BY <1>9, <1>calm DEF ClaimReplyLost
<1>10. ASSUME NEW p \in Replicas, NEW r \in Runs, LoadFails(p, r) PROVE CalmOf(k)'
  BY <1>10, <1>calm DEF LoadFails
<1>11. ASSUME NEW p \in Replicas, NEW r \in Runs, LoadCases(p, r) PROVE CalmOf(k)'
  <2>1. CASE r # k
    <3>1. \A p2 \in Replicas : \A c \in CasesOf(k) : w'[p2][c] = w[p2][c]
      <4>1. w' = w \/ w' = [w EXCEPT ![p] = [c \in Cases |-> IF c \in InState(r, "pending") THEN "wait" ELSE @[c]]]
        BY <1>11 DEF LoadCases
      <4>2. \A c \in CasesOf(k) : c \in Cases /\ c \notin InState(r, "pending")
        BY <2>1, <1>in DEF InState, CasesOf
      <4> QED BY <4>1, <4>2
    <3>2. \A p2 \in Replicas : proc'[p2][k] = proc[p2][k]
      <4>1. \E to \in {"exec", "exit"} : proc' = [proc EXCEPT ![p][r] = to]
        BY <1>11 DEF LoadCases, ProcGoes
      <4> QED BY <2>1, <4>1
    <3>3. runStatus'[k] = runStatus[k] /\ UNCHANGED <<caseStatus, stats, req, up, cancelled, world>>
      BY <1>11, <2>1 DEF LoadCases
    <3> QED BY <3>1, <3>2, <3>3, <1>pre, CalmFrame
  <2>2. CASE r = k
    <3>1. proc[p][k] = "load" /\ p \in world.replicas /\ up[p] = "up"
          /\ \A p2 \in Replicas : p2 # p => proc[p2][k] = "off"
      BY <1>11, <2>2, <1>solo DEF LoadCases
    <3>2. runStatus[k] = "running" /\ \A c \in CasesOf(k) : caseStatus[c] # "running"
      BY <3>1, <1>pre DEF CalmOf, LeftOf, StaleOf, PhaseOf
    <3>3. UNCHANGED <<caseStatus, stats, req, up, cancelled, world>>
      BY <1>11 DEF LoadCases
    <3>4. Stale(k)' <=> Stale(k)
      BY <3>3 DEF Stale, CountCases, CasesOf
    <3>5. CASE InState(k, "pending") = {}
      <4>1. proc' = [proc EXCEPT ![p][k] = "exit"] /\ runStatus'[k] = "completed"
        BY <1>11, <2>2, <3>5 DEF LoadCases, ProcGoes
      <4>2. \A c \in CasesOf(k) : caseStatus[c] \in Ended
        BY <3>2, <3>5, <1>in DEF InState
      <4>3. proc'[p][k] = "exit" /\ \A p2 \in Replicas : p2 # p => proc'[p2][k] = "off"
        BY <3>1, <4>1
      <4> QED BY <3>1, <3>3, <3>4, <4>1, <4>2, <4>3, <1>in, <1>pre DEF CalmOf, LeftOf, StaleOf, PhaseOf, Ended
    <3>6. CASE InState(k, "pending") # {}
      <4>1. /\ proc' = [proc EXCEPT ![p][k] = "exec"] /\ runStatus' = runStatus
            /\ w' = [w EXCEPT ![p] = [c \in Cases |-> IF c \in InState(k, "pending") THEN "wait" ELSE @[c]]]
        BY <1>11, <2>2, <3>6 DEF LoadCases, ProcGoes
      <4>2. proc'[p][k] = "exec" /\ \A p2 \in Replicas : p2 # p => proc'[p2][k] = "off"
        BY <3>1, <4>1
      <4>3. \A c \in CasesOf(k) : caseStatus[c] = "pending" => w'[p][c] = "wait"
        BY <4>1, <1>in DEF InState
      <4>4. LeftOf(k)' /\ StaleOf(k)'
        BY <3>2, <3>3, <3>4, <4>1, <1>in, <1>pre DEF CalmOf, LeftOf, StaleOf
      <4>5. PhaseOf(p, k)'
        <5>1. cancelled'[p][k] => ~Stale(k)'
          BY <3>1, <3>3, <3>4, <1>pre DEF CalmOf, PhaseOf
        <5> QED BY <3>2, <3>3, <4>1, <4>2, <4>3, <5>1, <1>in DEF PhaseOf
      <4>6. ASSUME NEW p2 \in Replicas, p2 # p PROVE PhaseOf(p2, k)'
        BY <3>2, <3>3, <4>1, <4>2, <4>6, <1>in DEF PhaseOf
      <4> QED BY <4>4, <4>5, <4>6 DEF CalmOf
    <3> QED BY <3>5, <3>6
  <2> QED BY <2>1, <2>2
<1>12. ASSUME NEW p \in Replicas, NEW c \in Cases, SkipCancelled(p, c) PROVE CalmOf(k)'
  <2>1. CASE RunOf[c] # k
    BY <1>12, <2>1, <1>in, <1>pre, CalmFrame DEF SkipCancelled, WGoes
  <2>2. CASE RunOf[c] = k
    <3>0. proc[p][k] = "exec" /\ c \in CasesOf(k)
      BY <1>12, <2>2, <1>in DEF SkipCancelled, GoroutineInv, Ended
    <3>1. /\ proc[p][k] = "exec" /\ p \in world.replicas /\ c \in CasesOf(k)
          /\ \A p2 \in Replicas : p2 # p => proc[p2][k] = "off" /\ p2 \notin world.replicas
      BY ONLY <3>0, <1>solo, p \in Replicas, k \in Runs
    <3>2. runStatus[k] = "running"
      BY <3>1, <1>pre DEF CalmOf, LeftOf, StaleOf, PhaseOf
    <3>3. /\ w' = [w EXCEPT ![p][c] = "cancelled"] /\ w[p][c] \in {"wait", "slot"} /\ cancelled[p][k]
          /\ caseStatus' = [caseStatus EXCEPT ![c] = IF @ = "pending" THEN "cancelled" ELSE @]
          /\ UNCHANGED <<runStatus, stats, up, proc, cancelled, world>>
      BY <1>12, <2>2 DEF SkipCancelled, WGoes
    <3>4. w'[p][c] = "cancelled" /\ \A c2 \in CasesOf(k) : c2 # c => w'[p][c2] = w[p][c2]
      BY <3>1, <3>3, <1>in
    <3>5. /\ caseStatus[c] = "pending" => caseStatus'[c] = "cancelled"
          /\ caseStatus[c] # "pending" => caseStatus'[c] = caseStatus[c]
          /\ \A c2 \in CasesOf(k) : c2 # c => caseStatus'[c2] = caseStatus[c2]
      BY <3>3, <1>in
    <3>6. CountCases(k, caseStatus') = CountCases(k, caseStatus)
      <4>1. \A c2 \in CasesOf(k) : /\ caseStatus'[c2] = "completed" <=> caseStatus[c2] = "completed"
                                   /\ caseStatus'[c2] = "error" <=> caseStatus[c2] = "error"
        BY ONLY <3>5
      <4> QED BY ONLY <4>1, SameCounts
    <3>7. ~Stale(k) /\ ~Stale(k)'
      BY <3>1, <3>3, <3>6, <1>pre DEF CalmOf, LeftOf, StaleOf, PhaseOf, Stale
    <3>8. caseStatus[c] # "running" /\ caseStatus'[c] \in Ended
      <4>1. caseStatus[c] # "running"
        BY <3>1, <3>3, <1>pre DEF CalmOf, PhaseOf
      <4>2. caseStatus[c] \in {"pending", "running"} \cup Ended
        OBVIOUS
      <4> QED BY ONLY <4>1, <4>2, <3>5 DEF Ended
    <3> QED BY <3>1, <3>2, <3>3, <3>4, <3>5, <3>7, <3>8, <1>in, <1>pre DEF CalmOf, LeftOf, StaleOf, PhaseOf, Ended
  <2> QED BY <2>1, <2>2
<1>13. ASSUME NEW p \in Replicas, NEW c \in Cases, TakeRunSem(p, c) PROVE CalmOf(k)'
  <2>1. CASE RunOf[c] # k
    BY <1>13, <2>1, <1>in, <1>pre, CalmFrame DEF TakeRunSem, WGoes
  <2>2. CASE RunOf[c] = k
    <3>0. proc[p][k] = "exec" /\ c \in CasesOf(k)
      BY <1>13, <2>2, <1>in DEF TakeRunSem, GoroutineInv, Ended
    <3>1. /\ proc[p][k] = "exec" /\ p \in world.replicas /\ c \in CasesOf(k)
          /\ \A p2 \in Replicas : p2 # p => proc[p2][k] = "off" /\ p2 \notin world.replicas
      BY ONLY <3>0, <1>solo, p \in Replicas, k \in Runs
    <3>2. runStatus[k] = "running"
      BY <3>1, <1>pre DEF CalmOf, LeftOf, StaleOf, PhaseOf
    <3>3. w' = [w EXCEPT ![p][c] = "gate"] /\ w[p][c] = "wait"
          /\ UNCHANGED <<runStatus, caseStatus, stats, up, proc, cancelled, world>>
      BY <1>13 DEF TakeRunSem, WGoes
    <3>4. Stale(k)' <=> Stale(k)
      BY <3>3 DEF Stale, CountCases, CasesOf
    <3>5. w'[p][c] = "gate" /\ \A c2 \in CasesOf(k) : c2 # c => w'[p][c2] = w[p][c2]
      BY <3>1, <3>3, <1>in
    <3> QED BY <3>1, <3>2, <3>3, <3>4, <3>5, <1>in, <1>pre DEF CalmOf, LeftOf, StaleOf, PhaseOf, Ended
  <2> QED BY <2>1, <2>2
<1>14. ASSUME NEW p \in Replicas, NEW c \in Cases, TakeGlobalSem(p, c) PROVE CalmOf(k)'
  <2>1. CASE RunOf[c] # k
    BY <1>14, <2>1, <1>in, <1>pre, CalmFrame DEF TakeGlobalSem, WGoes
  <2>2. CASE RunOf[c] = k
    <3>0. proc[p][k] = "exec" /\ c \in CasesOf(k)
      BY <1>14, <2>2, <1>in DEF TakeGlobalSem, GoroutineInv, Ended
    <3>1. /\ proc[p][k] = "exec" /\ p \in world.replicas /\ c \in CasesOf(k)
          /\ \A p2 \in Replicas : p2 # p => proc[p2][k] = "off" /\ p2 \notin world.replicas
      BY ONLY <3>0, <1>solo, p \in Replicas, k \in Runs
    <3>2. runStatus[k] = "running"
      BY <3>1, <1>pre DEF CalmOf, LeftOf, StaleOf, PhaseOf
    <3>3. w' = [w EXCEPT ![p][c] = "slot"] /\ w[p][c] = "gate"
          /\ UNCHANGED <<runStatus, caseStatus, stats, up, proc, cancelled, world>>
      BY <1>14 DEF TakeGlobalSem, WGoes
    <3>4. Stale(k)' <=> Stale(k)
      BY <3>3 DEF Stale, CountCases, CasesOf
    <3>5. w'[p][c] = "slot" /\ \A c2 \in CasesOf(k) : c2 # c => w'[p][c2] = w[p][c2]
      BY <3>1, <3>3, <1>in
    <3> QED BY <3>1, <3>2, <3>3, <3>4, <3>5, <1>in, <1>pre DEF CalmOf, LeftOf, StaleOf, PhaseOf, Ended
  <2> QED BY <2>1, <2>2
<1>15. ASSUME NEW p \in Replicas, NEW c \in Cases, StartCase(p, c) PROVE CalmOf(k)'
  <2>1. CASE RunOf[c] # k
    BY <1>15, <2>1, <1>in, <1>pre, CalmFrame DEF StartCase, WGoes
  <2>2. CASE RunOf[c] = k
    <3>0. proc[p][k] = "exec" /\ c \in CasesOf(k)
      BY <1>15, <2>2, <1>in DEF StartCase, GoroutineInv, Ended
    <3>1. /\ proc[p][k] = "exec" /\ p \in world.replicas /\ c \in CasesOf(k)
          /\ \A p2 \in Replicas : p2 # p => proc[p2][k] = "off" /\ p2 \notin world.replicas
      BY ONLY <3>0, <1>solo, p \in Replicas, k \in Runs
    <3>2. runStatus[k] = "running"
      BY <3>1, <1>pre DEF CalmOf, LeftOf, StaleOf, PhaseOf
    <3>3. /\ w' = [w EXCEPT ![p][c] = "run"] /\ ~cancelled[p][k]
          /\ caseStatus' = [caseStatus EXCEPT ![c] = "running"]
          /\ UNCHANGED <<runStatus, stats, up, proc, cancelled, world>>
      BY <1>15, <2>2 DEF StartCase, WGoes
    <3>4. w'[p][c] = "run" /\ \A c2 \in CasesOf(k) : c2 # c => w'[p][c2] = w[p][c2]
      BY <3>1, <3>3, <1>in
    <3>5. /\ caseStatus'[c] = "running"
          /\ \A c2 \in CasesOf(k) : c2 # c => caseStatus'[c2] = caseStatus[c2]
      BY <3>1, <3>3, <1>in
    <3> QED BY <3>1, <3>2, <3>3, <3>4, <3>5, <1>in, <1>pre DEF CalmOf, LeftOf, StaleOf, PhaseOf, Ended
  <2> QED BY <2>1, <2>2
<1>16. ASSUME NEW p \in Replicas, NEW c \in Cases, EndCase(p, c) PROVE CalmOf(k)'
  <2>1. CASE RunOf[c] # k
    <3>1. \A p2 \in Replicas : \A c2 \in CasesOf(k) : w'[p2][c2] = w[p2][c2]
      BY <1>16, <2>1, <1>in DEF EndCase, WGoes, Ended
    <3>2. UNCHANGED <<runStatus, caseStatus, stats, req, up, proc, cancelled, world>>
      BY <1>16 DEF EndCase
    <3> QED BY <3>1, <3>2, <1>pre, CalmFrame
  <2>2. CASE RunOf[c] = k
    <3>0. proc[p][k] = "exec" /\ c \in CasesOf(k)
      BY <1>16, <2>2, <1>in DEF EndCase, GoroutineInv, Ended
    <3>1. /\ proc[p][k] = "exec" /\ p \in world.replicas /\ c \in CasesOf(k)
          /\ \A p2 \in Replicas : p2 # p => proc[p2][k] = "off" /\ p2 \notin world.replicas
      BY ONLY <3>0, <1>solo, p \in Replicas, k \in Runs
    <3>2. runStatus[k] = "running"
      BY <3>1, <1>pre DEF CalmOf, LeftOf, StaleOf, PhaseOf
    <3>3. /\ w[p][c] = "run" /\ \E st \in {"completed", "error"} : w' = [w EXCEPT ![p][c] = st]
          /\ UNCHANGED <<runStatus, caseStatus, stats, up, proc, cancelled, world>>
      BY <1>16 DEF EndCase, WGoes
    <3>4. Stale(k)' <=> Stale(k)
      BY <3>3 DEF Stale, CountCases, CasesOf
    <3>5. w'[p][c] \in {"completed", "error"} /\ \A c2 \in CasesOf(k) : c2 # c => w'[p][c2] = w[p][c2]
      BY <3>1, <3>3, <1>in
    <3> QED BY <3>1, <3>2, <3>3, <3>4, <3>5, <1>in, <1>pre DEF CalmOf, LeftOf, StaleOf, PhaseOf, Ended
  <2> QED BY <2>1, <2>2
<1>17. ASSUME NEW p \in Replicas, NEW c \in Cases, Collect(p, c) PROVE CalmOf(k)'
  <2>1. CASE RunOf[c] # k
    <3>1. \A p2 \in Replicas : \A c2 \in CasesOf(k) : w'[p2][c2] = w[p2][c2]
      BY <1>17, <2>1, <1>in DEF Collect, WGoes, Ended
    <3>2. \A c2 \in CasesOf(k) : caseStatus'[c2] = caseStatus[c2]
      BY <1>17, <2>1, <1>in, <1>calm DEF Collect, Ended
    <3>3. stats'[k] = stats[k] /\ UNCHANGED <<runStatus, req, up, proc, world>>
      BY <1>17, <2>1 DEF Collect
    <3>4. \A p2 \in Replicas : cancelled'[p2][k] = cancelled[p2][k]
      <4> DEFINE flag == cancelled[p][RunOf[c]] \/ cancelReq[RunOf[c]]
      <4>1. cancelled' = [cancelled EXCEPT ![p][RunOf[c]] = flag] /\ flag \in BOOLEAN
        BY <1>17, <1>calm DEF Collect
      <4>2. cancelled \in [Replicas -> [Runs -> BOOLEAN]]
        OBVIOUS
      <4> HIDE DEF flag
      <4> QED BY ONLY <4>1, <4>2, <2>1, p \in Replicas, k \in Runs
    <3> QED BY <3>1, <3>2, <3>3, <3>4, <1>pre, CalmFrame
  <2>2. CASE RunOf[c] = k
    <3>0. proc[p][k] = "exec" /\ c \in CasesOf(k)
      BY <1>17, <2>2, <1>in DEF Collect, GoroutineInv, Ended
    <3>1. /\ proc[p][k] = "exec" /\ p \in world.replicas /\ c \in CasesOf(k)
          /\ \A p2 \in Replicas : p2 # p => proc[p2][k] = "off" /\ p2 \notin world.replicas
      BY ONLY <3>0, <1>solo, p \in Replicas, k \in Runs
    <3>2. runStatus[k] = "running"
      BY <3>1, <1>pre DEF CalmOf, LeftOf, StaleOf, PhaseOf
    <3>3. /\ w' = [w EXCEPT ![p][c] = "none"] /\ w[p][c] \in Ended
          /\ caseStatus' = IF w[p][c] = "cancelled" THEN caseStatus ELSE [caseStatus EXCEPT ![c] = w[p][c]]
          /\ stats' = [stats EXCEPT ![k] = CountCases(k, caseStatus')]
          /\ UNCHANGED <<runStatus, up, proc, world>>
      BY <1>17, <2>2, <1>calm DEF Collect, WGoes
    <3>4. w'[p][c] = "none" /\ \A c2 \in CasesOf(k) : c2 # c => w'[p][c2] = w[p][c2]
      BY <3>1, <3>3, <1>in
    <3>5. \A c2 \in CasesOf(k) : c2 # c => caseStatus'[c2] = caseStatus[c2]
      BY <3>3, <1>in
    <3>6. caseStatus'[c] \in Ended
      <4>1. w[p][c] # "cancelled" => caseStatus'[c] = w[p][c]
        BY <3>3
      <4>2. w[p][c] = "cancelled" => caseStatus[c] \notin {"pending", "running"}
        BY <3>1, <1>pre DEF CalmOf, LeftOf, StaleOf, PhaseOf
      <4>3. w[p][c] = "cancelled" => caseStatus[c] \in Ended /\ caseStatus'[c] = caseStatus[c]
        BY <3>3, <4>2 DEF Ended
      <4> QED BY <3>3, <4>1, <4>3
    <3>7. ~Stale(k)'
      BY <3>3 DEF Stale
    <3> QED BY <3>1, <3>2, <3>3, <3>4, <3>5, <3>6, <3>7, <1>in, <1>pre DEF CalmOf, LeftOf, StaleOf, PhaseOf, Ended
  <2> QED BY <2>1, <2>2
<1>18. ASSUME NEW p \in Replicas, NEW r \in Runs, Drained(p, r) PROVE CalmOf(k)'
  <2>1. CASE r # k
    BY <1>18, <2>1, <1>in, <1>pre, CalmFrame DEF Drained, ProcGoes
  <2>2. CASE r = k
    <3>1. /\ proc[p][k] # "off" /\ p \in world.replicas /\ up[p] = "up"
          /\ \A p2 \in Replicas : p2 # p => proc[p2][k] = "off" /\ p2 \notin world.replicas
      BY <1>18, <2>2, <1>solo DEF Drained
    <3>2. /\ proc[p][k] = "exec" /\ \A c \in CasesOf(k) : w[p][c] = "none"
          /\ UNCHANGED <<runStatus, caseStatus, stats, up, cancelled, world>>
      BY <1>18, <2>2 DEF Drained
    <3>3. proc'[p][k] = "final" /\ \A p2 \in Replicas : p2 # p => proc'[p2][k] = "off"
      BY <1>18, <2>2, <3>1 DEF Drained, ProcGoes
    <3>4. Stale(k)' <=> Stale(k)
      BY <3>2 DEF Stale, CountCases, CasesOf
    <3>5. \A c \in CasesOf(k) : caseStatus[c] \in Ended
      <4>1. \A c \in CasesOf(k) : caseStatus[c] \notin {"pending", "running"}
        BY <3>2, <1>pre DEF CalmOf, PhaseOf
      <4>2. \A c \in CasesOf(k) : caseStatus[c] \in {"pending", "running"} \cup Ended
        BY <1>in
      <4> QED BY ONLY <4>1, <4>2
    <3> QED BY <3>1, <3>2, <3>3, <3>4, <3>5, <1>in, <1>pre DEF CalmOf, LeftOf, StaleOf, PhaseOf, Ended
  <2> QED BY <2>1, <2>2
<1>19. ASSUME NEW p \in Replicas, NEW r \in Runs, CancelPending(p, r) PROVE CalmOf(k)'
  <2>1. CASE r # k
    <3>1. \A c \in CasesOf(k) : caseStatus'[c] = caseStatus[c]
      BY <1>19, <2>1, <1>in DEF CancelPending, InState, CasesOf
    <3> QED BY <1>19, <2>1, <3>1, <1>pre, CalmFrame DEF CancelPending, ProcGoes
  <2>2. CASE r = k
    <3>1. /\ proc[p][k] = "final" /\ p \in world.replicas /\ up[p] = "up"
          /\ \A p2 \in Replicas : p2 # p => proc[p2][k] = "off" /\ p2 \notin world.replicas
      BY <1>19, <2>2, <1>solo DEF CancelPending
    <3>2. \A c \in CasesOf(k) : caseStatus[c] \in Ended
      BY <3>1, <1>pre DEF CalmOf, LeftOf, StaleOf, PhaseOf
    <3>3. \A c \in CasesOf(k) : caseStatus'[c] = caseStatus[c]
      BY <1>19, <2>2, <3>2, <1>in DEF CancelPending, InState, Ended
    <3>4. CountCases(k, caseStatus') = CountCases(k, caseStatus)
      BY ONLY <3>3, SameCounts
    <3>5. UNCHANGED <<runStatus, stats, up, cancelled, world, req>>
      BY <1>19 DEF CancelPending
    <3>6. Stale(k)' <=> Stale(k)
      BY <3>4, <3>5 DEF Stale
    <3>7. proc'[p][k] = "status" /\ \A p2 \in Replicas : p2 # p => proc'[p2][k] = "off"
      BY <1>19, <2>2, <3>1 DEF CancelPending, ProcGoes
    <3> QED BY <3>1, <3>2, <3>3, <3>5, <3>6, <3>7, <1>in, <1>pre DEF CalmOf, LeftOf, StaleOf, PhaseOf, Ended
  <2> QED BY <2>1, <2>2
<1>20. ASSUME NEW p \in Replicas, NEW r \in Runs, WriteStatus(p, r) PROVE CalmOf(k)'
  <2>0. runStatus' = [runStatus EXCEPT ![r] = IF cancelled[p][r] THEN "cancelled" ELSE "completed"]
    BY <1>20, <1>calm DEF WriteStatus
  <2>1. CASE r # k
    BY <1>20, <2>0, <2>1, <1>in, <1>pre, CalmFrame DEF WriteStatus, ProcGoes
  <2>2. CASE r = k
    <3>1. /\ proc[p][k] = "status" /\ p \in world.replicas /\ up[p] = "up"
          /\ \A p2 \in Replicas : p2 # p => proc[p2][k] = "off" /\ p2 \notin world.replicas
      BY <1>20, <2>2, <1>solo DEF WriteStatus
    <3>2. UNCHANGED <<caseStatus, stats, up, cancelled, world>> /\ runStatus'[k] \in {"completed", "cancelled"}
      BY <1>20, <2>0, <2>2 DEF WriteStatus
    <3>3. Stale(k)' <=> Stale(k)
      BY <3>2 DEF Stale, CountCases, CasesOf
    <3>4. proc'[p][k] = "exit" /\ \A p2 \in Replicas : p2 # p => proc'[p2][k] = "off"
      BY <1>20, <2>2, <3>1 DEF WriteStatus, ProcGoes
    <3>5. \A c \in CasesOf(k) : caseStatus[c] \in Ended
      BY <3>1, <1>pre DEF CalmOf, LeftOf, StaleOf, PhaseOf
    <3> QED BY <3>1, <3>2, <3>3, <3>4, <3>5, <1>in, <1>pre DEF CalmOf, LeftOf, StaleOf, PhaseOf, Ended
  <2> QED BY <2>1, <2>2
<1>21. ASSUME NEW p \in Replicas, NEW r \in Runs, Exit(p, r) PROVE CalmOf(k)'
  <2>1. CASE r # k
    BY <1>21, <2>1, <1>in, <1>pre, CalmFrame DEF Exit, ProcGoes
  <2>2. CASE r = k
    <3>1. /\ proc[p][k] # "off" /\ p \in world.replicas /\ up[p] = "up"
          /\ \A p2 \in Replicas : p2 # p => proc[p2][k] = "off" /\ p2 \notin world.replicas
      BY <1>21, <2>2, <1>solo DEF Exit
    <3>2. /\ proc[p][k] = "exit" /\ stats' = [stats EXCEPT ![k] = CountCases(k, caseStatus)]
          /\ UNCHANGED <<runStatus, caseStatus, req, up, cancelled, world>>
      BY <1>21, <2>2 DEF Exit
    <3>3. \A p2 \in Replicas : proc'[p2][k] = "off"
      BY <1>21, <2>2, <3>1 DEF Exit, ProcGoes
    <3>4. ~Stale(k)'
      BY <3>2 DEF Stale, CountCases, CasesOf
    <3>5. \A c \in CasesOf(k) : caseStatus[c] \in Ended
      BY <3>2, <1>pre DEF CalmOf, LeftOf, StaleOf, PhaseOf
    <3> QED BY <3>1, <3>2, <3>3, <3>4, <3>5, <1>in, <1>pre DEF CalmOf, LeftOf, StaleOf, PhaseOf, Ended
  <2> QED BY <2>1, <2>2
<1>22. ASSUME NEW p \in Replicas, Crash(p) PROVE CalmOf(k)'
  <2>1. /\ UNCHANGED <<runStatus, caseStatus, stats, req, world>> /\ up'[p] = "down" /\ proc'[p][k] = "off"
        /\ \A p2 \in Replicas : p2 # p => /\ proc'[p2][k] = proc[p2][k] /\ up'[p2] = up[p2]
                                          /\ cancelled'[p2][k] = cancelled[p2][k] /\ w'[p2] = w[p2]
    BY <1>22 DEF Crash
  <2>2. Stale(k)' <=> Stale(k)
    BY <2>1 DEF Stale, CountCases, CasesOf
  <2>3. LeftOf(k)' /\ StaleOf(k)'
    BY <2>1, <2>2, <1>in, <1>pre DEF CalmOf, LeftOf, StaleOf
  <2>4. PhaseOf(p, k)'
    BY <2>1 DEF PhaseOf
  <2>5. ASSUME NEW p2 \in Replicas, p2 # p PROVE PhaseOf(p2, k)'
    BY <2>1, <2>2, <2>5, <1>in, <1>pre DEF CalmOf, PhaseOf
  <2> QED BY <2>3, <2>4, <2>5 DEF CalmOf
<1>23. ASSUME NEW p \in Replicas, Start(p) PROVE CalmOf(k)'
  <2>1. /\ UNCHANGED <<runStatus, caseStatus, stats, req, world, proc, cancelled, w>>
        /\ up[p] = "down" /\ up' = [up EXCEPT ![p] = "recoverCases"]
    BY <1>23 DEF Start
  <2>2. Stale(k)' <=> Stale(k)
    BY <2>1 DEF Stale, CountCases, CasesOf
  <2>3. \A p2 \in Replicas : up'[p2] \notin {"down", "recoverCases"} => up[p2] \notin {"down", "recoverCases"}
    BY <2>1
  <2> QED BY <2>1, <2>2, <2>3, <1>in, <1>pre DEF CalmOf, LeftOf, StaleOf, PhaseOf, Ended
<1>24. ASSUME NEW p \in Replicas, RecoverCases(p) PROVE CalmOf(k)'
  <2>1. /\ up[p] = "recoverCases" /\ p \in world.replicas
        /\ \A p2 \in Replicas : proc[p2][k] = "off" /\ (p2 # p => p2 \notin world.replicas)
    BY <1>24, <1>solo DEF RecoverCases, UpInv
  <2>2. caseStatus' = [c \in Cases |-> IF caseStatus[c] = "running" THEN "pending" ELSE caseStatus[c]]
        /\ UNCHANGED <<runStatus, stats, req, world, proc>>
    BY <1>24 DEF RecoverCases
  <2>3. \A c \in CasesOf(k) : /\ caseStatus'[c] \in Ended <=> caseStatus[c] \in Ended
                              /\ caseStatus[c] \in Ended => caseStatus'[c] = caseStatus[c]
                              /\ caseStatus'[c] # "running"
    BY <2>2, <1>in DEF Ended
  <2>4. CountCases(k, caseStatus') = CountCases(k, caseStatus)
    <3>1. \A c \in CasesOf(k) : /\ caseStatus'[c] = "completed" <=> caseStatus[c] = "completed"
                                /\ caseStatus'[c] = "error" <=> caseStatus[c] = "error"
      BY <2>3 DEF Ended
    <3> QED BY ONLY <3>1, SameCounts
  <2>5. Stale(k)' <=> Stale(k)
    BY <2>2, <2>4 DEF Stale
  <2>6. LeftOf(k)' /\ StaleOf(k)'
    BY <2>2, <2>3, <2>5, <1>in, <1>pre DEF CalmOf, LeftOf, StaleOf
  <2>7. ASSUME NEW p2 \in Replicas PROVE PhaseOf(p2, k)'
    BY <2>1, <2>2, <2>3, <1>in DEF PhaseOf
  <2> QED BY <2>6, <2>7 DEF CalmOf
<1>25. ASSUME NEW p \in Replicas, RecoverRuns(p) PROVE CalmOf(k)'
  <2>1. /\ up[p] = "recoverRuns" /\ p \in world.replicas
        /\ \A p2 \in Replicas : proc[p2][k] = "off" /\ (p2 # p => p2 \notin world.replicas)
    BY <1>25, <1>solo DEF RecoverRuns, UpInv
  <2>2. /\ runStatus' = [r \in Runs |-> IF runStatus[r] = "running" THEN "queued" ELSE runStatus[r]]
        /\ UNCHANGED <<caseStatus, stats, req, world, proc>>
    BY <1>25 DEF RecoverRuns
  <2>3. Stale(k)' <=> Stale(k)
    BY <2>2 DEF Stale, CountCases, CasesOf
  <2>4. \A c \in CasesOf(k) : caseStatus[c] # "running"
    BY <2>1, <1>pre DEF CalmOf, LeftOf, StaleOf, PhaseOf
  <2>5. runStatus'[k] \in {"completed", "cancelled"} => runStatus[k] \in {"completed", "cancelled"}
    BY <2>2
  <2> QED BY <2>1, <2>2, <2>3, <2>4, <2>5, <1>in, <1>pre DEF CalmOf, LeftOf, StaleOf, PhaseOf, Ended
<1>26. CASE UNCHANGED vars
  BY <1>26, <1>in, <1>pre, CalmFrame DEF vars
<1> QED BY <1>1, <1>2, <1>3, <1>4, <1>5, <1>6, <1>7, <1>8, <1>9, <1>10, <1>11, <1>12, <1>13,
           <1>14, <1>15, <1>16, <1>17, <1>18, <1>19, <1>20, <1>21, <1>22, <1>23, <1>24, <1>25,
           <1>26
        DEF Next, RequestStep, RunStep, CaseStep, Recover

-----------------------------------------------------------------------------
(* The theorems *)

\* A new run, or one that has been executed before, satisfies all of it.
LEMMA InitInvariants ==
    ASSUME Init
    PROVE  /\ TypeOK /\ ActiveInv /\ GoroutineInv /\ UpInv /\ IdleInv /\ OneInv
           /\ RetryInv /\ SlotInv /\ CalmInv
<1> USE TestRunAssumption DEF Init
<1>1. \A r \in Runs : stats[r] = CountCases(r, caseStatus)
  BY DEF CountCases, InState
<1>2. TypeOK
  <2>1. stats \in [Runs -> [completed : 0..Cardinality(Cases), error : 0..Cardinality(Cases)]]
    <3>1. \A r \in Runs : stats[r] \in [completed : 0..Cardinality(Cases), error : 0..Cardinality(Cases)]
      BY <1>1, CountsInRange
    <3>2. stats = [r \in Runs |-> stats[r]]
      OBVIOUS
    <3> QED BY ONLY <3>1, <3>2
  <2>2. cancelReq \in [Runs -> BOOLEAN]
    OBVIOUS
  <2>3. runStatus \in [Runs -> {"idle", "queued", "running", "completed", "cancelled", "error"}]
    OBVIOUS
  <2>4. caseStatus \in [Cases -> {"pending", "running"} \cup Ended]
    BY DEF Ended
  <2>5. world \in Worlds /\ restarts \in 0..world.restarts
    OBVIOUS
  <2>6. req \in [Requests -> [at : {"new", "reset", "queue", "done"}, run : Runs]]
    OBVIOUS
  <2> QED BY <2>1, <2>2, <2>3, <2>4, <2>5, <2>6 DEF TypeOK, Ended
<1>3. ActiveInv /\ GoroutineInv /\ UpInv
  BY DEF ActiveInv, GoroutineInv, UpInv
<1>4. \A q \in Requests : req[q].at = "new" /\ req[q].run \in Runs
  OBVIOUS
<1>5. IdleInv /\ OneInv /\ RetryInv
  BY <1>4 DEF IdleInv, InFlight, OneInv, RetryInv
<1>6. SlotInv
  <2>1. \A p \in Replicas : GlobalHeld(p) = {}
    BY DEF GlobalHeld
  <2>2. Cardinality({}) = 0
    BY ONLY FS_EmptySet
  <2> QED BY ONLY <2>1, <2>2, TestRunAssumption DEF SlotInv
<1>7. CalmInv
  <2> SUFFICES ASSUME NEW r \in Runs PROVE CalmOf(r)
    BY DEF CalmInv
  <2>1. ~Stale(r)
    BY <1>1 DEF Stale
  <2>2. /\ runStatus[r] # "queued" /\ \A c \in Cases : caseStatus[c] # "running"
        /\ runStatus[r] \in {"completed", "cancelled"} => \A c \in Cases : caseStatus[c] \in Ended
    BY DEF Ended
  <2> QED BY <2>1, <2>2 DEF CalmOf, LeftOf, StaleOf, PhaseOf, CasesOf
<1> QED BY <1>2, <1>3, <1>5, <1>6, <1>7

\* activeRuns and the goroutines, as the run states them.
LEMMA GoroutinesFollow ==
    ASSUME TypeOK, ActiveInv, GoroutineInv
    PROVE  GoroutinesBelongToTheRun
BY DEF TypeOK, ActiveInv, GoroutineInv, GoroutinesBelongToTheRun

\* A set whose members are equal has at most one.
LEMMA AtMostOne ==
    ASSUME NEW S, \A x, y \in S : x = y
    PROVE  Cardinality(S) <= 1
<1>1. CASE S = {}
  BY <1>1, FS_EmptySet
<1>2. CASE S # {}
  <2>1. PICK x \in S : S = {x}
    BY <1>2
  <2>2. Cardinality({x}) = 1
    BY ONLY FS_Singleton
  <2> QED BY ONLY <2>1, <2>2
<1> QED BY <1>1, <1>2

\* The step of every invariant that needs no order between the requests.
LEMMA StepAlways ==
    ASSUME TypeOK, ActiveInv, GoroutineInv, UpInv, RetryInv, SlotInv, [Next]_vars
    PROVE  (TypeOK /\ ActiveInv /\ GoroutineInv /\ UpInv /\ RetryInv /\ SlotInv)'
BY NextTypeOK, NextActive, NextGoroutine, NextUp, NextRetry, NextSlots

\* No step changes the world.
LEMMA WorldStays ==
    ASSUME [Next]_vars
    PROVE  world' = world
<1> USE DEF dbVars, procVars
<1>1. ASSUME NEW q \in Requests, EnqueueCheck(q) PROVE world' = world
  BY <1>1 DEF EnqueueCheck, ReqGoes
<1>2. ASSUME NEW q \in Requests, RetryCheck(q) PROVE world' = world
  BY <1>2 DEF RetryCheck, ReqGoes
<1>3. ASSUME NEW q \in Requests, RetryReset(q) PROVE world' = world
  BY <1>3 DEF RetryReset, ReqGoes
<1>4. ASSUME NEW q \in Requests, QueueRun(q) PROVE world' = world
  BY <1>4 DEF QueueRun, ReqGoes
<1>5. ASSUME NEW r \in Runs, CancelRun(r) PROVE world' = world
  BY <1>5 DEF CancelRun
<1>6. ASSUME NEW p \in Replicas, NEW c \in Cases, CaseRetryBegins(p, c) PROVE world' = world
  BY <1>6 DEF CaseRetryBegins
<1>7. ASSUME NEW c \in Cases, CaseRetryEnds(c) PROVE world' = world
  BY <1>7 DEF CaseRetryEnds
<1>8. ASSUME NEW p \in Replicas, NEW r \in Runs, Claim(p, r) PROVE world' = world
  BY <1>8 DEF Claim
<1>9. ASSUME NEW p \in Replicas, NEW r \in Runs, ClaimReplyLost(p, r) PROVE world' = world
  BY <1>9 DEF ClaimReplyLost
<1>10. ASSUME NEW p \in Replicas, NEW r \in Runs, LoadFails(p, r) PROVE world' = world
  BY <1>10 DEF LoadFails, ProcGoes
<1>11. ASSUME NEW p \in Replicas, NEW r \in Runs, LoadCases(p, r) PROVE world' = world
  BY <1>11 DEF LoadCases, ProcGoes
<1>12. ASSUME NEW p \in Replicas, NEW c \in Cases, SkipCancelled(p, c) PROVE world' = world
  BY <1>12 DEF SkipCancelled, WGoes
<1>13. ASSUME NEW p \in Replicas, NEW c \in Cases, TakeRunSem(p, c) PROVE world' = world
  BY <1>13 DEF TakeRunSem, WGoes
<1>14. ASSUME NEW p \in Replicas, NEW c \in Cases, TakeGlobalSem(p, c) PROVE world' = world
  BY <1>14 DEF TakeGlobalSem, WGoes
<1>15. ASSUME NEW p \in Replicas, NEW c \in Cases, StartCase(p, c) PROVE world' = world
  BY <1>15 DEF StartCase, WGoes
<1>16. ASSUME NEW p \in Replicas, NEW c \in Cases, EndCase(p, c) PROVE world' = world
  BY <1>16 DEF EndCase, WGoes
<1>17. ASSUME NEW p \in Replicas, NEW c \in Cases, Collect(p, c) PROVE world' = world
  BY <1>17 DEF Collect, WGoes
<1>18. ASSUME NEW p \in Replicas, NEW r \in Runs, Drained(p, r) PROVE world' = world
  BY <1>18 DEF Drained, ProcGoes
<1>19. ASSUME NEW p \in Replicas, NEW r \in Runs, CancelPending(p, r) PROVE world' = world
  BY <1>19 DEF CancelPending, ProcGoes
<1>20. ASSUME NEW p \in Replicas, NEW r \in Runs, WriteStatus(p, r) PROVE world' = world
  BY <1>20 DEF WriteStatus, ProcGoes
<1>21. ASSUME NEW p \in Replicas, NEW r \in Runs, Exit(p, r) PROVE world' = world
  BY <1>21 DEF Exit, ProcGoes
<1>22. ASSUME NEW p \in Replicas, Crash(p) PROVE world' = world
  BY <1>22 DEF Crash
<1>23. ASSUME NEW p \in Replicas, Start(p) PROVE world' = world
  BY <1>23 DEF Start
<1>24. ASSUME NEW p \in Replicas, RecoverCases(p) PROVE world' = world
  BY <1>24 DEF RecoverCases
<1>25. ASSUME NEW p \in Replicas, RecoverRuns(p) PROVE world' = world
  BY <1>25 DEF RecoverRuns
<1>26. CASE UNCHANGED vars
  BY <1>26 DEF vars
<1> QED BY <1>1, <1>2, <1>3, <1>4, <1>5, <1>6, <1>7, <1>8, <1>9, <1>10, <1>11, <1>12, <1>13,
           <1>14, <1>15, <1>16, <1>17, <1>18, <1>19, <1>20, <1>21, <1>22, <1>23, <1>24, <1>25,
           <1>26
        DEF Next, RequestStep, RunStep, CaseStep, Recover

\* Types, activeRuns and goroutines agree in every behaviour, whatever crashes,
\* fails or is requested at the same time.
THEOREM RunnerIsWellFormed == Spec => [](TypeOK /\ GoroutinesBelongToTheRun)
<1> DEFINE Inv == TypeOK /\ ActiveInv /\ GoroutineInv /\ UpInv /\ RetryInv /\ SlotInv
<1>1. Init => Inv
  BY InitInvariants
<1>2. Inv /\ [Next]_vars => Inv'
  BY StepAlways
<1>3. Inv => TypeOK /\ GoroutinesBelongToTheRun
  BY GoroutinesFollow
<1> QED BY <1>1, <1>2, <1>3, PTL DEF Spec

\* globalLLMSem: the cases of all runs of a replica that are in the model at the
\* same time never exceed its capacity.
THEOREM ModelCallsBounded == Spec => []LLMCallsBounded
<1> DEFINE Inv == TypeOK /\ ActiveInv /\ GoroutineInv /\ UpInv /\ RetryInv /\ SlotInv
<1>1. Init => Inv
  BY InitInvariants
<1>2. Inv /\ [Next]_vars => Inv'
  BY StepAlways
<1>3. Inv => LLMCallsBounded
  <2> SUFFICES ASSUME Inv, world.retries = {}, NEW p \in Replicas PROVE LLMCalls(p) <= GlobalSlots
    BY DEF LLMCallsBounded
  <2>1. {c \in Cases : retry[c] = p} = {}
    BY TestRunAssumption DEF RetryInv
  <2>2. {c \in Cases : w[p][c] = "run"} \in SUBSET GlobalHeld(p)
    BY DEF GlobalHeld
  <2>3. IsFiniteSet(GlobalHeld(p)) /\ Cardinality(GlobalHeld(p)) \in Nat
    BY HeldFinite
  <2>4. /\ Cardinality({c \in Cases : w[p][c] = "run"}) <= Cardinality(GlobalHeld(p))
        /\ IsFiniteSet({c \in Cases : w[p][c] = "run"})
    BY ONLY <2>2, <2>3, FS_Subset
  <2>5. Cardinality({c \in Cases : w[p][c] = "run"}) \in Nat
    BY ONLY <2>4, FS_CardinalityType
  <2>6. Cardinality(GlobalHeld(p)) <= GlobalSlots /\ Cardinality({}) = 0
    BY FS_EmptySet DEF SlotInv
  <2>7. LLMCalls(p) = Cardinality({c \in Cases : w[p][c] = "run"}) + 0
    BY <2>1, <2>6 DEF LLMCalls
  <2> QED BY ONLY <2>3, <2>4, <2>5, <2>6, <2>7, TestRunAssumption
<1> QED BY <1>1, <1>2, <1>3, PTL DEF Spec

\* claimRunSQL: as long as the clients take turns, and until a replica restarts,
\* no run has two processors, among any number of replicas, with any faults.
THEOREM RunsAreClaimedOnce == Spec /\ []Orderly => []RunHasOneProcessor
<1> DEFINE Inv == /\ TypeOK /\ ActiveInv /\ GoroutineInv /\ UpInv /\ RetryInv /\ SlotInv
                  /\ IdleInv /\ OneInv
<1>1. Init => Inv
  BY InitInvariants
<1>2. Inv /\ Orderly /\ [Next]_vars => Inv'
  BY StepAlways, NextIdle, NextOne
<1>3. Inv => RunHasOneProcessor
  <2> SUFFICES ASSUME Inv PROVE RunHasOneProcessor
    OBVIOUS
  <2>1. ASSUME restarts = 0, NEW r \in Runs PROVE Cardinality(Processors(r)) <= 1
    <3>1. \A x, y \in Processors(r) : x = y
      BY <2>1 DEF Processors, OneInv
    <3> QED BY ONLY <3>1, AtMostOne
  <2> QED BY <2>1, GoroutinesFollow DEF RunHasOneProcessor, OneProcessor
<1> QED BY <1>1, <1>2, <1>3, PTL DEF Spec

\* WriteStatus and Exit: as long as the clients take turns, a finished run of a
\* lone replica has no case left and exact counters, whatever was cancelled, and
\* however often the replica has crashed and recovered on the way.
THEOREM FinishedMeansDone == Spec /\ []Orderly => []FinishedRunsAreDone
<1> DEFINE Inv == /\ TypeOK /\ ActiveInv /\ GoroutineInv /\ UpInv /\ RetryInv /\ SlotInv
                  /\ CalmInv
<1>1. Init => Inv
  BY InitInvariants
<1>2. Inv /\ Orderly /\ [Next]_vars => Inv'
  <2> SUFFICES ASSUME Inv, Orderly, [Next]_vars PROVE Inv'
    OBVIOUS
  <2>1. Calm' <=> Calm
    BY WorldStays DEF Calm
  <2>2. ASSUME Calm PROVE \A k \in Runs : CalmOf(k)'
    BY <2>2, NextCalm DEF CalmInv
  <2>3. CalmInv'
    BY <2>1, <2>2 DEF CalmInv
  <2> QED BY <2>3, StepAlways
<1>3. Inv => FinishedRunsAreDone
  <2> SUFFICES ASSUME Inv, Calm, NEW r \in Runs, runStatus[r] \in {"completed", "cancelled"},
                      \A q \in Requests : req[q].at # "queue"
               PROVE  /\ CasesOf(r) = UNION {InState(r, st) : st \in Ended}
                      /\ stats[r].completed = Cardinality(InState(r, "completed"))
                      /\ stats[r].error = Cardinality(InState(r, "error"))
    BY DEF FinishedRunsAreDone
  <2>1. CalmOf(r)
    BY DEF CalmInv
  <2>2. \A c \in CasesOf(r) : caseStatus[c] \in Ended
    BY <2>1 DEF CalmOf, LeftOf
  <2>3. stats[r] = CountCases(r, caseStatus)
    BY <2>1, <2>2 DEF CalmOf, StaleOf, Stale
  <2>4. CasesOf(r) = UNION {InState(r, st) : st \in Ended}
    BY <2>2 DEF InState
  <2> QED BY <2>3, <2>4 DEF CountCases, InState
<1> QED BY <1>1, <1>2, <1>3, PTL DEF Spec

\* Until the only request has queued its run, nobody works on any run.
Untouched ==
    (\A q \in Requests : req[q].at # "done") =>
        \A r \in Runs : runStatus[r] \notin {"queued", "running"} /\ \A p \in Replicas : proc[p][r] = "off"

LEMMA NextUntouched ==
    ASSUME TypeOK, Untouched, [Next]_vars, \A q, q2 \in Requests : q = q2
    PROVE  Untouched'
<1> USE DEF TypeOK, Untouched, dbVars, procVars, Ended
<1>1. ASSUME NEW q \in Requests, EnqueueCheck(q) PROVE Untouched'
  BY <1>1 DEF EnqueueCheck, ReqGoes
<1>2. ASSUME NEW q \in Requests, RetryCheck(q) PROVE Untouched'
  BY <1>2 DEF RetryCheck, ReqGoes
<1>3. ASSUME NEW q \in Requests, RetryReset(q) PROVE Untouched'
  BY <1>3 DEF RetryReset, ReqGoes
<1>4. ASSUME NEW q \in Requests, QueueRun(q) PROVE Untouched'
  BY <1>4 DEF QueueRun, ReqGoes
<1>5. ASSUME NEW r \in Runs, CancelRun(r) PROVE Untouched'
  BY <1>5 DEF CancelRun
<1>6. ASSUME NEW p \in Replicas, NEW c \in Cases, CaseRetryBegins(p, c) PROVE Untouched'
  BY <1>6 DEF CaseRetryBegins
<1>7. ASSUME NEW c \in Cases, CaseRetryEnds(c) PROVE Untouched'
  BY <1>7 DEF CaseRetryEnds
<1>8. ASSUME NEW p \in Replicas, NEW r \in Runs, Claim(p, r) PROVE Untouched'
  BY <1>8 DEF Claim
<1>9. ASSUME NEW p \in Replicas, NEW r \in Runs, ClaimReplyLost(p, r) PROVE Untouched'
  BY <1>9 DEF ClaimReplyLost
<1>10. ASSUME NEW p \in Replicas, NEW r \in Runs, LoadFails(p, r) PROVE Untouched'
  BY <1>10 DEF LoadFails, ProcGoes
<1>11. ASSUME NEW p \in Replicas, NEW r \in Runs, LoadCases(p, r) PROVE Untouched'
  BY <1>11 DEF LoadCases, ProcGoes
<1>12. ASSUME NEW p \in Replicas, NEW c \in Cases, SkipCancelled(p, c) PROVE Untouched'
  BY <1>12 DEF SkipCancelled, WGoes
<1>13. ASSUME NEW p \in Replicas, NEW c \in Cases, TakeRunSem(p, c) PROVE Untouched'
  BY <1>13 DEF TakeRunSem, WGoes
<1>14. ASSUME NEW p \in Replicas, NEW c \in Cases, TakeGlobalSem(p, c) PROVE Untouched'
  BY <1>14 DEF TakeGlobalSem, WGoes
<1>15. ASSUME NEW p \in Replicas, NEW c \in Cases, StartCase(p, c) PROVE Untouched'
  BY <1>15 DEF StartCase, WGoes
<1>16. ASSUME NEW p \in Replicas, NEW c \in Cases, EndCase(p, c) PROVE Untouched'
  BY <1>16 DEF EndCase, WGoes
<1>17. ASSUME NEW p \in Replicas, NEW c \in Cases, Collect(p, c) PROVE Untouched'
  BY <1>17 DEF Collect, WGoes
<1>18. ASSUME NEW p \in Replicas, NEW r \in Runs, Drained(p, r) PROVE Untouched'
  BY <1>18 DEF Drained, ProcGoes
<1>19. ASSUME NEW p \in Replicas, NEW r \in Runs, CancelPending(p, r) PROVE Untouched'
  BY <1>19 DEF CancelPending, ProcGoes
<1>20. ASSUME NEW p \in Replicas, NEW r \in Runs, WriteStatus(p, r) PROVE Untouched'
  BY <1>20 DEF WriteStatus, ProcGoes
<1>21. ASSUME NEW p \in Replicas, NEW r \in Runs, Exit(p, r) PROVE Untouched'
  BY <1>21 DEF Exit, ProcGoes
<1>22. ASSUME NEW p \in Replicas, Crash(p) PROVE Untouched'
  BY <1>22 DEF Crash
<1>23. ASSUME NEW p \in Replicas, Start(p) PROVE Untouched'
  BY <1>23 DEF Start
<1>24. ASSUME NEW p \in Replicas, RecoverCases(p) PROVE Untouched'
  BY <1>24 DEF RecoverCases
<1>25. ASSUME NEW p \in Replicas, RecoverRuns(p) PROVE Untouched'
  BY <1>25 DEF RecoverRuns
<1>26. CASE UNCHANGED vars
  BY <1>26 DEF vars
<1> QED BY <1>1, <1>2, <1>3, <1>4, <1>5, <1>6, <1>7, <1>8, <1>9, <1>10, <1>11, <1>12, <1>13,
           <1>14, <1>15, <1>16, <1>17, <1>18, <1>19, <1>20, <1>21, <1>22, <1>23, <1>24, <1>25,
           <1>26
        DEF Next, RequestStep, RunStep, CaseStep, Recover

\* A client that sends one request is orderly: the enqueue or retry handler
\* alone cannot overtake itself, and with it the last two theorems hold as they
\* stand.
THEOREM OneRequestIsOrderly ==
    ASSUME \A q, q2 \in Requests : q = q2
    PROVE  Spec => []Orderly
<1>1. Init => TypeOK /\ Untouched
  BY InitInvariants DEF Init, Untouched
<1>2. TypeOK /\ Untouched /\ [Next]_vars => (TypeOK /\ Untouched)'
  BY NextTypeOK, NextUntouched
<1>3. TypeOK /\ Untouched => Orderly
  BY DEF TypeOK, Untouched, Orderly, InFlight, Processors
<1> QED BY <1>1, <1>2, <1>3, PTL DEF Spec
=============================================================================
