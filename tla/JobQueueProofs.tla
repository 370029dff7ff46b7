--------------------------- MODULE JobQueueProofs ---------------------------
(***************************************************************************)
(* TLAPS proofs about JobQueue, for any number of jobs, workers and        *)
(* processes and any bound on crashes.                                     *)
(***************************************************************************)
EXTENDS JobQueue, TLAPS

\* A worker inside runJob holds a row that was claimed: it never goes back to
\* queued. The second part is the ownership AtMostOneExecution needs, the last
\* two say when a handler may already have been entered.
Ownership ==
    /\ \A w \in Workers : pc[w] \in Busy =>
          cur[w] \in Jobs /\ status[cur[w]] \notin {"none", "queued"}
    /\ \A v, w \in Workers :
          v # w /\ pc[v] \in Busy /\ pc[w] \in Busy => cur[v] # cur[w]
    /\ \A j \in Jobs : /\ starts[j] <= 1
                       /\ status[j] \in {"none", "queued"} => starts[j] = 0
    /\ \A w \in Workers : pc[w] = "lookup" => starts[cur[w]] = 0

\* The inductive invariant of the ownership argument.
OwnInv == TypeOK /\ Ownership

\* The invariant holds in an empty queue.
LEMMA InitOwnInv == Init => OwnInv
<1> SUFFICES ASSUME Init PROVE OwnInv
  OBVIOUS
<1> USE ConstAssumption DEF Init
<1>1. TypeOK
  BY DEF TypeOK, Statuses, Terminal, Errors, BootTasks, NoJob, NoOutcome, Busy
<1>2. Ownership
  BY DEF Ownership, Busy
<1> QED
  BY <1>1, <1>2 DEF OwnInv

\* Every step keeps the types; TerminalWrite needs that a busy worker has a job.
LEMMA NextTypeOK == TypeOK /\ Ownership /\ [Next]_vars => TypeOK'
<1> SUFFICES ASSUME TypeOK, Ownership, [Next]_vars PROVE TypeOK'
  OBVIOUS
<1> USE ConstAssumption DEF TypeOK, Statuses, Terminal, Errors, Busy,
        BootTasks, procVars, workVars, rowVars
<1>1. ASSUME NEW w \in Workers, Claim(w) PROVE TypeOK'
  BY <1>1 DEF Claim, ClaimRow, Claimable
<1>2. ASSUME NEW w \in Workers, ClaimReplyLost(w) PROVE TypeOK'
  BY <1>2 DEF ClaimReplyLost, ClaimRow, Claimable
<1>3. ASSUME NEW w \in Workers, Lookup(w) PROVE TypeOK'
  <2>1. cur[w] \in Jobs
    BY <1>3 DEF Lookup, Ownership
  <2>2. starts' \in [Jobs -> Nat] /\ pc' \in [Workers -> {"idle"} \cup Busy]
    BY <1>3, <2>1 DEF Lookup
  <2>3. UNCHANGED <<cur, seenCancel, outcome, status, kind, cancelReq, old,
                    error, cancelling, proc, boot, halts>>
    BY <1>3 DEF Lookup
  <2> QED
    BY <2>2, <2>3
<1>3b. ASSUME NEW w \in Workers, LookupFails(w) PROVE TypeOK'
  BY <1>3b DEF LookupFails
<1>4. ASSUME NEW w \in Workers, HandlerReturn(w) PROVE TypeOK'
  BY <1>4 DEF HandlerReturn, Verdict
<1>5. ASSUME NEW w \in Workers, MarkTerminal(w) PROVE TypeOK'
  <2>1. /\ status' \in [Jobs -> Statuses]
        /\ error' \in [Jobs -> Errors]
        /\ old' \in [Jobs -> BOOLEAN]
    <3>1. outcome[w].status \in Terminal /\ outcome[w].error \in Errors
      OBVIOUS
    <3>2. CASE Exists(cur[w])
      <4>1. /\ status' = [status EXCEPT ![cur[w]] = outcome[w].status]
            /\ error' = [error EXCEPT ![cur[w]] = outcome[w].error]
            /\ old' = [old EXCEPT ![cur[w]] = FALSE]
        BY <1>5, <3>2 DEF MarkTerminal, TerminalWrite
      <4> QED
        BY <3>1, <4>1
    <3>3. CASE ~Exists(cur[w])
      BY <1>5, <3>3 DEF MarkTerminal, TerminalWrite
    <3> QED
      BY <3>2, <3>3
  <2>2. pc' \in [Workers -> {"idle"} \cup Busy]
    BY <1>5 DEF MarkTerminal
  <2>3. UNCHANGED <<kind, cancelReq, cancelling, proc, boot, halts,
                    cur, seenCancel, outcome, starts>>
    BY <1>5 DEF MarkTerminal
  <2> QED
    BY <2>1, <2>2, <2>3
<1>6. ASSUME NEW w \in Workers, MarkTerminalLost(w) PROVE TypeOK'
  BY <1>6 DEF MarkTerminalLost
<1>7. ASSUME NEW w \in Workers, FinishJob(w) PROVE TypeOK'
  BY <1>7 DEF FinishJob, NoJob, NoOutcome
<1>8. ASSUME NEW w \in Workers, Beat(w) PROVE TypeOK'
  <2>1. cur[w] \in Jobs
    BY <1>8 DEF Beat, Ownership
  <2> QED
    BY <1>8, <2>1 DEF Beat
<1>9. ASSUME NEW j \in Jobs, RowStep(j) PROVE TypeOK'
  <2>1. CASE Enqueue(j)
    BY <2>1 DEF Enqueue
  <2>2. CASE CancelBegin(j)
    BY <2>2 DEF CancelBegin
  <2>3. CASE CancelCommit(j)
    BY <2>3 DEF CancelCommit
  <2>4. CASE DeleteSource(j)
    BY <2>4 DEF DeleteSource, DeleteRows
  <2>5. CASE HeartbeatAges(j)
    BY <2>5 DEF HeartbeatAges
  <2> QED
    BY <1>9, <2>1, <2>2, <2>3, <2>4, <2>5 DEF RowStep
<1>10. ASSUME NEW p \in Procs, ProcStep(p) PROVE TypeOK'
  <2>1. CASE PeriodicSweep(p)
    BY <2>1 DEF PeriodicSweep, SweepStaleJobs, Stale
  <2>2. CASE BootSweepStale(p)
    <3>1. boot' \in [Procs -> SUBSET BootTasks] /\ UNCHANGED <<proc, halts, workVars>>
      BY <2>2 DEF BootSweepStale
    <3>2. CASE Stale = {}
      BY <2>2, <3>1, <3>2 DEF BootSweepStale
    <3>3. CASE Stale # {}
      <4>1. /\ status' \in [Jobs -> Statuses]
            /\ error' \in [Jobs -> Errors]
            /\ old' \in [Jobs -> BOOLEAN]
        <5>1. SweepStaleJobs
          BY <2>2, <3>3 DEF BootSweepStale
        <5> QED
          BY <5>1 DEF SweepStaleJobs
      <4>2. UNCHANGED <<kind, cancelReq, cancelling>>
        BY <2>2, <3>3 DEF BootSweepStale, SweepStaleJobs
      <4> QED
        BY <3>1, <4>1, <4>2
    <3> QED
      BY <3>2, <3>3
  <2>3. CASE BootSweepOld(p)
    BY <2>3 DEF BootSweepOld, DeleteRows
  <2>4. CASE Shutdown(p)
    BY <2>4 DEF Shutdown
  <2>5. CASE Exit(p)
    <3>1. /\ proc' \in [Procs -> {"up", "draining", "down"}]
          /\ boot' \in [Procs -> SUBSET BootTasks]
          /\ halts' \in 0..MaxHalts
      BY <2>5 DEF Exit, Dies
    <3>2. /\ pc' \in [Workers -> {"idle"} \cup Busy]
          /\ cur' \in [Workers -> Jobs \cup {NoJob}]
          /\ seenCancel' \in [Workers -> BOOLEAN]
      BY <2>5 DEF Exit, Dies
    <3>3. outcome' \in [Workers -> [status : Terminal, error : Errors]]
      BY <2>5 DEF Exit, Dies, NoOutcome
    <3>4. UNCHANGED <<starts, rowVars>>
      BY <2>5 DEF Exit, Dies
    <3> QED
      BY <3>1, <3>2, <3>3, <3>4
  <2>6. CASE Crash(p)
    <3>1. /\ proc' \in [Procs -> {"up", "draining", "down"}]
          /\ boot' \in [Procs -> SUBSET BootTasks]
          /\ halts' \in 0..MaxHalts
      BY <2>6 DEF Crash, Dies
    <3>2. /\ pc' \in [Workers -> {"idle"} \cup Busy]
          /\ cur' \in [Workers -> Jobs \cup {NoJob}]
          /\ seenCancel' \in [Workers -> BOOLEAN]
      BY <2>6 DEF Crash, Dies
    <3>3. outcome' \in [Workers -> [status : Terminal, error : Errors]]
      BY <2>6 DEF Crash, Dies, NoOutcome
    <3>4. UNCHANGED <<starts, rowVars>>
      BY <2>6 DEF Crash, Dies
    <3> QED
      BY <3>1, <3>2, <3>3, <3>4
  <2>7. CASE Restart(p)
    BY <2>7 DEF Restart
  <2> QED
    BY <1>10, <2>1, <2>2, <2>3, <2>4, <2>5, <2>6, <2>7 DEF ProcStep
<1>11. CASE UNCHANGED vars
  BY <1>11 DEF vars
<1> QED
  BY <1>1, <1>2, <1>3, <1>3b, <1>4, <1>5, <1>6, <1>7, <1>8, <1>9, <1>10, <1>11
     DEF Next, WorkerStep

\* Every step keeps the ownership of running rows: only Claim enters runJob.
LEMMA NextOwnership == TypeOK /\ Ownership /\ [Next]_vars => Ownership'
<1> SUFFICES ASSUME TypeOK, Ownership, [Next]_vars PROVE Ownership'
  OBVIOUS
<1> USE ConstAssumption DEF TypeOK, Ownership, Busy, Terminal, Jobs,
        procVars, workVars, rowVars
<1>1. ASSUME NEW w \in Workers, Claim(w) PROVE Ownership'
  BY <1>1 DEF Claim, ClaimRow, Claimable
<1>2. ASSUME NEW w \in Workers, ClaimReplyLost(w) PROVE Ownership'
  BY <1>2 DEF ClaimReplyLost, ClaimRow, Claimable
<1>3. ASSUME NEW w \in Workers, Lookup(w) PROVE Ownership'
  BY <1>3 DEF Lookup
<1>4. ASSUME NEW w \in Workers, LookupFails(w) PROVE Ownership'
  BY <1>4 DEF LookupFails
<1>5. ASSUME NEW w \in Workers, HandlerReturn(w) PROVE Ownership'
  BY <1>5 DEF HandlerReturn, Verdict
<1>6. ASSUME NEW w \in Workers, MarkTerminal(w) PROVE Ownership'
  <2>1. cur[w] \in Jobs /\ outcome[w].status \in Terminal
    BY <1>6 DEF MarkTerminal
  <2>2. \A j \in Jobs : status'[j] = status[j] \/ status'[j] \in Terminal
    BY <1>6, <2>1 DEF MarkTerminal, TerminalWrite
  <2>3. /\ pc' = [pc EXCEPT ![w] = "flush"]
        /\ UNCHANGED <<cur, starts>>
    BY <1>6 DEF MarkTerminal
  <2>4. \A j \in Jobs : status'[j] \in {"none", "queued"} => status'[j] = status[j]
    BY <2>2
  <2>5. \A v \in Workers : pc'[v] \in Busy => pc[v] \in Busy
    BY <1>6, <2>3 DEF MarkTerminal
  <2>6. \A v \in Workers : pc'[v] = "lookup" => pc[v] = "lookup"
    BY <2>3
  <2> QED
    BY <2>3, <2>4, <2>5, <2>6
<1>7. ASSUME NEW w \in Workers, MarkTerminalLost(w) PROVE Ownership'
  BY <1>7 DEF MarkTerminalLost
<1>8. ASSUME NEW w \in Workers, FinishJob(w) PROVE Ownership'
  BY <1>8 DEF FinishJob, NoJob, NoOutcome
<1>9. ASSUME NEW w \in Workers, Beat(w) PROVE Ownership'
  BY <1>9 DEF Beat
<1>10. ASSUME NEW j \in Jobs, Enqueue(j) PROVE Ownership'
  BY <1>10 DEF Enqueue
<1>11. ASSUME NEW j \in Jobs, CancelBegin(j) PROVE Ownership'
  BY <1>11 DEF CancelBegin
<1>12. ASSUME NEW j \in Jobs, CancelCommit(j) PROVE Ownership'
  BY <1>12 DEF CancelCommit
<1>13. ASSUME NEW j \in Jobs, DeleteSource(j) PROVE Ownership'
  BY <1>13 DEF DeleteSource, DeleteRows, Exists
<1>14. ASSUME NEW j \in Jobs, HeartbeatAges(j) PROVE Ownership'
  BY <1>14 DEF HeartbeatAges, Tended
<1>15. ASSUME NEW p \in Procs, PeriodicSweep(p) PROVE Ownership'
  <2>1. \A j \in Jobs : status'[j] = status[j] \/ (status[j] = "running" /\ status'[j] = "failed")
    BY <1>15 DEF PeriodicSweep, SweepStaleJobs, Stale
  <2>2. UNCHANGED <<pc, cur, starts>>
    BY <1>15 DEF PeriodicSweep
  <2> QED
    BY ONLY <2>1, <2>2, TypeOK, Ownership, ConstAssumption DEF TypeOK, Ownership, Busy, Jobs
<1>16. ASSUME NEW p \in Procs, BootSweepStale(p) PROVE Ownership'
  <2>1. \A j \in Jobs : status'[j] = status[j] \/ (status[j] = "running" /\ status'[j] = "failed")
    BY <1>16 DEF BootSweepStale, SweepStaleJobs, Stale
  <2>2. UNCHANGED <<pc, cur, starts>>
    BY <1>16 DEF BootSweepStale
  <2> QED
    BY ONLY <2>1, <2>2, TypeOK, Ownership, ConstAssumption DEF TypeOK, Ownership, Busy, Jobs
<1>17. ASSUME NEW p \in Procs, BootSweepOld(p) PROVE Ownership'
  BY <1>17 DEF BootSweepOld, DeleteRows
<1>18. ASSUME NEW p \in Procs, Shutdown(p) PROVE Ownership'
  BY <1>18 DEF Shutdown
<1>19. ASSUME NEW p \in Procs, Exit(p) PROVE Ownership'
  BY <1>19 DEF Exit, Dies, NoJob, NoOutcome
<1>20. ASSUME NEW p \in Procs, Crash(p) PROVE Ownership'
  BY <1>20 DEF Crash, Dies, NoJob, NoOutcome
<1>21. ASSUME NEW p \in Procs, Restart(p) PROVE Ownership'
  BY <1>21 DEF Restart
<1>22. CASE UNCHANGED vars
  BY <1>22 DEF vars
<1> QED
  BY <1>1, <1>2, <1>3, <1>4, <1>5, <1>6, <1>7, <1>8, <1>9,
     <1>10, <1>11, <1>12, <1>13, <1>14, <1>15, <1>16, <1>17, <1>18,
     <1>19, <1>20, <1>21, <1>22
     DEF Next, WorkerStep, RowStep, ProcStep

\* A cancel a worker has observed, or is about to write, was requested for the
\* row it holds; the row may have been deleted since.
CancelInv ==
    /\ CancelledWasRequested
    /\ \A w \in Workers : pc[w] \in Busy /\ seenCancel[w]
          => cancelReq[cur[w]] \/ status[cur[w]] = "gone"
    /\ \A w \in Workers : pc[w] = "mark" /\ outcome[w].status = "cancelled"
          => cancelReq[cur[w]] \/ status[cur[w]] = "gone"

\* Every step keeps the link from a cancelled verdict back to the request.
LEMMA NextCancelInv == OwnInv /\ CancelInv /\ [Next]_vars => CancelInv'
<1> SUFFICES ASSUME OwnInv, CancelInv, [Next]_vars PROVE CancelInv'
  OBVIOUS
<1> USE ConstAssumption DEF OwnInv, TypeOK, Ownership, CancelInv, CancelledWasRequested,
        Busy, Terminal, procVars, workVars, rowVars
<1>1. ASSUME NEW w \in Workers, Claim(w) PROVE CancelInv'
  BY <1>1 DEF Claim, ClaimRow, Claimable
<1>2. ASSUME NEW w \in Workers, ClaimReplyLost(w) PROVE CancelInv'
  BY <1>2 DEF ClaimReplyLost, ClaimRow, Claimable
<1>3. ASSUME NEW w \in Workers, Lookup(w) PROVE CancelInv'
  BY <1>3 DEF Lookup
<1>4. ASSUME NEW w \in Workers, LookupFails(w) PROVE CancelInv'
  BY <1>4 DEF LookupFails
<1>5. ASSUME NEW w \in Workers, HandlerReturn(w) PROVE CancelInv'
  BY <1>5 DEF HandlerReturn, Verdict
<1>6. ASSUME NEW w \in Workers, MarkTerminal(w) PROVE CancelInv'
  BY <1>6 DEF MarkTerminal, TerminalWrite, Exists
<1>7. ASSUME NEW w \in Workers, MarkTerminalLost(w) PROVE CancelInv'
  BY <1>7 DEF MarkTerminalLost
<1>8. ASSUME NEW w \in Workers, FinishJob(w) PROVE CancelInv'
  BY <1>8 DEF FinishJob, NoJob, NoOutcome
<1>9. ASSUME NEW w \in Workers, Beat(w) PROVE CancelInv'
  BY <1>9 DEF Beat
<1>10. ASSUME NEW j \in Jobs, Enqueue(j) PROVE CancelInv'
  BY <1>10 DEF Enqueue
<1>11. ASSUME NEW j \in Jobs, CancelBegin(j) PROVE CancelInv'
  BY <1>11 DEF CancelBegin
<1>12. ASSUME NEW j \in Jobs, CancelCommit(j) PROVE CancelInv'
  BY <1>12 DEF CancelCommit
<1>13. ASSUME NEW j \in Jobs, DeleteSource(j) PROVE CancelInv'
  BY <1>13 DEF DeleteSource, DeleteRows, Exists
<1>14. ASSUME NEW j \in Jobs, HeartbeatAges(j) PROVE CancelInv'
  BY <1>14 DEF HeartbeatAges, Tended
<1>15. ASSUME NEW p \in Procs, PeriodicSweep(p) PROVE CancelInv'
  BY <1>15 DEF PeriodicSweep, SweepStaleJobs, Stale
<1>16. ASSUME NEW p \in Procs, BootSweepStale(p) PROVE CancelInv'
  BY <1>16 DEF BootSweepStale, SweepStaleJobs, Stale
<1>17. ASSUME NEW p \in Procs, BootSweepOld(p) PROVE CancelInv'
  BY <1>17 DEF BootSweepOld, DeleteRows
<1>18. ASSUME NEW p \in Procs, Shutdown(p) PROVE CancelInv'
  BY <1>18 DEF Shutdown
<1>19. ASSUME NEW p \in Procs, Exit(p) PROVE CancelInv'
  BY <1>19 DEF Exit, Dies, NoJob, NoOutcome
<1>20. ASSUME NEW p \in Procs, Crash(p) PROVE CancelInv'
  BY <1>20 DEF Crash, Dies, NoJob, NoOutcome
<1>21. ASSUME NEW p \in Procs, Restart(p) PROVE CancelInv'
  BY <1>21 DEF Restart
<1>22. CASE UNCHANGED vars
  BY <1>22 DEF vars
<1> QED
  BY <1>1, <1>2, <1>3, <1>4, <1>5, <1>6, <1>7, <1>8, <1>9,
     <1>10, <1>11, <1>12, <1>13, <1>14, <1>15, <1>16, <1>17, <1>18,
     <1>19, <1>20, <1>21, <1>22
     DEF Next, WorkerStep, RowStep, ProcStep

\* While beats are timely the row of a live worker is fresh, was not swept,
\* and until the worker marks it is running (or deleted).
TimelyInv ==
    /\ \A w \in Workers : proc[ProcOf[w]] = "down" => pc[w] = "idle"
    /\ \A w \in Workers : outcome[w].error # "worker_lost"
    /\ \A w \in Workers : pc[w] \in Busy /\ Up(w) =>
          /\ status[cur[w]] = "running" => ~old[cur[w]]
          /\ ~(status[cur[w]] = "failed" /\ error[cur[w]] = "worker_lost")
    /\ \A w \in Workers : pc[w] \in {"lookup", "handler", "mark"} /\ Up(w) =>
          status[cur[w]] \in {"running", "gone"}

\* With timely beats no step ages, and so no sweep fails, a tended row.
LEMMA NextTimelyInv ==
    ~BeatsMayStall /\ OwnInv /\ TimelyInv /\ [Next]_vars => TimelyInv'
<1> SUFFICES ASSUME ~BeatsMayStall, OwnInv, TimelyInv, [Next]_vars PROVE TimelyInv'
  OBVIOUS
<1> USE ConstAssumption DEF OwnInv, TypeOK, Ownership, TimelyInv, Up,
        Busy, Terminal, procVars, workVars, rowVars
<1>1. ASSUME NEW w \in Workers, Claim(w) PROVE TimelyInv'
  BY <1>1 DEF Claim, ClaimRow, Claimable
<1>2. ASSUME NEW w \in Workers, ClaimReplyLost(w) PROVE TimelyInv'
  BY <1>2 DEF ClaimReplyLost, ClaimRow, Claimable
<1>3. ASSUME NEW w \in Workers, Lookup(w) PROVE TimelyInv'
  BY <1>3 DEF Lookup
<1>4. ASSUME NEW w \in Workers, LookupFails(w) PROVE TimelyInv'
  BY <1>4 DEF LookupFails
<1>5. ASSUME NEW w \in Workers, HandlerReturn(w) PROVE TimelyInv'
  BY <1>5 DEF HandlerReturn, Verdict
<1>6. ASSUME NEW w \in Workers, MarkTerminal(w) PROVE TimelyInv'
  BY <1>6 DEF MarkTerminal, TerminalWrite, Exists
<1>7. ASSUME NEW w \in Workers, MarkTerminalLost(w) PROVE TimelyInv'
  BY <1>7 DEF MarkTerminalLost
<1>8. ASSUME NEW w \in Workers, FinishJob(w) PROVE TimelyInv'
  BY <1>8 DEF FinishJob, NoJob, NoOutcome
<1>9. ASSUME NEW w \in Workers, Beat(w) PROVE TimelyInv'
  BY <1>9 DEF Beat
<1>10. ASSUME NEW j \in Jobs, Enqueue(j) PROVE TimelyInv'
  BY <1>10 DEF Enqueue
<1>11. ASSUME NEW j \in Jobs, CancelBegin(j) PROVE TimelyInv'
  BY <1>11 DEF CancelBegin
<1>12. ASSUME NEW j \in Jobs, CancelCommit(j) PROVE TimelyInv'
  BY <1>12 DEF CancelCommit
<1>13. ASSUME NEW j \in Jobs, DeleteSource(j) PROVE TimelyInv'
  BY <1>13 DEF DeleteSource, DeleteRows, Exists
<1>14. ASSUME NEW j \in Jobs, HeartbeatAges(j) PROVE TimelyInv'
  BY <1>14 DEF HeartbeatAges, Tended
<1>15. ASSUME NEW p \in Procs, PeriodicSweep(p) PROVE TimelyInv'
  BY <1>15 DEF PeriodicSweep, SweepStaleJobs, Stale
<1>16. ASSUME NEW p \in Procs, BootSweepStale(p) PROVE TimelyInv'
  BY <1>16 DEF BootSweepStale, SweepStaleJobs, Stale
<1>17. ASSUME NEW p \in Procs, BootSweepOld(p) PROVE TimelyInv'
  BY <1>17 DEF BootSweepOld, DeleteRows
<1>18. ASSUME NEW p \in Procs, Shutdown(p) PROVE TimelyInv'
  BY <1>18 DEF Shutdown
<1>19. ASSUME NEW p \in Procs, Exit(p) PROVE TimelyInv'
  BY <1>19 DEF Exit, Dies, NoJob, NoOutcome
<1>20. ASSUME NEW p \in Procs, Crash(p) PROVE TimelyInv'
  BY <1>20 DEF Crash, Dies, NoJob, NoOutcome
<1>21. ASSUME NEW p \in Procs, Restart(p) PROVE TimelyInv'
  BY <1>21 DEF Restart
<1>22. CASE UNCHANGED vars
  BY <1>22 DEF vars
<1> QED
  BY <1>1, <1>2, <1>3, <1>4, <1>5, <1>6, <1>7, <1>8, <1>9,
     <1>10, <1>11, <1>12, <1>13, <1>14, <1>15, <1>16, <1>17, <1>18,
     <1>19, <1>20, <1>21, <1>22
     DEF Next, WorkerStep, RowStep, ProcStep

\* Type correctness and the ownership argument hold in every behaviour.
THEOREM OwnershipInvariant == Spec => []OwnInv
<1>1. OwnInv /\ [Next]_vars => OwnInv'
  BY NextTypeOK, NextOwnership DEF OwnInv
<1> QED
  BY InitOwnInv, <1>1, PTL DEF Spec

\* The type invariant of the queue (rows, workers and processes).
THEOREM TypeCorrect == Spec => []TypeOK
<1>1. OwnInv => TypeOK
  BY DEF OwnInv
<1> QED
  BY OwnershipInvariant, <1>1, PTL

\* For any pool size, number of replicas, crashes, lost replies and stalled
\* heartbeats: claimNext hands a job to one worker once, and runJob enters
\* its handler at most once.
THEOREM ExecutedAtMostOnce == Spec => []AtMostOneExecution
<1>1. OwnInv => AtMostOneExecution
  BY DEF OwnInv, Ownership, AtMostOneExecution
<1> QED
  BY OwnershipInvariant, <1>1, PTL

\* runJob writes 'cancelled' only to rows whose cancel was requested.
THEOREM CancelIsNeverInvented == Spec => []CancelledWasRequested
<1>1. Init => CancelInv
  BY DEF Init, CancelInv, CancelledWasRequested, Busy
<1>2. CancelInv => CancelledWasRequested
  BY DEF CancelInv
<1> QED
  BY OwnershipInvariant, NextCancelInv, <1>1, <1>2, PTL DEF Spec

\* With timely beats the invariant holds in every state.
LEMMA TimelyInvariant == ASSUME ~BeatsMayStall PROVE Spec => []TimelyInv
<1>1. Init => TimelyInv
  BY ConstAssumption DEF Init, TimelyInv, Busy, NoOutcome
<1>2. OwnInv /\ TimelyInv /\ [Next]_vars => TimelyInv'
  BY NextTimelyInv
<1> QED
  BY OwnershipInvariant, <1>1, <1>2, PTL DEF Spec

\* While beats are timely, the sweeper never fails a job a live worker runs.
THEOREM SweptJobsAreAbandoned ==
    ASSUME ~BeatsMayStall PROVE Spec => []LostMeansAbandoned
<1>1. TimelyInv => LostMeansAbandoned
  BY DEF TimelyInv, LostMeansAbandoned, Tended
<1> QED
  BY TimelyInvariant, <1>1, PTL

\* Every row keeps its status or takes an edge of the documented lifecycle.
RowMoves ==
    \A j \in Jobs : \/ status'[j] = status[j]
                    \/ <<status[j], status'[j]>> \in Lifecycle!Edges

\* Every step of the queue is a step of the lifecycle or leaves it alone.
LEMMA LifecycleStep ==
    ASSUME OwnInv, TimelyInv, [Next]_vars
    PROVE  [Lifecycle!Next]_status
<1> USE ConstAssumption DEF OwnInv, Ownership, Busy, Up, RowMoves, Lifecycle!Edges,
        Lifecycle!Statuses, Lifecycle!Terminal, Terminal, rowVars
<1>t. TypeOK /\ TypeOK'
  BY NextTypeOK
<1>s. status \in [Jobs -> Lifecycle!Statuses] /\ status' \in [Jobs -> Lifecycle!Statuses]
  BY <1>t DEF TypeOK, Statuses
<1>m. RowMoves => [Lifecycle!Next]_status
  BY <1>s DEF Lifecycle!Next
<1>1. ASSUME NEW w \in Workers, Claim(w) PROVE RowMoves
  BY <1>1, <1>s DEF Claim, ClaimRow, Claimable
<1>2. ASSUME NEW w \in Workers, ClaimReplyLost(w) PROVE RowMoves
  BY <1>2, <1>s DEF ClaimReplyLost, ClaimRow, Claimable
<1>3. ASSUME NEW w \in Workers, Lookup(w) PROVE RowMoves
  BY <1>3, <1>s DEF Lookup
<1>4. ASSUME NEW w \in Workers, LookupFails(w) PROVE RowMoves
  BY <1>4, <1>s DEF LookupFails
<1>5. ASSUME NEW w \in Workers, HandlerReturn(w) PROVE RowMoves
  BY <1>5, <1>s DEF HandlerReturn
<1>6. ASSUME NEW w \in Workers, MarkTerminal(w) PROVE RowMoves
  <2>1. cur[w] \in Jobs /\ outcome[w].status \in Terminal
    BY <1>6, <1>t DEF MarkTerminal, TypeOK
  <2>2. status[cur[w]] \in {"running", "gone"}
    BY <1>6 DEF MarkTerminal, TimelyInv
  <2>3. CASE Exists(cur[w])
    <3>1. status[cur[w]] = "running" /\ status' = [status EXCEPT ![cur[w]] = outcome[w].status]
      BY <1>6, <2>2, <2>3 DEF MarkTerminal, TerminalWrite, Exists
    <3> QED
      BY <1>s, <2>1, <3>1
  <2>4. CASE ~Exists(cur[w])
    BY <1>6, <2>4 DEF MarkTerminal, TerminalWrite
  <2> QED
    BY <2>3, <2>4
<1>7. ASSUME NEW w \in Workers, MarkTerminalLost(w) PROVE RowMoves
  BY <1>7, <1>s DEF MarkTerminalLost
<1>8. ASSUME NEW w \in Workers, FinishJob(w) PROVE RowMoves
  BY <1>8, <1>s DEF FinishJob
<1>9. ASSUME NEW w \in Workers, Beat(w) PROVE RowMoves
  BY <1>9, <1>s DEF Beat
<1>10. ASSUME NEW j \in Jobs, Enqueue(j) PROVE RowMoves
  BY <1>10, <1>s DEF Enqueue
<1>11. ASSUME NEW j \in Jobs, CancelBegin(j) PROVE RowMoves
  BY <1>11, <1>s DEF CancelBegin
<1>12. ASSUME NEW j \in Jobs, CancelCommit(j) PROVE RowMoves
  BY <1>12, <1>s DEF CancelCommit
<1>13. ASSUME NEW j \in Jobs, DeleteSource(j) PROVE RowMoves
  BY <1>13, <1>s DEF DeleteSource, DeleteRows, Exists
<1>14. ASSUME NEW j \in Jobs, HeartbeatAges(j) PROVE RowMoves
  BY <1>14, <1>s DEF HeartbeatAges
<1>15. ASSUME NEW p \in Procs, PeriodicSweep(p) PROVE RowMoves
  BY <1>15, <1>s DEF PeriodicSweep, SweepStaleJobs, Stale
<1>16. ASSUME NEW p \in Procs, BootSweepStale(p) PROVE RowMoves
  <2>1. CASE Stale = {}
    BY <1>16, <2>1 DEF BootSweepStale
  <2>2. CASE Stale # {}
    <3>1. SweepStaleJobs
      BY <1>16, <2>2 DEF BootSweepStale
    <3> QED
      BY <1>s, <3>1 DEF SweepStaleJobs, Stale
  <2> QED
    BY <2>1, <2>2
<1>17. ASSUME NEW p \in Procs, BootSweepOld(p) PROVE RowMoves
  BY <1>17, <1>s DEF BootSweepOld, DeleteRows
<1>18. ASSUME NEW p \in Procs, Shutdown(p) PROVE RowMoves
  BY <1>18, <1>s DEF Shutdown
<1>19. ASSUME NEW p \in Procs, Exit(p) PROVE RowMoves
  BY <1>19, <1>s DEF Exit, Dies
<1>20. ASSUME NEW p \in Procs, Crash(p) PROVE RowMoves
  BY <1>20, <1>s DEF Crash, Dies
<1>21. ASSUME NEW p \in Procs, Restart(p) PROVE RowMoves
  BY <1>21, <1>s DEF Restart
<1>22. CASE UNCHANGED vars
  BY <1>22 DEF vars
<1> QED
  BY <1>m, <1>1, <1>2, <1>3, <1>4, <1>5, <1>6, <1>7, <1>8, <1>9,
     <1>10, <1>11, <1>12, <1>13, <1>14, <1>15, <1>16, <1>17, <1>18,
     <1>19, <1>20, <1>21, <1>22
     DEF Next, WorkerStep, RowStep, ProcStep

\* While beats are timely, the queue implements the lifecycle the package
\* documents: a status moves only along its edges, and a terminal status is
\* never rewritten by markTerminal or by a sweep.
THEOREM QueueImplementsLifecycle ==
    ASSUME ~BeatsMayStall PROVE Spec => RefinesLifecycle
<1>1. Init => Lifecycle!Init
  BY DEF Init, Lifecycle!Init
<1>2. OwnInv /\ TimelyInv /\ [Next]_vars => [Lifecycle!Next]_status
  BY LifecycleStep
<1> QED
  BY OwnershipInvariant, TimelyInvariant, <1>1, <1>2, PTL
     DEF Spec, RefinesLifecycle, Lifecycle!Spec

\* "Terminal statuses are immutable" (handleJobCancel), while beats are timely.
THEOREM TerminalStatusesAreImmutable ==
    ASSUME ~BeatsMayStall PROVE Spec => TerminalImmutable
<1>1. OwnInv /\ OwnInv' /\ [Lifecycle!Next]_status =>
        [\A j \in Jobs : status[j] \in Terminal => status'[j] \in {status[j], "gone"}]_vars
  BY DEF OwnInv, TypeOK, Terminal, Statuses, vars, rowVars, Lifecycle!Next,
         Lifecycle!Edges, Lifecycle!Terminal, Lifecycle!Statuses
<1>2. OwnInv /\ TimelyInv /\ [Next]_vars => [Lifecycle!Next]_status
  BY LifecycleStep
<1> QED
  BY OwnershipInvariant, TimelyInvariant, <1>1, <1>2, PTL DEF Spec, TerminalImmutable
=============================================================================
