-------------------------- MODULE ProgressReporter --------------------------
(***************************************************************************)
(* The Reporter of one running ingest job (job/progress.go) and the order  *)
(* in which runJob (job/worker.go) ends it: handler goroutines record      *)
(* progress under the mutex, the flusher goroutine and the worker's final  *)
(* flush copy a snapshot under the mutex and write it to the row outside   *)
(* it, and markTerminal writes the status.                                 *)
(***************************************************************************)
EXTENDS Integers

CONSTANTS
    Phases,      \* phase names a handler reports
    FullPct,     \* stands for 100
    MaxUpdates   \* bound on the calls of Update

NoPhase == ""

\* What the instances assume of the constants.
ReporterAssumption ==
    /\ FullPct \in Nat
    /\ MaxUpdates \in Nat
    /\ NoPhase \notin Phases

NoFlight == [phase |-> NoPhase, pct |-> -1]

VARIABLES
    live,      \* Reporter.phase and Reporter.pct
    dirty,     \* Reporter.dirty
    flight,    \* the flusher's snapshot whose UPDATE is under way
    row,       \* ingest_job.phase and percent
    terminal,  \* the row has a terminal status
    job,       \* runJob: handler | mark | flush | done
    updates,   \* calls of Update so far
    seen       \* history: every state the Reporter was in

repVars == <<live, dirty, flight, row, terminal, job, updates, seen>>

RepInit ==
    /\ live = [phase |-> NoPhase, pct |-> 0]
    /\ dirty = FALSE
    /\ flight = NoFlight
    /\ row = [phase |-> NoPhase, pct |-> 0]
    /\ terminal = FALSE
    /\ job = "handler"
    /\ updates = 0
    /\ seen = {[phase |-> NoPhase, pct |-> 0]}

\* An empty phase and a negative percentage leave the field as it was; a
\* percentage above 100 is clamped.
Merge(old, phase, pct) ==
    [phase |-> IF phase # NoPhase THEN phase ELSE old.phase,
     pct   |-> IF pct < 0 THEN old.pct ELSE IF pct > FullPct THEN FullPct ELSE pct]

\* A handler goroutine calls rep.Update; both registered handlers name a
\* phase in their first call.
Update == \E phase \in Phases \cup {NoPhase}, pct \in -1..(FullPct + 1) :
    /\ job = "handler" /\ updates < MaxUpdates
    /\ live.phase = NoPhase => phase # NoPhase
    /\ live' = Merge(live, phase, pct)
    /\ dirty' = TRUE
    /\ updates' = updates + 1
    /\ seen' = seen \cup {live'}
    /\ UNCHANGED <<flight, row, terminal, job>>

\* runFlusher ticks: Flush copies the snapshot and clears dirty. The goroutine
\* is sequential, so the previous UPDATE has ended; its context ends with
\* runJob.
FlusherTick ==
    /\ dirty /\ flight = NoFlight /\ job # "done"
    /\ flight' = live
    /\ dirty' = FALSE
    /\ UNCHANGED <<live, row, terminal, job, updates, seen>>

\* Mutant: the phase is read after the mutex is released.
WrittenLate(snap) ==
    [phase |-> IF live.phase = NoPhase THEN row.phase ELSE live.phase, pct |-> snap.pct]

\* The row after a snapshot's UPDATE: COALESCE(NULLIF(phase, ''), phase).
Written(snap) ==
    [phase |-> IF snap.phase = NoPhase THEN row.phase ELSE snap.phase, pct |-> snap.pct]

\* The flusher's UPDATE is executed, be it after runJob returned.
FlightLands ==
    /\ flight # NoFlight
    /\ row' = Written(flight)
    /\ flight' = NoFlight
    /\ UNCHANGED <<live, dirty, terminal, job, updates, seen>>

\* ... or fails; the error is dropped and dirty stays cleared.
FlightLost ==
    /\ flight # NoFlight
    /\ flight' = NoFlight
    /\ UNCHANGED <<live, dirty, row, terminal, job, updates, seen>>

HandlerReturns ==
    /\ job = "handler"
    /\ job' = "mark"
    /\ UNCHANGED <<live, dirty, flight, row, terminal, updates, seen>>

\* markTerminal runs in the body of runJob ...
MarkTerminal ==
    /\ job = "mark"
    /\ terminal' = TRUE
    /\ job' = "flush"
    /\ UNCHANGED <<live, dirty, flight, row, updates, seen>>

\* ... and the final Flush in its first deferred function, so after it. The
\* write may fail (3 s timeout, cancelled context).
FinalFlush ==
    /\ job = "flush"
    /\ job' = "done"
    /\ dirty' = FALSE
    /\ row' \in {row, IF dirty THEN Written(live) ELSE row}
    /\ UNCHANGED <<live, flight, terminal, updates, seen>>

RepNext == \/ Update \/ FlusherTick \/ FlightLands \/ FlightLost
           \/ HandlerReturns \/ MarkTerminal \/ FinalFlush

RepSpec == RepInit /\ [][RepNext]_repVars
RepFairSpec == RepSpec /\ WF_repVars(FlightLands \/ FlightLost) /\ WF_repVars(HandlerReturns)
                       /\ WF_repVars(MarkTerminal) /\ WF_repVars(FinalFlush)

-----------------------------------------------------------------------------
Snapshots == [phase : Phases \cup {NoPhase}, pct : 0..FullPct]

\* Types; in particular the percentage the API serves stays within 0..100.
RepTypes ==
    /\ live \in Snapshots /\ row \in Snapshots
    /\ flight \in Snapshots \cup {NoFlight}
    /\ seen \subseteq Snapshots /\ live \in seen
    /\ dirty \in BOOLEAN /\ terminal \in BOOLEAN
    /\ job \in {"handler", "mark", "flush", "done"}
    /\ updates \in 0..MaxUpdates

\* Flush copies all fields under the mutex: what the row shows is a state the
\* Reporter was in as a whole, never the phase of one update and the
\* percentage of another.
RowIsOneSnapshot == row \in seen

\* What the API serves of a running job: bounded, and whole.
RowIsWhole == RepTypes /\ RowIsOneSnapshot

\* Every reported snapshot is eventually handed to the database: an Update
\* the flusher's tick misses is taken by the final flush.
UpdatesAreFlushed == dirty ~> ~dirty
=============================================================================
