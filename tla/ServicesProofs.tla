--------------------------- MODULE ServicesProofs ---------------------------
(***************************************************************************)
(* Proofs about the three components that MCServices checks: ProjectLock,   *)
(* for every number of importers, hashing of projects and pool size;        *)
(* ProgressReporter, for every number of updates; and PlanExecutor, for     *)
(* plans of any size over any values.                                       *)
(***************************************************************************)
EXTENDS ProjectLock, ProgressReporter, PlanExecutor, FiniteSetTheorems, TLAPS

-----------------------------------------------------------------------------
(* The project lock and the pool (ProjectLock) *)

\* The shapes of the variables; a statement that runs is one of those left.
Shape ==
    /\ pc \in [Importers -> {"idle", "conn", "lock", "want", "stmt", "done"}]
    /\ session \subseteq [key : {Key(i) : i \in Importers}, by : Importers]
    /\ left \in [Importers -> 0..MaxStatements]
    /\ other \in [Others -> {"idle", "conn", "stmt"}]
    /\ \A i \in Importers : pc[i] = "stmt" => left[i] > 0

Bounded == InUse <= PoolSize

\* A lock belongs to an import whose fn runs, under that import's key, and a
\* key is held once.
SessionInv ==
    /\ \A l \in session : l.by \in InFn /\ l.key = Key(l.by)
    /\ \A l, k \in session : l.key = k.key => l = k

\* Where the session cannot die, an import whose fn runs holds its lock.
FnHoldsLock == \A i \in InFn \ Mortal : \E l \in session : l.by = i

\* Every step of WithProjectLock and of the other callers keeps the shapes.
LEMMA NextShape ==
    ASSUME Shape, [Next]_vars
    PROVE  Shape'
<1> USE LockAssumption DEF Shape
<1>1. ASSUME NEW i \in Importers, Begin(i) PROVE Shape'
  BY <1>1 DEF Begin
<1>2. ASSUME NEW i \in Importers, TakeConn(i) PROVE Shape'
  BY <1>2 DEF TakeConn
<1>3. ASSUME NEW i \in Importers, GrantLock(i) PROVE Shape'
  <2>1. [key |-> Key(i), by |-> i] \in [key : {Key(k) : k \in Importers}, by : Importers]
    OBVIOUS
  <2> QED BY <1>3, <2>1 DEF GrantLock
<1>4. ASSUME NEW i \in Importers, FnTakesConn(i) PROVE Shape'
  BY <1>4 DEF FnTakesConn
<1>5. ASSUME NEW i \in Importers, FnStatementDone(i) PROVE Shape'
  <2>1. left[i] \in 1..MaxStatements
    BY <1>5 DEF FnStatementDone
  <2>2. PICK rest \in {left[i] - 1, 0} : left' = [left EXCEPT ![i] = rest]
    BY <1>5 DEF FnStatementDone
  <2>3. rest \in 0..MaxStatements
    BY <2>1
  <2> QED BY <1>5, <2>2, <2>3 DEF FnStatementDone
<1>6. ASSUME NEW i \in Importers, Unlock(i) PROVE Shape'
  BY <1>6 DEF Unlock
<1>7. ASSUME NEW i \in Importers, Cancelled(i) PROVE Shape'
  BY <1>7 DEF Cancelled
<1>8. ASSUME NEW i \in Importers, FnCancelled(i) PROVE Shape'
  BY <1>8 DEF FnCancelled
<1>9. ASSUME NEW i \in Importers, SessionDies(i) PROVE Shape'
  BY <1>9 DEF SessionDies
<1>10. ASSUME NEW o \in Others, OtherCalls(o) PROVE Shape'
  BY <1>10 DEF OtherCalls
<1>11. ASSUME NEW o \in Others, OtherTakesConn(o) PROVE Shape'
  BY <1>11 DEF OtherTakesConn
<1>12. ASSUME NEW o \in Others, OtherDone(o) PROVE Shape'
  BY <1>12 DEF OtherDone
<1>13. CASE UNCHANGED vars
  BY <1>13 DEF vars
<1> QED BY <1>1, <1>2, <1>3, <1>4, <1>5, <1>6, <1>7, <1>8, <1>9, <1>10, <1>11, <1>12, <1>13
        DEF Next, Import

\* The three sets of connection holders are finite, so InUse is a number.
LEMMA HoldersFinite ==
    /\ IsFiniteSet(Dedicated) /\ Cardinality(Dedicated) \in Nat
    /\ IsFiniteSet(InStatement) /\ Cardinality(InStatement) \in Nat
    /\ IsFiniteSet(OthersInStatement) /\ Cardinality(OthersInStatement) \in Nat
    /\ Cardinality(Dedicated) <= Cardinality(Importers)
    /\ Cardinality(Importers) \in Nat
<1>1. Dedicated \subseteq Importers /\ InStatement \subseteq Importers
  BY DEF Dedicated, InStatement
<1>2. OthersInStatement \subseteq Others
  BY DEF OthersInStatement
<1>3. IsFiniteSet(Importers) /\ IsFiniteSet(Others)
  BY LockAssumption
<1> QED BY <1>1, <1>2, <1>3, FS_Subset, FS_CardinalityType

\* A step that adds nothing to any of the three sets opens no connection.
LEMMA NoMoreConns ==
    ASSUME Dedicated' \subseteq Dedicated, InStatement' \subseteq InStatement,
           OthersInStatement' \subseteq OthersInStatement, Bounded
    PROVE  Bounded'
<1>1. /\ Cardinality(Dedicated') \in Nat /\ Cardinality(Dedicated') <= Cardinality(Dedicated)
      /\ Cardinality(InStatement') \in Nat /\ Cardinality(InStatement') <= Cardinality(InStatement)
      /\ Cardinality(OthersInStatement') \in Nat
      /\ Cardinality(OthersInStatement') <= Cardinality(OthersInStatement)
  BY HoldersFinite, FS_Subset, FS_CardinalityType
<1> QED BY <1>1, HoldersFinite, LockAssumption DEF Bounded, InUse

\* At most PoolSize connections are ever in use: the pool's limit is tested
\* wherever a connection is handed out.
LEMMA NextBounded ==
    ASSUME Shape, Bounded, [Next]_vars
    PROVE  Bounded'
<1> DEFINE Quiet == /\ Dedicated' \subseteq Dedicated
                    /\ InStatement' \subseteq InStatement
                    /\ OthersInStatement' \subseteq OthersInStatement
<1> USE LockAssumption DEF Shape
<1>1. ASSUME NEW i \in Importers, Begin(i) PROVE Quiet
  BY <1>1 DEF Begin, Dedicated, InStatement, OthersInStatement
<1>2. ASSUME NEW i \in Importers, TakeConn(i) PROVE Bounded'
  <2>1. Dedicated' = Dedicated \cup {i} /\ i \notin Dedicated
    BY <1>2 DEF TakeConn, Dedicated
  <2>2. InStatement' = InStatement /\ OthersInStatement' = OthersInStatement
    BY <1>2 DEF TakeConn, InStatement, OthersInStatement
  <2>3. Cardinality(Dedicated') = Cardinality(Dedicated) + 1
    BY <2>1, HoldersFinite, FS_AddElement
  <2>4. InUse < PoolSize
    BY <1>2 DEF TakeConn, ConnFree
  <2> QED BY <2>2, <2>3, <2>4, HoldersFinite DEF InUse, Bounded
<1>3. ASSUME NEW i \in Importers, GrantLock(i) PROVE Quiet
  BY <1>3 DEF GrantLock, Dedicated, InStatement, OthersInStatement
<1>4. ASSUME NEW i \in Importers, FnTakesConn(i) PROVE Bounded'
  <2>1. InStatement' = InStatement \cup {i} /\ i \notin InStatement
    BY <1>4 DEF FnTakesConn, InStatement
  <2>2. Dedicated' = Dedicated /\ OthersInStatement' = OthersInStatement
    BY <1>4 DEF FnTakesConn, Dedicated, OthersInStatement
  <2>3. Cardinality(InStatement') = Cardinality(InStatement) + 1
    BY <2>1, HoldersFinite, FS_AddElement
  <2>4. InUse < PoolSize
    BY <1>4 DEF FnTakesConn, ConnFree
  <2> QED BY <2>2, <2>3, <2>4, HoldersFinite DEF InUse, Bounded
<1>5. ASSUME NEW i \in Importers, FnStatementDone(i) PROVE Quiet
  BY <1>5 DEF FnStatementDone, Dedicated, InStatement, OthersInStatement
<1>6. ASSUME NEW i \in Importers, Unlock(i) PROVE Quiet
  BY <1>6 DEF Unlock, Dedicated, InStatement, OthersInStatement
<1>7. ASSUME NEW i \in Importers, Cancelled(i) PROVE Quiet
  BY <1>7 DEF Cancelled, Dedicated, InStatement, OthersInStatement
<1>8. ASSUME NEW i \in Importers, FnCancelled(i) PROVE Quiet
  BY <1>8 DEF FnCancelled, Dedicated, InStatement, OthersInStatement
<1>9. ASSUME NEW i \in Importers, SessionDies(i) PROVE Quiet
  BY <1>9 DEF SessionDies, Dedicated, InStatement, OthersInStatement
<1>10. ASSUME NEW o \in Others, OtherCalls(o) PROVE Quiet
  BY <1>10 DEF OtherCalls, Dedicated, InStatement, OthersInStatement
<1>11. ASSUME NEW o \in Others, OtherTakesConn(o) PROVE Bounded'
  <2>1. OthersInStatement' = OthersInStatement \cup {o} /\ o \notin OthersInStatement
    BY <1>11 DEF OtherTakesConn, OthersInStatement
  <2>2. Dedicated' = Dedicated /\ InStatement' = InStatement
    BY <1>11 DEF OtherTakesConn, Dedicated, InStatement
  <2>3. Cardinality(OthersInStatement') = Cardinality(OthersInStatement) + 1
    BY <2>1, HoldersFinite, FS_AddElement
  <2>4. InUse < PoolSize
    BY <1>11 DEF OtherTakesConn, ConnFree
  <2> QED BY <2>2, <2>3, <2>4, HoldersFinite DEF InUse, Bounded
<1>12. ASSUME NEW o \in Others, OtherDone(o) PROVE Quiet
  BY <1>12 DEF OtherDone, Dedicated, InStatement, OthersInStatement
<1>13. CASE UNCHANGED vars
  <2>1. Quiet
    BY <1>13 DEF vars, Dedicated, InStatement, OthersInStatement
  <2> QED BY <2>1, NoMoreConns
<1>14. Quiet => Bounded'
  BY NoMoreConns
<1> QED BY <1>1, <1>2, <1>3, <1>4, <1>5, <1>6, <1>7, <1>8, <1>9, <1>10, <1>11, <1>12, <1>13, <1>14
        DEF Next, Import

\* The type invariant of the lock and of the pool, whose last conjunct is the
\* connection limit of TunePool.
THEOREM PoolIsBounded == Spec => []TypeOK
<1>1. Init => Shape /\ Bounded
  <2> SUFFICES ASSUME Init PROVE Shape /\ Bounded
    OBVIOUS
  <2>1. Shape
    BY LockAssumption DEF Init, Shape
  <2>2. Dedicated = {} /\ InStatement = {} /\ OthersInStatement = {}
    BY DEF Init, Dedicated, InStatement, OthersInStatement
  <2>3. InUse = 0
    BY <2>2, FS_EmptySet DEF InUse
  <2> QED BY <2>1, <2>3, LockAssumption DEF Bounded
<1>2. Shape /\ Bounded /\ [Next]_vars => Shape' /\ Bounded'
  BY NextShape, NextBounded
<1>3. Shape /\ Bounded => TypeOK
  BY DEF Shape, Bounded, TypeOK
<1> QED BY <1>1, <1>2, <1>3, PTL DEF Spec

\* What the server holds follows the imports' fn, whether or not sessions die.
LEMMA NextSessionInv ==
    ASSUME Shape, SessionInv, [Next]_vars
    PROVE  SessionInv'
<1> USE LockAssumption DEF Shape, SessionInv, InFn
<1>1. ASSUME NEW i \in Importers, Begin(i) PROVE SessionInv'
  BY <1>1 DEF Begin
<1>2. ASSUME NEW i \in Importers, TakeConn(i) PROVE SessionInv'
  BY <1>2 DEF TakeConn
<1>3. ASSUME NEW i \in Importers, GrantLock(i) PROVE SessionInv'
  BY <1>3 DEF GrantLock, LockFree
<1>4. ASSUME NEW i \in Importers, FnTakesConn(i) PROVE SessionInv'
  BY <1>4 DEF FnTakesConn
<1>5. ASSUME NEW i \in Importers, FnStatementDone(i) PROVE SessionInv'
  BY <1>5 DEF FnStatementDone
<1>6. ASSUME NEW i \in Importers, Unlock(i) PROVE SessionInv'
  BY <1>6 DEF Unlock
<1>7. ASSUME NEW i \in Importers, Cancelled(i) PROVE SessionInv'
  BY <1>7 DEF Cancelled
<1>8. ASSUME NEW i \in Importers, FnCancelled(i) PROVE SessionInv'
  BY <1>8 DEF FnCancelled
<1>9. ASSUME NEW i \in Importers, SessionDies(i) PROVE SessionInv'
  BY <1>9 DEF SessionDies
<1>10. ASSUME NEW o \in Others, OtherCalls(o) \/ OtherTakesConn(o) \/ OtherDone(o)
       PROVE  SessionInv'
  BY <1>10 DEF OtherCalls, OtherTakesConn, OtherDone
<1>11. CASE UNCHANGED vars
  BY <1>11 DEF vars
<1> QED BY <1>1, <1>2, <1>3, <1>4, <1>5, <1>6, <1>7, <1>8, <1>9, <1>10, <1>11 DEF Next, Import

\* No advisory lock outlives the fn it was taken for, sessions dying or not.
THEOREM LocksNeverLeak == Spec => []NoLeakedLock
<1>1. Init => Shape /\ SessionInv
  BY LockAssumption DEF Init, Shape, SessionInv, InFn
<1>2. Shape /\ SessionInv /\ [Next]_vars => Shape' /\ SessionInv'
  BY NextShape, NextSessionInv
<1>3. SessionInv => NoLeakedLock
  BY DEF SessionInv, NoLeakedLock
<1> QED BY <1>1, <1>2, <1>3, PTL DEF Spec

\* Whatever imports and other callers do, connections stay within the pool and no lock
\* outlives its import (WithProjectLock, poolMaxOpenConns).
THEOREM PoolIsNeverLost == Spec => []PoolIsKept
BY PoolIsBounded, LocksNeverLeak, PTL DEF PoolIsKept

\* Where sessions do not die, fn runs only with its lock held.
LEMMA NextFnHoldsLock ==
    ASSUME Shape, FnHoldsLock, [Next]_vars
    PROVE  FnHoldsLock'
<1> USE LockAssumption DEF Shape, FnHoldsLock, InFn
<1>1. ASSUME NEW i \in Importers, Begin(i) PROVE FnHoldsLock'
  BY <1>1 DEF Begin
<1>2. ASSUME NEW i \in Importers, TakeConn(i) PROVE FnHoldsLock'
  BY <1>2 DEF TakeConn
<1>3. ASSUME NEW i \in Importers, GrantLock(i) PROVE FnHoldsLock'
  <2>1. [key |-> Key(i), by |-> i] \in session'
    BY <1>3 DEF GrantLock
  <2>2. [key |-> Key(i), by |-> i].by = i
    OBVIOUS
  <2> QED BY <1>3, <2>1, <2>2 DEF GrantLock
<1>4. ASSUME NEW i \in Importers, FnTakesConn(i) PROVE FnHoldsLock'
  BY <1>4 DEF FnTakesConn
<1>5. ASSUME NEW i \in Importers, FnStatementDone(i) PROVE FnHoldsLock'
  BY <1>5 DEF FnStatementDone
<1>6. ASSUME NEW i \in Importers, Unlock(i) PROVE FnHoldsLock'
  BY <1>6 DEF Unlock
<1>7. ASSUME NEW i \in Importers, Cancelled(i) PROVE FnHoldsLock'
  BY <1>7 DEF Cancelled
<1>8. ASSUME NEW i \in Importers, FnCancelled(i) PROVE FnHoldsLock'
  BY <1>8 DEF FnCancelled
<1>9. ASSUME NEW i \in Importers, SessionDies(i) PROVE FnHoldsLock'
  BY <1>9 DEF SessionDies
<1>10. ASSUME NEW o \in Others, OtherCalls(o) \/ OtherTakesConn(o) \/ OtherDone(o)
       PROVE  FnHoldsLock'
  BY <1>10 DEF OtherCalls, OtherTakesConn, OtherDone
<1>11. CASE UNCHANGED vars
  BY <1>11 DEF vars
<1> QED BY <1>1, <1>2, <1>3, <1>4, <1>5, <1>6, <1>7, <1>8, <1>9, <1>10, <1>11 DEF Next, Import

\* Two imports into one project never run their fn at once, also when the
\* keys of different projects collide and sessions of other imports die.
THEOREM ImportsExcludeEachOther == Spec => []MutualExclusion
<1>1. Init => Shape /\ SessionInv /\ FnHoldsLock
  BY LockAssumption DEF Init, Shape, SessionInv, FnHoldsLock, InFn
<1>2. Shape /\ SessionInv /\ FnHoldsLock /\ [Next]_vars => Shape' /\ SessionInv' /\ FnHoldsLock'
  BY NextShape, NextSessionInv, NextFnHoldsLock
<1>3. Shape /\ SessionInv /\ FnHoldsLock => MutualExclusion
  <2> SUFFICES ASSUME SessionInv, FnHoldsLock, NEW i \in InFn \ Mortal,
                      NEW k \in InFn \ Mortal,
                      Project[i] = Project[k]
               PROVE  i = k
    BY DEF MutualExclusion
  <2>1. PICK l \in session : l.by = i
    BY DEF FnHoldsLock
  <2>2. PICK m \in session : m.by = k
    BY DEF FnHoldsLock
  <2>3. l.key = m.key
    BY <2>1, <2>2 DEF SessionInv, Key
  <2> QED BY <2>1, <2>2, <2>3 DEF SessionInv
<1> QED BY <1>1, <1>2, <1>3, PTL DEF Spec

-----------------------------------------------------------------------------
(* The progress reporter of one job (ProgressReporter) *)

\* Flush writes a NULL for an empty phase, so that a snapshot without a phase would
\* be mixed with the row's: what is dirty or under way names one, since a handler's
\* first Update does.
WholeSnapshots ==
    /\ RepTypes /\ RowIsOneSnapshot
    /\ dirty => live.phase # NoPhase
    /\ flight # NoFlight => flight \in seen /\ flight.phase # NoPhase

LEMMA ReporterStep ==
    ASSUME ReporterAssumption
    PROVE  WholeSnapshots /\ [RepNext]_repVars => WholeSnapshots'
<1> SUFFICES ASSUME WholeSnapshots, [RepNext]_repVars PROVE WholeSnapshots'
  OBVIOUS
<1> USE DEF ReporterAssumption, WholeSnapshots, RepTypes, RowIsOneSnapshot,
            Snapshots, NoFlight
\* A snapshot that names its phase is written whole.
<1>1. ASSUME NEW snap \in Snapshots, snap.phase # NoPhase
      PROVE  Written(snap) = snap
  BY <1>1 DEF Written
<1>2. ASSUME NEW name \in Phases \cup {NoPhase}, NEW pct \in -1..(FullPct + 1)
      PROVE  /\ Merge(live, name, pct) \in Snapshots
             /\ (live.phase = NoPhase => name # NoPhase) => Merge(live, name, pct).phase # NoPhase
  BY <1>2 DEF Merge
<1>3. CASE Update
  <2>1. PICK name \in Phases \cup {NoPhase}, pct \in -1..(FullPct + 1) :
              /\ updates < MaxUpdates /\ (live.phase = NoPhase => name # NoPhase)
              /\ live' = Merge(live, name, pct)
              /\ dirty' = TRUE /\ updates' = updates + 1 /\ seen' = seen \cup {live'}
              /\ UNCHANGED <<flight, row, terminal, job>>
    BY <1>3 DEF Update
  <2>2. live' \in Snapshots /\ live'.phase # NoPhase
    BY <1>2, <2>1
  <2> QED BY <2>1, <2>2
<1>4. CASE FlusherTick
  BY <1>4 DEF FlusherTick
<1>5. CASE FlightLands
  <2>1. row' = flight /\ flight \in seen
    BY <1>1, <1>5 DEF FlightLands
  <2> QED BY <1>5, <2>1 DEF FlightLands
<1>6. CASE FlightLost
  BY <1>6 DEF FlightLost
<1>7. CASE HandlerReturns
  BY <1>7 DEF HandlerReturns
<1>8. CASE MarkTerminal
  BY <1>8 DEF MarkTerminal
<1>9. CASE FinalFlush
  <2>1. row' \in {row, live}
    BY <1>1, <1>9 DEF FinalFlush
  <2> QED BY <1>9, <2>1 DEF FinalFlush
<1>10. CASE UNCHANGED repVars
  BY <1>10 DEF repVars
<1> QED BY <1>3, <1>4, <1>5, <1>6, <1>7, <1>8, <1>9, <1>10 DEF RepNext

\* Flush copies all fields under the mutex and writes them later: the row always
\* shows one state the Reporter was in as a whole, with a percentage within 0..100,
\* though writes land after runJob returned, or never (progress.go).
THEOREM RowsShowWholeSnapshots ==
    ASSUME ReporterAssumption
    PROVE  RepSpec => []RowIsWhole
<1>1. RepInit => WholeSnapshots
  <2> SUFFICES ASSUME RepInit PROVE WholeSnapshots
    OBVIOUS
  <2>1. live \in Snapshots /\ row = live /\ seen = {live}
    BY DEF ReporterAssumption, RepInit, Snapshots
  <2>2. ~dirty /\ dirty \in BOOLEAN /\ terminal \in BOOLEAN /\ flight = NoFlight
    BY DEF RepInit
  <2>3. job = "handler" /\ updates \in 0..MaxUpdates
    BY DEF ReporterAssumption, RepInit
  <2> QED BY <2>1, <2>2, <2>3 DEF WholeSnapshots, RepTypes, RowIsOneSnapshot
<1>2. WholeSnapshots => RowIsWhole
  BY DEF WholeSnapshots, RowIsWhole
<1> QED BY <1>1, <1>2, ReporterStep, PTL DEF RepSpec

-----------------------------------------------------------------------------
(* The plan executor (PlanExecutor) *)

Idle(s) == at[s] = "idle"
Done(s) == at[s] = "done"
Failed(s) == trace[s] = "failed"
InFlight(s) == at[s] \in {"bind", "query"}
Valid == phase # "parse" /\ outcome.status # "rejected" => ParsePlan(plan)

\* Execute's loop: a step is idle until its layer starts, between layers no
\* goroutine runs, and what was answered is what the last layer left.
LoopOK ==
    /\ Valid
    /\ phase = "parse" => todo = Steps
    /\ \A s \in Steps : s \in todo <=> Idle(s)
    /\ phase # "run" => \A s \in Steps : Idle(s) \/ Done(s)
    /\ outcome.status # "none" => phase = "done"
    /\ outcome.status = "ok" =>
         /\ todo = {} /\ layerErr = NoStep
         /\ plan.output \in DOMAIN stepResults => outcome.rows = stepResults[plan.output]
    /\ outcome.status = "failed" => layerErr # NoStep

\* The trace of a step is pending until its goroutine ends, and layerErr says
\* whether one has failed.
TraceOK ==
    /\ \A s \in Steps : trace[s] = "pending" <=> ~Done(s)
    /\ \A s \in Steps : Failed(s) => layerErr # NoStep
    /\ layerErr # NoStep => Failed(layerErr)
    /\ phase \in {"parse", "layer"} => layerErr = NoStep

\* A step's layer starts when the steps it refers to have ended without a failure.
LayersOK ==
    \A s \in Steps : ~Idle(s) =>
        \A d \in stepDependencies(plan, s) : d \in Steps /\ Done(d) /\ ~Failed(d)

\* stepResults and empty hold what the trace says of the steps that ended.
StoredOK ==
    /\ \A s \in Steps : s \in DOMAIN stepResults <=> Done(s) /\ ~Failed(s)
    /\ \A s \in Steps : s \in empty <=> trace[s] \in {"empty", "empty_upstream"}
    /\ \A s \in empty : stepResults[s] = {}

\* The copy a goroutine works on shows the final rows of what its step refers to.
CopiesOK ==
    \A s \in Steps : InFlight(s) => \A d \in stepDependencies(plan, s) :
        /\ d \in DOMAIN snapshot[s] /\ snapshot[s][d] = stepResults[d]

BoundOK ==
    \A s \in Steps : at[s] = "query" =>
        ~SubstituteError(s, snapshot[s]) /\ ~SubstituteEmpty(s, snapshot[s])

\* The rows a step has are those its filters let pass, given the rows its
\* references have; an empty step has a reference without values.
RowsOK ==
    \A s \in Steps :
        /\ trace[s] = "success" /\ ~truncated => stepResults[s] = QueryRows(s, stepResults)
        /\ s \in empty => \E f \in StepRefs(s) : ColumnValues(stepResults[f.head]) = {}

\* The layers so far can be given a meaning: the plan is being solved.
SolvedOK ==
    ParsePlan(plan) => \E m \in [Steps -> Rows] : \A s \in Steps \ todo : m[s] = QueryRows(s, m)

ExecInv == /\ PlanTypes /\ LoopOK /\ TraceOK /\ LayersOK /\ StoredOK /\ CopiesOK /\ BoundOK
           /\ RowsOK /\ SolvedOK

-----------------------------------------------------------------------------
(* What a step's rows depend on *)

\* A filter that is not about a parameter refers to a step the graph knows.
LEMMA RefsAreDependencies ==
    ASSUME NEW s \in Steps, NEW f \in StepRefs(s)
    PROVE  f.head \in stepDependencies(plan, s)
BY DEF StepRefs, stepDependencies

\* A query sees of the other steps only the rows of those it refers to.
LEMMA RowsDependOnReferences ==
    ASSUME NEW s \in Steps, NEW m, NEW n,
           \A d \in stepDependencies(plan, s) : m[d] = n[d]
    PROVE  QueryRows(s, m) = QueryRows(s, n)
<1>1. ASSUME NEW f \in StepRefs(s) PROVE m[f.head] = n[f.head]
  BY RefsAreDependencies
<1>2. ASSUME NEW f \in StepRefs(s), NEW v PROVE Passes(v, f, m) <=> Passes(v, f, n)
  BY <1>1 DEF Passes
<1> QED BY <1>2 DEF QueryRows

LEMMA QueryRowsType == ASSUME PlanTypes, NEW s \in Steps, NEW m PROVE QueryRows(s, m) \in Rows
BY DEF PlanTypes, Rows, QueryRows

\* An 'in' or '=' over a reference without values lets no row pass.
LEMMA NothingPasses ==
    ASSUME NEW s \in Steps, NEW m, NEW f \in StepRefs(s), f.op # "not in",
           ColumnValues(m[f.head]) = {}
    PROVE  QueryRows(s, m) = {}
BY DEF QueryRows, Passes

\* What ParsePlan promises of the graph.
LEMMA ValidGraph ==
    ASSUME ParsePlan(plan)
    PROVE  /\ plan.output \in Steps
           /\ \A s \in Steps : stepDependencies(plan, s) \subseteq Steps \ {s}
           /\ \A S \in (SUBSET Steps) \ {{}} : \E s \in S : stepDependencies(plan, s) \cap S = {}
<1>1. ASSUME NEW s \in Steps PROVE stepDependencies(plan, s) \subseteq Steps \ {s}
  BY DEF ParsePlan, stepDependencies
<1> QED BY <1>1 DEF ParsePlan, Cyclic

\* Store keeps the other results.
LEMMA StoreResult ==
    ASSUME stepResults \in Results, NEW s \in Steps, NEW rows \in Rows
    PROVE  /\ Store(s, rows) \in Results
           /\ DOMAIN Store(s, rows) = DOMAIN stepResults \cup {s}
           /\ Store(s, rows)[s] = rows
           /\ \A d \in DOMAIN stepResults : d # s => Store(s, rows)[d] = stepResults[d]
<1>1. PICK S \in SUBSET Steps : stepResults \in [S -> Rows]
  BY DEF Results
<1>2. Store(s, rows) \in [{s} \cup S -> Rows]
  BY <1>1 DEF Store
<1>3. {s} \cup S \in SUBSET Steps
  BY <1>1
<1> QED BY <1>1, <1>2, <1>3 DEF Store, Results

-----------------------------------------------------------------------------
(* Execute starts *)

LEMMA ExecInit == ASSUME PlanConstants, PlanInit PROVE ExecInv
<1> USE DEF Idle, Done, Failed, InFlight
<1>1. <<>> \in Results /\ {} \in Rows /\ DOMAIN <<>> = {}
  <2>1. DOMAIN <<>> = {} /\ {} \in Rows
    BY DEF Rows
  <2>2. <<>> \in [{} -> Rows]
    BY <2>1
  <2> QED BY <2>1, <2>2 DEF Results
<1>2. PlanTypes
  BY <1>1 DEF PlanInit, PlanTypes, Ended
<1>3. SolvedOK
  <2>1. [s \in Steps |-> {}] \in [Steps -> Rows]
    BY <1>1
  <2>2. Steps \ todo = {}
    BY DEF PlanInit
  <2> QED BY <2>1, <2>2 DEF SolvedOK
<1>4. /\ phase = "parse" /\ todo = Steps /\ empty = {} /\ DOMAIN stepResults = {}
      /\ layerErr = NoStep /\ outcome.status = "none"
      /\ \A s \in Steps : at[s] = "idle" /\ trace[s] = "pending"
  BY <1>1 DEF PlanInit
<1>5. LoopOK
  BY <1>4 DEF LoopOK, Valid
<1>6. TraceOK
  BY <1>4 DEF TraceOK
<1>7. LayersOK /\ CopiesOK /\ BoundOK
  BY <1>4 DEF LayersOK, CopiesOK, BoundOK
<1>8. StoredOK
  BY <1>4 DEF StoredOK
<1>9. RowsOK
  BY <1>4 DEF RowsOK
<1> QED BY <1>2, <1>3, <1>5, <1>6, <1>7, <1>8, <1>9 DEF ExecInv

-----------------------------------------------------------------------------
(* A goroutine ends *)

\* The end of runStep, whatever the step came to: Settle under the mutex.
Ends(s, status, rows) ==
    /\ Settle(s, status)
    /\ stepResults' = IF status = "failed" THEN stepResults ELSE Store(s, rows)
    /\ empty' = IF status \in {"empty", "empty_upstream"} THEN empty \cup {s} ELSE empty
    /\ truncated' \in BOOLEAN /\ (truncated => truncated')
    /\ UNCHANGED <<plan, bound, base, phase, todo, snapshot, outcome>>

\* What the step came to follows from the rows its references have.
Earned(s, status, rows) ==
    /\ status \in {"success", "empty", "empty_upstream", "failed"} /\ rows \in Rows
    /\ status \in {"empty", "empty_upstream"} =>
         rows = {} /\ \E f \in StepRefs(s) : ColumnValues(stepResults[f.head]) = {}
    /\ status = "success" /\ ~truncated' => rows = QueryRows(s, stepResults)

LEMMA SolvedStays ==
    ASSUME SolvedOK, UNCHANGED <<plan, base, todo>>
    PROVE  SolvedOK'
<1>1. SUFFICES ASSUME ParsePlan(plan)
               PROVE  (\E m \in [Steps -> Rows] : \A s \in Steps \ todo : m[s] = QueryRows(s, m))'
  BY DEF SolvedOK, ParsePlan, Cyclic, stepDependencies
<1>2. PICK m \in [Steps -> Rows] : \A s \in Steps \ todo : m[s] = QueryRows(s, m)
  BY <1>1 DEF SolvedOK
<1>3. \A s \in Steps : QueryRows(s, m)' = QueryRows(s, m)
  BY DEF QueryRows, StepRefs, Passes, ColumnValues
<1> QED BY <1>2, <1>3

LEMMA StepEnds ==
    ASSUME PlanConstants, ExecInv, NEW s \in Steps, ~Idle(s), ~Done(s),
           NEW status, NEW rows, Ends(s, status, rows), Earned(s, status, rows)
    PROVE  ExecInv'
<1> USE DEF Idle, Done, Failed, InFlight
<1>1. /\ UNCHANGED <<plan, bound, base, phase, todo, snapshot, outcome>>
      /\ at' = [at EXCEPT ![s] = "done"] /\ trace' = [trace EXCEPT ![s] = status]
      /\ layerErr' = IF status = "failed" /\ layerErr = NoStep THEN s ELSE layerErr
  BY DEF Ends, Settle
<1>2. /\ at'[s] = "done" /\ trace'[s] = status
      /\ \A t \in Steps : t # s => at'[t] = at[t] /\ trace'[t] = trace[t]
      /\ NoStep \notin Steps
  BY <1>1 DEF ExecInv, PlanTypes, PlanConstants
<1>3. phase = "run" /\ outcome.status = "none" /\ s \notin todo /\ trace[s] = "pending"
  <2>1. phase = "run" /\ s \notin todo /\ trace[s] = "pending"
    BY DEF ExecInv, LoopOK, TraceOK
  <2>2. outcome.status = "none"
    BY <2>1 DEF ExecInv, LoopOK
  <2> QED BY <2>1, <2>2
<1>4. s \notin DOMAIN stepResults /\ s \notin empty
  BY <1>3 DEF ExecInv, StoredOK
<1>5. /\ stepResults' \in Results
      /\ DOMAIN stepResults' = IF status = "failed" THEN DOMAIN stepResults ELSE DOMAIN stepResults \cup {s}
      /\ status # "failed" => stepResults'[s] = rows
      /\ \A d \in DOMAIN stepResults : stepResults'[d] = stepResults[d]
  <2>1. stepResults \in Results
    BY DEF ExecInv, PlanTypes
  <2> QED BY <2>1, <1>4, StoreResult DEF Ends, Earned
<1>6. empty' = IF status \in {"empty", "empty_upstream"} THEN empty \cup {s} ELSE empty
  BY DEF Ends
\* The step's references, and those of any step that runs, keep their rows.
<1>7. ASSUME NEW t \in Steps, ~Idle(t), NEW d \in stepDependencies(plan, t)
      PROVE  /\ d \in Steps /\ d # s /\ Done(d) /\ ~Failed(d) /\ d \in DOMAIN stepResults
             /\ stepResults'[d] = stepResults[d]
  <2>1. d \in Steps /\ Done(d) /\ ~Failed(d)
    BY <1>7 DEF ExecInv, LayersOK
  <2>2. d \in DOMAIN stepResults
    BY <2>1 DEF ExecInv, StoredOK
  <2> QED BY <2>1, <2>2, <1>5
<1>8. ASSUME NEW t \in Steps, ~Idle(t)
      PROVE  QueryRows(t, stepResults)' = QueryRows(t, stepResults)
  <2>1. QueryRows(t, stepResults)' = QueryRows(t, stepResults')
    BY <1>1 DEF QueryRows, StepRefs, Passes, ColumnValues
  <2>2. \A d \in stepDependencies(plan, t) : stepResults'[d] = stepResults[d]
    BY <1>7, <1>8
  <2> QED BY <2>1, <2>2, RowsDependOnReferences
<1>9. PlanTypes'
  <2>1. /\ plan' \in Plans /\ bound' \in BOOLEAN /\ base' \in [Steps -> Rows]
        /\ phase' \in {"parse", "layer", "run", "done"} /\ todo' \subseteq Steps
        /\ snapshot' \in [Steps -> Results] /\ outcome' \in [status : Ended \cup {"none"}, rows : Rows]
    BY <1>1 DEF ExecInv, PlanTypes
  <2>2. at' \in [Steps -> {"idle", "snapshot", "bind", "query", "done"}]
    BY <1>1 DEF ExecInv, PlanTypes
  <2>3. trace' \in [Steps -> {"pending", "success", "empty", "empty_upstream", "failed"}]
    BY <1>1 DEF ExecInv, PlanTypes, Earned
  <2>4. layerErr' \in Steps \cup {NoStep} /\ truncated' \in BOOLEAN
    BY <1>1 DEF ExecInv, PlanTypes, Ends
  <2>5. empty' \subseteq DOMAIN stepResults'
    BY <1>5, <1>6 DEF ExecInv, PlanTypes
  <2> QED BY <2>1, <2>2, <2>3, <2>4, <2>5, <1>5 DEF PlanTypes
<1>10. LoopOK'
  <2>1. \A t \in Steps : t \in todo' <=> Idle(t)'
    BY <1>1, <1>2, <1>3 DEF ExecInv, LoopOK
  <2>2. Valid'
    BY <1>1 DEF ExecInv, LoopOK, Valid, ParsePlan, Cyclic, stepDependencies
  <2> QED BY <1>1, <1>3, <2>1, <2>2 DEF LoopOK
<1>11. TraceOK'
  BY <1>1, <1>2, <1>3 DEF ExecInv, TraceOK, PlanTypes, Earned
<1>12. LayersOK'
  <2>1. ASSUME NEW t \in Steps, ~Idle(t)', NEW d \in stepDependencies(plan, t)'
        PROVE  d \in Steps /\ Done(d)' /\ ~Failed(d)'
    <3>1. ~Idle(t) /\ d \in stepDependencies(plan, t)
      BY <2>1, <1>1, <1>2 DEF stepDependencies
    <3> QED BY <3>1, <1>7, <1>2
  <2> QED BY <2>1 DEF LayersOK
<1>13. StoredOK'
  <2>1. \A t \in Steps : t \in DOMAIN stepResults' <=> Done(t)' /\ ~Failed(t)'
    BY <1>2, <1>5 DEF ExecInv, StoredOK, Earned
  <2>2. \A t \in Steps : t \in empty' <=> trace'[t] \in {"empty", "empty_upstream"}
    BY <1>2, <1>4, <1>6 DEF ExecInv, StoredOK, Earned
  <2>3. \A t \in empty' : stepResults'[t] = {}
    BY <1>5, <1>6 DEF ExecInv, StoredOK, Earned, PlanTypes
  <2> QED BY <2>1, <2>2, <2>3 DEF StoredOK
<1>14. CopiesOK'
  <2>1. ASSUME NEW t \in Steps, InFlight(t)', NEW d \in stepDependencies(plan, t)'
        PROVE  d \in DOMAIN snapshot'[t] /\ snapshot'[t][d] = stepResults'[d]
    <3>1. InFlight(t) /\ ~Idle(t) /\ d \in stepDependencies(plan, t)
      BY <2>1, <1>1, <1>2 DEF stepDependencies
    <3> QED BY <3>1, <1>7, <1>1 DEF ExecInv, CopiesOK
  <2> QED BY <2>1 DEF CopiesOK
<1>15. BoundOK'
  <2>1. ASSUME NEW t \in Steps, at'[t] = "query"
        PROVE  ~SubstituteError(t, snapshot[t])' /\ ~SubstituteEmpty(t, snapshot[t])'
    <3>1. ~SubstituteError(t, snapshot[t]) /\ ~SubstituteEmpty(t, snapshot[t])
      BY <2>1, <1>2 DEF ExecInv, BoundOK
    <3> QED BY <3>1, <1>1 DEF SubstituteError, SubstituteEmpty, StepRefs, ColumnValues
  <2> QED BY <2>1 DEF BoundOK
<1>16. RowsOK'
  <2>1. ASSUME NEW t \in Steps, trace'[t] = "success", ~truncated'
        PROVE  stepResults'[t] = QueryRows(t, stepResults)'
    <3>1. CASE t = s
      <4>1. stepResults'[t] = rows /\ rows = QueryRows(s, stepResults)
        BY <3>1, <2>1, <1>2, <1>5 DEF Earned
      <4> QED BY <4>1, <3>1, <1>8
    <3>2. CASE t # s
      <4>1. trace[t] = "success" /\ ~truncated
        BY <3>2, <2>1, <1>2 DEF Ends, ExecInv, PlanTypes
      <4>2. Done(t) /\ ~Failed(t) /\ ~Idle(t)
        BY <4>1 DEF ExecInv, TraceOK
      <4>3. t \in DOMAIN stepResults /\ stepResults[t] = QueryRows(t, stepResults)
        BY <4>1, <4>2 DEF ExecInv, StoredOK, RowsOK
      <4> QED BY <4>2, <4>3, <1>5, <1>8
    <3> QED BY <3>1, <3>2
  <2>2. ASSUME NEW t \in Steps, t \in empty'
        PROVE  (\E f \in StepRefs(t) : ColumnValues(stepResults[f.head]) = {})'
    <3>1. ~Idle(t) /\ \E f \in StepRefs(t) : ColumnValues(stepResults[f.head]) = {}
      <4>1. CASE t = s
        <5>1. status \in {"empty", "empty_upstream"}
          BY <4>1, <2>2, <1>4, <1>6
        <5> QED BY <5>1, <4>1 DEF Earned
      <4>2. CASE t # s
        <5>1. t \in empty
          BY <4>2, <2>2, <1>6
        <5>2. Done(t)
          BY <5>1 DEF ExecInv, StoredOK, TraceOK
        <5> QED BY <5>1, <5>2 DEF ExecInv, RowsOK
      <4> QED BY <4>1, <4>2
    <3>2. PICK f \in StepRefs(t) : ColumnValues(stepResults[f.head]) = {}
      BY <3>1
    <3>3. stepResults'[f.head] = stepResults[f.head]
      BY <3>1, <1>7, RefsAreDependencies
    <3> QED BY <3>2, <3>3, <1>1 DEF StepRefs, ColumnValues
  <2> QED BY <2>1, <2>2 DEF RowsOK
<1>17. SolvedOK'
  BY <1>1, SolvedStays DEF ExecInv
<1> QED BY <1>9, <1>10, <1>11, <1>12, <1>13, <1>14, <1>15, <1>16, <1>17 DEF ExecInv

-----------------------------------------------------------------------------
(* The steps of a goroutine *)

\* A goroutine goes on without ending: to bind, with a copy, or to its query.
LEMMA StepGoesOn ==
    ASSUME PlanConstants, ExecInv, NEW s \in Steps, ~Idle(s), ~Done(s),
           NEW next \in {"bind", "query"}, at' = [at EXCEPT ![s] = next],
           UNCHANGED <<plan, bound, base, phase, todo, stepResults, empty, trace, layerErr,
                       outcome, truncated>>,
           PlanTypes', CopiesOK', BoundOK'
    PROVE  ExecInv'
<1> USE DEF Idle, Done, Failed, InFlight
<1>1. /\ at'[s] = next /\ \A t \in Steps : t # s => at'[t] = at[t]
      /\ \A t \in Steps : Idle(t)' = Idle(t) /\ Done(t)' = Done(t)
  BY DEF ExecInv, PlanTypes
<1>2. phase = "run"
  BY DEF ExecInv, LoopOK
<1>3. LoopOK'
  BY <1>1, <1>2 DEF ExecInv, LoopOK, Valid, ParsePlan, Cyclic, stepDependencies
<1>4. TraceOK'
  BY <1>1, <1>2 DEF ExecInv, TraceOK
<1>5. LayersOK'
  BY <1>1 DEF ExecInv, LayersOK, stepDependencies
<1>6. StoredOK'
  BY <1>1 DEF ExecInv, StoredOK
<1>7. RowsOK'
  BY DEF ExecInv, RowsOK, QueryRows, StepRefs, Passes, ColumnValues
<1>8. SolvedOK'
  BY SolvedStays DEF ExecInv
<1> QED BY <1>3, <1>4, <1>5, <1>6, <1>7, <1>8 DEF ExecInv

\* References of a step that runs are in stepResults, and in its copy later.
LEMMA ReferencesAreThere ==
    ASSUME ExecInv, NEW s \in Steps, ~Idle(s), NEW d \in stepDependencies(plan, s)
    PROVE  d \in DOMAIN stepResults /\ (d \in empty => stepResults[d] = {})
BY DEF ExecInv, LayersOK, StoredOK

LEMMA TakeSnapshotInv ==
    ASSUME PlanConstants, ExecInv, NEW s \in Steps, TakeSnapshot(s) PROVE ExecInv'
<1> USE DEF Idle, Done, InFlight
<1>1. ~Idle(s) /\ ~Done(s)
  BY DEF TakeSnapshot
<1>2. CASE stepDependencies(plan, s) \cap empty # {}
  <2>1. Ends(s, "empty_upstream", {})
    BY <1>2 DEF TakeSnapshot, SettleEmpty, Ends, ExecInv, PlanTypes
  <2>2. PICK f \in StepRefs(s) : f.head \in empty
    BY <1>2 DEF StepRefs, stepDependencies
  <2>3. stepResults[f.head] = {}
    BY <2>2, <1>1, RefsAreDependencies, ReferencesAreThere
  <2>4. Earned(s, "empty_upstream", {})
    BY <2>2, <2>3 DEF Earned, Rows, ColumnValues
  <2> QED BY <1>1, <2>1, <2>4, StepEnds
<1>3. CASE stepDependencies(plan, s) \cap empty = {}
  <2>1. /\ snapshot' = [snapshot EXCEPT ![s] = stepResults] /\ at' = [at EXCEPT ![s] = "bind"]
        /\ UNCHANGED <<plan, bound, base, phase, todo, stepResults, empty, trace, layerErr,
                       outcome, truncated>>
    BY <1>3 DEF TakeSnapshot
  <2>2. PlanTypes'
    BY <2>1 DEF ExecInv, PlanTypes
  <2>3. CopiesOK'
    <3>1. ASSUME NEW t \in Steps, InFlight(t)', NEW d \in stepDependencies(plan, t)'
          PROVE  d \in DOMAIN snapshot'[t] /\ snapshot'[t][d] = stepResults'[d]
      <4>1. d \in stepDependencies(plan, t)
        BY <3>1, <2>1 DEF stepDependencies
      <4>2. CASE t = s
        BY <4>1, <4>2, <2>1, <1>1, ReferencesAreThere DEF ExecInv, PlanTypes
      <4>3. CASE t # s
        BY <4>1, <4>3, <2>1, <3>1 DEF ExecInv, PlanTypes, CopiesOK
      <4> QED BY <4>2, <4>3
    <3> QED BY <3>1 DEF CopiesOK
  <2>4. BoundOK'
    <3>1. ASSUME NEW t \in Steps, at'[t] = "query"
          PROVE  ~SubstituteError(t, snapshot[t])' /\ ~SubstituteEmpty(t, snapshot[t])'
      <4>1. t # s /\ at[t] = "query" /\ snapshot'[t] = snapshot[t]
        BY <3>1, <2>1 DEF ExecInv, PlanTypes
      <4> QED BY <4>1, <2>1 DEF ExecInv, BoundOK, SubstituteError, SubstituteEmpty, StepRefs, ColumnValues
    <3> QED BY <3>1 DEF BoundOK
  <2> QED BY <1>1, <2>1, <2>2, <2>3, <2>4, StepGoesOn
<1> QED BY <1>2, <1>3

LEMMA BindFiltersInv ==
    ASSUME PlanConstants, ExecInv, NEW s \in Steps, BindFilters(s) PROVE ExecInv'
<1> USE DEF Idle, Done, InFlight
<1>1. ~Idle(s) /\ ~Done(s) /\ InFlight(s)
  BY DEF BindFilters
<1>2. CASE SubstituteError(s, snapshot[s]) /\ Settle(s, "failed") /\ UNCHANGED <<stepResults, empty>>
  <2>1. Ends(s, "failed", {})
    BY <1>2 DEF BindFilters, Ends, ExecInv, PlanTypes
  <2>2. Earned(s, "failed", {})
    BY DEF Earned, Rows
  <2> QED BY <1>1, <2>1, <2>2, StepEnds
<1>3. CASE SubstituteEmpty(s, snapshot[s]) /\ SettleEmpty(s, "empty")
  <2>1. Ends(s, "empty", {})
    BY <1>3 DEF BindFilters, SettleEmpty, Ends, ExecInv, PlanTypes
  <2>2. PICK f \in StepRefs(s) : ColumnValues(snapshot[s][f.head]) = {}
    BY <1>3 DEF SubstituteEmpty
  <2>3. snapshot[s][f.head] = stepResults[f.head]
    BY <1>1, RefsAreDependencies DEF ExecInv, CopiesOK
  <2>4. Earned(s, "empty", {})
    BY <2>2, <2>3 DEF Earned, Rows
  <2> QED BY <1>1, <2>1, <2>4, StepEnds
<1>4. CASE /\ ~ SubstituteError(s, snapshot[s]) /\ ~ SubstituteEmpty(s, snapshot[s])
           /\ at' = [at EXCEPT ![s] = "query"]
           /\ UNCHANGED <<stepResults, empty, trace, layerErr>>
  <2>1. UNCHANGED <<plan, bound, base, phase, todo, stepResults, empty, trace, layerErr,
                    outcome, truncated, snapshot>>
    BY <1>4 DEF BindFilters
  <2>2. PlanTypes'
    BY <1>4, <2>1 DEF ExecInv, PlanTypes
  <2>3. CopiesOK'
    <3>1. ASSUME NEW t \in Steps, InFlight(t)', NEW d \in stepDependencies(plan, t)'
          PROVE  d \in DOMAIN snapshot'[t] /\ snapshot'[t][d] = stepResults'[d]
      <4>1. InFlight(t) /\ d \in stepDependencies(plan, t)
        BY <3>1, <2>1, <1>1, <1>4 DEF stepDependencies, ExecInv, PlanTypes
      <4> QED BY <4>1, <2>1 DEF ExecInv, CopiesOK
    <3> QED BY <3>1 DEF CopiesOK
  <2>4. BoundOK'
    <3>1. ASSUME NEW t \in Steps, at'[t] = "query"
          PROVE  ~SubstituteError(t, snapshot[t])' /\ ~SubstituteEmpty(t, snapshot[t])'
      <4>1. ~SubstituteError(t, snapshot[t]) /\ ~SubstituteEmpty(t, snapshot[t])
        BY <3>1, <1>4 DEF ExecInv, PlanTypes, BoundOK
      <4> QED BY <4>1, <2>1 DEF SubstituteError, SubstituteEmpty, StepRefs, ColumnValues
    <3> QED BY <3>1 DEF BoundOK
  <2> QED BY <1>1, <1>4, <2>1, <2>2, <2>3, <2>4, StepGoesOn
<1> QED BY <1>2, <1>3, <1>4 DEF BindFilters

LEMMA RunnerInv ==
    ASSUME PlanConstants, ExecInv, NEW s \in Steps,
           RunnerAnswers(s) \/ RunnerTruncates(s) \/ RunnerFails(s)
    PROVE  ExecInv'
<1> USE DEF Idle, Done, InFlight
<1>1. ~Idle(s) /\ ~Done(s) /\ InFlight(s)
  BY DEF RunnerAnswers, RunnerTruncates, RunnerFails
<1>2. QueryRows(s, snapshot[s]) = QueryRows(s, stepResults) /\ QueryRows(s, snapshot[s]) \in Rows
  <2>1. \A d \in stepDependencies(plan, s) : snapshot[s][d] = stepResults[d]
    BY <1>1 DEF ExecInv, CopiesOK
  <2> QED BY <2>1, RowsDependOnReferences, QueryRowsType DEF ExecInv
<1>3. CASE RunnerAnswers(s)
  <2>1. Ends(s, "success", QueryRows(s, snapshot[s]))
    BY <1>3 DEF RunnerAnswers, Ends, ExecInv, PlanTypes
  <2>2. Earned(s, "success", QueryRows(s, snapshot[s]))
    BY <1>2 DEF Earned
  <2> QED BY <1>1, <2>1, <2>2, StepEnds
<1>4. CASE RunnerTruncates(s)
  <2>1. PICK rows \in SUBSET QueryRows(s, snapshot[s]) : stepResults' = Store(s, rows)
    BY <1>4 DEF RunnerTruncates
  <2>2. Ends(s, "success", rows)
    BY <1>4, <2>1 DEF RunnerTruncates, Ends
  <2>3. Earned(s, "success", rows)
    BY <1>2, <1>4, <2>1 DEF Earned, RunnerTruncates, Rows
  <2> QED BY <1>1, <2>2, <2>3, StepEnds
<1>5. CASE RunnerFails(s)
  <2>1. Ends(s, "failed", {})
    BY <1>5 DEF RunnerFails, Ends, ExecInv, PlanTypes
  <2>2. Earned(s, "failed", {})
    BY DEF Earned, Rows
  <2> QED BY <1>1, <2>1, <2>2, StepEnds
<1> QED BY <1>3, <1>4, <1>5

-----------------------------------------------------------------------------
(* The layers *)

\* Between two layers every step has ended well or waits for its layer.
LEMMA BetweenLayers ==
    ASSUME ExecInv, phase \in {"parse", "layer"}
    PROVE  /\ layerErr = NoStep
           /\ \A s \in Steps : IF s \in todo THEN Idle(s) ELSE Done(s) /\ ~Failed(s)
BY DEF ExecInv, LoopOK, TraceOK

LEMMA StartLayerInv == ASSUME PlanConstants, ExecInv, StartLayer PROVE ExecInv'
<1> USE DEF Idle, Done, Failed, InFlight
<1>1. /\ phase = "layer" /\ phase' = "run" /\ todo' = todo \ Layer(todo)
      /\ at' = [s \in Steps |-> IF s \in Layer(todo) THEN "snapshot" ELSE at[s]]
      /\ UNCHANGED <<plan, bound, base, snapshot, stepResults, empty, trace, layerErr, outcome, truncated>>
  BY DEF StartLayer
<1>2. todo \subseteq Steps /\ Layer(todo) \subseteq todo
  BY DEF ExecInv, PlanTypes, Layer
<1>3. \A s \in Steps : at'[s] = IF s \in Layer(todo) THEN "snapshot" ELSE at[s]
  BY <1>1
<1>4. outcome.status = "none" /\ ParsePlan(plan) /\ ParsePlan(plan)'
  <2>1. outcome.status = "none"
    BY <1>1 DEF ExecInv, PlanTypes, LoopOK, Ended
  <2>2. ParsePlan(plan)
    BY <1>1, <2>1 DEF ExecInv, LoopOK, Valid
  <2> QED BY <1>1, <2>1, <2>2 DEF ParsePlan, Cyclic, stepDependencies
<1>5. \A s \in Steps : IF s \in todo THEN Idle(s) ELSE Done(s) /\ ~Failed(s)
  BY <1>1, BetweenLayers
<1>6. \A s \in Steps : Done(s)' <=> Done(s)
  BY <1>2, <1>3, <1>5
<1>7. PlanTypes'
  BY <1>1, <1>2 DEF ExecInv, PlanTypes
<1>8. LoopOK'
  <2>1. \A s \in Steps : s \in todo' <=> Idle(s)'
    BY <1>1, <1>2, <1>3, <1>5
  <2> QED BY <2>1, <1>1, <1>4 DEF LoopOK, Valid
<1>9. TraceOK'
  BY <1>1, <1>6 DEF ExecInv, TraceOK
<1>10. LayersOK'
  <2>1. ASSUME NEW s \in Steps, ~Idle(s)', NEW d \in stepDependencies(plan, s)'
        PROVE  d \in Steps /\ Done(d)' /\ ~Failed(d)'
    <3>1. d \in stepDependencies(plan, s) /\ d \in Steps
      BY <2>1, <1>1, <1>4, ValidGraph DEF stepDependencies
    <3>2. CASE s \in Layer(todo)
      BY <3>1, <3>2, <1>1, <1>5, <1>6 DEF Layer
    <3>3. CASE s \notin Layer(todo)
      BY <3>1, <3>3, <2>1, <1>1, <1>3, <1>6 DEF ExecInv, LayersOK
    <3> QED BY <3>2, <3>3
  <2> QED BY <2>1 DEF LayersOK
<1>11. StoredOK'
  BY <1>1, <1>6 DEF ExecInv, StoredOK
<1>12. CopiesOK' /\ BoundOK'
  <2>1. \A s \in Steps : ~InFlight(s)'
    BY <1>3, <1>5
  <2> QED BY <2>1 DEF CopiesOK, BoundOK
<1>13. RowsOK'
  BY <1>1 DEF ExecInv, RowsOK, QueryRows, StepRefs, Passes, ColumnValues
\* A layer refers to what is solved, so its rows solve it.
<1>14. SolvedOK'
  <2>1. PICK m \in [Steps -> Rows] : \A s \in Steps \ todo : m[s] = QueryRows(s, m)
    BY <1>4 DEF ExecInv, SolvedOK
  <2>2. PICK n \in [Steps -> Rows] :
          \A s \in Steps : n[s] = IF s \in Layer(todo) THEN QueryRows(s, m) ELSE m[s]
    <3> DEFINE solved == [s \in Steps |-> IF s \in Layer(todo) THEN QueryRows(s, m) ELSE m[s]]
    <3>1. solved \in [Steps -> Rows]
      BY QueryRowsType DEF ExecInv
    <3> QED BY <3>1
  <2>3. ASSUME NEW s \in Steps \ todo' PROVE n[s] = QueryRows(s, n)
    <3>1. \A d \in stepDependencies(plan, s) : d \in Steps \ Layer(todo)
      <4>1. CASE s \in Layer(todo)
        BY <4>1, <1>2, <1>4, ValidGraph DEF Layer
      <4>2. CASE s \notin Layer(todo)
        <5>1. s \notin todo /\ Done(s)
          BY <4>2, <2>3, <1>1, <1>5
        <5> QED BY <5>1, <1>2, <1>5 DEF ExecInv, LayersOK
      <4> QED BY <4>1, <4>2
    <3>2. QueryRows(s, n) = QueryRows(s, m)
      BY <3>1, <2>2, RowsDependOnReferences
    <3> QED BY <3>2, <2>1, <2>2, <2>3, <1>1
  <2>4. \A s \in Steps : QueryRows(s, n)' = QueryRows(s, n)
    BY <1>1 DEF QueryRows, StepRefs, Passes, ColumnValues
  <2>5. \A s \in Steps \ todo' : n[s] = QueryRows(s, n)'
    BY <2>3, <2>4
  <2> QED BY <2>2, <2>5 DEF SolvedOK
<1> QED BY <1>7, <1>8, <1>9, <1>10, <1>11, <1>12, <1>13, <1>14 DEF ExecInv

\* Execute moves on with all goroutines at rest and the results as they are.
LEMMA LoopMoves ==
    ASSUME ExecInv, PlanTypes', LoopOK', TraceOK',
           UNCHANGED <<plan, bound, base, todo, at, snapshot, stepResults, empty, trace, layerErr, truncated>>
    PROVE  ExecInv'
<1> USE DEF Idle, Done, Failed, InFlight
<1>1. LayersOK'
  BY DEF ExecInv, LayersOK, stepDependencies
<1>2. StoredOK'
  BY DEF ExecInv, StoredOK
<1>3. CopiesOK'
  BY DEF ExecInv, CopiesOK, stepDependencies
<1>4. BoundOK'
  BY DEF ExecInv, BoundOK, SubstituteError, SubstituteEmpty, StepRefs, ColumnValues
<1>5. RowsOK'
  BY DEF ExecInv, RowsOK, QueryRows, StepRefs, Passes, ColumnValues
<1>6. SolvedOK'
  BY SolvedStays DEF ExecInv
<1> QED BY <1>1, <1>2, <1>3, <1>4, <1>5, <1>6 DEF ExecInv

LEMMA LoopInv ==
    ASSUME PlanConstants, ExecInv, Reject \/ Accept \/ EndLayer \/ Answer PROVE ExecInv'
<1> USE DEF Idle, Done, Failed
<1>1. UNCHANGED <<plan, bound, base, todo, at, snapshot, stepResults, empty, trace, layerErr, truncated>>
  BY DEF Reject, Accept, EndLayer, Answer
<1>2. outcome.status = "none"
  BY DEF Reject, Accept, EndLayer, Answer, ExecInv, LoopOK
<1>3. ParsePlan(plan)' = ParsePlan(plan)
  BY <1>1 DEF ParsePlan, Cyclic, stepDependencies
<1>4. \A s \in Steps : s \in todo <=> Idle(s)
  BY DEF ExecInv, LoopOK
<1>5. CASE Reject
  <2>1. phase' = "done" /\ phase = "parse" /\ outcome' = [outcome EXCEPT !.status = "rejected"]
    BY <1>5 DEF Reject
  <2>2. outcome' \in [status : Ended \cup {"none"}, rows : Rows] /\ outcome'.status = "rejected"
    BY <2>1 DEF ExecInv, PlanTypes, Ended
  <2>3. PlanTypes'
    BY <1>1, <2>1, <2>2 DEF ExecInv, PlanTypes
  <2>4. LoopOK'
    BY <1>1, <1>4, <2>1, <2>2 DEF ExecInv, LoopOK, Valid
  <2>5. TraceOK'
    BY <1>1, <2>1 DEF ExecInv, TraceOK
  <2> QED BY <1>1, <2>3, <2>4, <2>5, LoopMoves
<1>6. CASE Accept
  <2>1. phase' = "layer" /\ phase = "parse" /\ outcome' = outcome /\ ParsePlan(plan)
    BY <1>6 DEF Accept
  <2>2. PlanTypes'
    BY <1>1, <2>1 DEF ExecInv, PlanTypes
  <2>3. LoopOK'
    BY <1>1, <1>2, <1>3, <1>4, <2>1 DEF ExecInv, LoopOK, Valid
  <2>4. TraceOK'
    BY <1>1, <2>1 DEF ExecInv, TraceOK
  <2> QED BY <1>1, <2>2, <2>3, <2>4, LoopMoves
<1>7. CASE EndLayer
  <2>1. phase = "run" /\ \A s \in Steps : at[s] \in {"idle", "done"}
    BY <1>7 DEF EndLayer
  <2>2. ParsePlan(plan)
    BY <2>1, <1>2 DEF ExecInv, LoopOK, Valid
  <2>3. CASE layerErr # NoStep
    <3>1. phase' = "done" /\ outcome' = [outcome EXCEPT !.status = "failed"]
      BY <1>7, <2>3 DEF EndLayer
    <3>2. outcome' \in [status : Ended \cup {"none"}, rows : Rows] /\ outcome'.status = "failed"
      BY <3>1 DEF ExecInv, PlanTypes, Ended
    <3>3. PlanTypes'
      BY <1>1, <3>1, <3>2 DEF ExecInv, PlanTypes
    <3>4. LoopOK'
      BY <1>1, <1>3, <1>4, <2>1, <2>2, <2>3, <3>1, <3>2 DEF LoopOK, Valid
    <3>5. TraceOK'
      BY <1>1, <3>1 DEF ExecInv, TraceOK
    <3> QED BY <1>1, <3>3, <3>4, <3>5, LoopMoves
  <2>4. CASE layerErr = NoStep
    <3>1. phase' = "layer" /\ outcome' = outcome
      BY <1>7, <2>4 DEF EndLayer
    <3>2. PlanTypes'
      BY <1>1, <3>1 DEF ExecInv, PlanTypes
    <3>3. LoopOK'
      BY <1>1, <1>2, <1>3, <1>4, <2>1, <2>2, <3>1 DEF LoopOK, Valid
    <3>4. TraceOK'
      BY <1>1, <2>4, <3>1 DEF ExecInv, TraceOK
    <3> QED BY <1>1, <3>2, <3>3, <3>4, LoopMoves
  <2> QED BY <2>3, <2>4
<1>8. CASE Answer
  <2> DEFINE rows == UNION {stepResults[s] : s \in DOMAIN stepResults \cap {plan.output}}
  <2>1. phase = "layer" /\ todo = {} /\ phase' = "done" /\ outcome' = [status |-> "ok", rows |-> rows]
    BY <1>8 DEF Answer
  <2>2. rows \in Rows /\ (plan.output \in DOMAIN stepResults => rows = stepResults[plan.output])
    <3>1. ASSUME NEW d \in DOMAIN stepResults PROVE stepResults[d] \in Rows
      BY DEF ExecInv, PlanTypes, Results
    <3> QED BY <3>1 DEF Rows
  <2>3. PlanTypes'
    BY <1>1, <2>1, <2>2 DEF ExecInv, PlanTypes, Ended
  <2>4. ParsePlan(plan) /\ layerErr = NoStep
    BY <2>1, <1>2, BetweenLayers DEF ExecInv, LoopOK, Valid
  <2>5. LoopOK'
    <3>1. \A s \in Steps : Idle(s) \/ Done(s)
      BY <2>1 DEF ExecInv, LoopOK
    <3>2. outcome'.status = "ok" /\ outcome'.rows = rows
      BY <2>1
    <3> HIDE DEF rows
    <3> QED BY <1>1, <1>3, <1>4, <2>1, <2>2, <2>4, <3>1, <3>2 DEF LoopOK, Valid
  <2>6. TraceOK'
    BY <1>1, <2>1 DEF ExecInv, TraceOK
  <2> QED BY <1>1, <2>3, <2>5, <2>6, LoopMoves
<1> QED BY <1>5, <1>6, <1>7, <1>8

LEMMA ExecNext == ASSUME PlanConstants PROVE ExecInv /\ [PlanNext]_planVars => ExecInv'
<1> SUFFICES ASSUME ExecInv, [PlanNext]_planVars PROVE ExecInv'
  OBVIOUS
<1>1. CASE StartLayer
  BY <1>1, StartLayerInv
<1>2. CASE Reject \/ Accept \/ EndLayer \/ Answer
  BY <1>2, LoopInv
<1>3. CASE \E s \in Steps : StepAction(s)
  BY <1>3, TakeSnapshotInv, BindFiltersInv, RunnerInv DEF StepAction
<1>4. CASE UNCHANGED planVars
  <2>1. UNCHANGED <<plan, bound, base, phase, todo, at, snapshot, stepResults, empty, trace,
                    layerErr, outcome, truncated>>
    BY <1>4 DEF planVars
  <2>2. PlanTypes'
    BY <2>1 DEF ExecInv, PlanTypes
  <2>3. LoopOK' /\ TraceOK'
    BY <2>1 DEF ExecInv, LoopOK, TraceOK, Valid, ParsePlan, Cyclic, stepDependencies, Idle, Done, Failed
  <2> QED BY <2>1, <2>2, <2>3, LoopMoves
<1> QED BY <1>1, <1>2, <1>3, <1>4 DEF PlanNext

\* The inductive invariant of Execute.
THEOREM PlansStayInStep == ASSUME PlanConstants PROVE PlanSpec => []ExecInv
<1>1. PlanInit => ExecInv
  BY ExecInit
<1>2. ExecInv /\ [PlanNext]_planVars => ExecInv'
  BY ExecNext
<1> QED BY <1>1, <1>2, PTL DEF PlanSpec

-----------------------------------------------------------------------------
(* What an answered plan means *)

\* ParsePlan's check for cycles is what makes the filters of a plan mean one
\* thing: two readings that differ do so at a step whose references agree.
THEOREM MeaningIsUnique ==
    ASSUME ParsePlan(plan), NEW m, NEW n, Means(m), Means(n) PROVE m = n
<1> DEFINE differ == {s \in Steps : m[s] # n[s]}
<1>1. SUFFICES ASSUME differ # {} PROVE FALSE
  BY DEF Means
<1>2. PICK s \in differ : stepDependencies(plan, s) \cap differ = {}
  BY <1>1, ValidGraph
<1>3. \A d \in stepDependencies(plan, s) : m[d] = n[d]
  BY <1>2, ValidGraph
<1>4. QueryRows(s, m) = QueryRows(s, n)
  BY <1>3, RowsDependOnReferences
<1> QED BY <1>2, <1>4 DEF Means

\* The rows of an answered plan are those of its meaning: where they differed, it
\* would be at a step whose references agree.
LEMMA AnsweredRows ==
    ASSUME ExecInv, outcome.status = "ok", ~truncated,
           NEW m, Means(m), \A s \in Steps : \A f \in StepRefs(s) :
                                f.op = "not in" => ColumnValues(m[f.head]) # {}
    PROVE  outcome.rows = m[plan.output]
<1> DEFINE differ == {s \in Steps : m[s] # stepResults[s]}
<1>1. /\ ParsePlan(plan) /\ layerErr = NoStep
      /\ \A s \in Steps : /\ trace[s] # "pending" /\ trace[s] # "failed"
                          /\ s \in DOMAIN stepResults
  <2>1. phase = "done" /\ todo = {} /\ layerErr = NoStep
    BY DEF ExecInv, LoopOK
  <2>2. \A s \in Steps : Done(s) /\ ~Failed(s)
    BY <2>1 DEF ExecInv, LoopOK, TraceOK
  <2>3. ParsePlan(plan)
    BY <2>1 DEF ExecInv, LoopOK, Valid
  <2> QED BY <2>1, <2>2, <2>3 DEF ExecInv, TraceOK, StoredOK, Failed
<1>2. ASSUME NEW s \in Steps, \A d \in stepDependencies(plan, s) : m[d] = stepResults[d]
      PROVE  m[s] = stepResults[s]
  <2>1. QueryRows(s, m) = QueryRows(s, stepResults) /\ m[s] = QueryRows(s, m)
    BY <1>2, RowsDependOnReferences DEF Means
  <2>2. CASE trace[s] = "success"
    BY <2>1, <2>2 DEF ExecInv, RowsOK
  <2>3. CASE s \in empty
    <3>1. PICK f \in StepRefs(s) : ColumnValues(stepResults[f.head]) = {}
      BY <2>3 DEF ExecInv, RowsOK
    <3>2. ColumnValues(m[f.head]) = {}
      BY <3>1, <1>2, RefsAreDependencies
    <3>3. f.op # "not in"
      BY <3>2
    <3>4. QueryRows(s, m) = {}
      BY <3>2, <3>3, NothingPasses
    <3>5. stepResults[s] = {}
      BY <2>3 DEF ExecInv, StoredOK
    <3> QED BY <2>1, <3>4, <3>5
  <2>4. trace[s] = "success" \/ s \in empty
    BY <1>1 DEF ExecInv, PlanTypes, StoredOK
  <2> QED BY <2>2, <2>3, <2>4
<1>3. differ = {}
  <2>1. SUFFICES ASSUME differ # {} PROVE FALSE
    OBVIOUS
  <2>2. PICK s \in differ : stepDependencies(plan, s) \cap differ = {}
    BY <2>1, <1>1, ValidGraph
  <2>3. \A d \in stepDependencies(plan, s) : m[d] = stepResults[d]
    BY <2>2, <1>1, ValidGraph
  <2> QED BY <2>2, <2>3, <1>2
<1>4. plan.output \in Steps /\ outcome.rows = stepResults[plan.output]
  BY <1>1, ValidGraph DEF ExecInv, LoopOK
<1> QED BY <1>3, <1>4

\* An answered plan has a meaning: Execute's layers have solved it on the way.
LEMMA AnsweredPlanHasMeaning ==
    ASSUME ExecInv, outcome.status = "ok" PROVE Means(Meaning)
<1>1. ParsePlan(plan) /\ todo = {}
  BY DEF ExecInv, LoopOK, Valid
<1>2. \E m \in [Steps -> Rows] : Means(m)
  BY <1>1 DEF ExecInv, SolvedOK, Means
<1> QED BY <1>2 DEF Meaning

\* Whatever the order in which the goroutines of a layer run, an answered plan is
\* answered with the rows its filters mean, and the trace of a finished plan
\* accounts for every step (executePlanHandler, Execute), for every plan, however
\* many steps it has and whatever the database holds.
THEOREM PlansMeanWhatTheySay == ASSUME PlanConstants PROVE PlanSpec => []PlanOutcome
<1>1. ASSUME ExecInv PROVE AnswerIsTheMeaning
  <2>1. SUFFICES ASSUME outcome.status = "ok", ~truncated, ~ExcludesNothing
                 PROVE  outcome.rows = Meaning[plan.output]
    BY DEF AnswerIsTheMeaning
  <2>2. Means(Meaning)
    BY <1>1, <2>1, AnsweredPlanHasMeaning
  <2>3. \A s \in Steps : \A f \in StepRefs(s) : f.op = "not in" => ColumnValues(Meaning[f.head]) # {}
    BY <2>1 DEF ExcludesNothing
  <2> QED BY <1>1, <2>1, <2>2, <2>3, AnsweredRows
<1>2. ASSUME ExecInv PROVE TraceIsComplete
  <2>1. ASSUME outcome.status = "ok", NEW s \in Steps PROVE trace[s] \notin {"pending", "failed"}
    <3>1. todo = {} /\ phase = "done" /\ layerErr = NoStep
      BY <1>2, <2>1 DEF ExecInv, LoopOK
    <3> QED BY <1>2, <3>1 DEF ExecInv, LoopOK, TraceOK, Idle, Done, Failed
  <2>2. ASSUME outcome.status = "failed"
        PROVE  /\ trace[layerErr] = "failed"
               /\ \A s \in Steps : trace[s] = "pending" <=> s \in todo
               /\ \A s \in Steps : trace[s] # "pending" =>
                      stepDependencies(plan, s) \subseteq {t \in Steps : trace[t] \notin {"pending", "failed"}}
    <3>1. phase = "done" /\ layerErr # NoStep
      BY <1>2, <2>2 DEF ExecInv, LoopOK
    <3>2. trace[layerErr] = "failed"
      BY <1>2, <3>1 DEF ExecInv, TraceOK, Failed
    <3>3. \A s \in Steps : trace[s] = "pending" <=> s \in todo
      BY <1>2, <3>1 DEF ExecInv, LoopOK, TraceOK, Idle, Done
    <3>4. ASSUME NEW s \in Steps, trace[s] # "pending", NEW d \in stepDependencies(plan, s)
          PROVE  d \in Steps /\ trace[d] \notin {"pending", "failed"}
      BY <1>2, <3>4 DEF ExecInv, LayersOK, TraceOK, Idle, Done, Failed
    <3> QED BY <3>2, <3>3, <3>4
  <2> QED BY <2>1, <2>2 DEF TraceIsComplete
<1>3. ExecInv => PlanOutcome
  BY <1>1, <1>2 DEF PlanOutcome, ExecInv
<1> QED BY <1>3, PlansStayInStep, PTL
=============================================================================
