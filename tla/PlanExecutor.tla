----------------------------- MODULE PlanExecutor -----------------------------
(***************************************************************************)
(* POST /internal/smartquery/execute-plan: a plan of query steps whose     *)
(* filters may name the rows of another step ($stepId.col) or a parameter  *)
(* of the request ($param.x).  ParsePlan validates it, Execute walks the   *)
(* dependency layers, the steps of a layer run as goroutines that share    *)
(* stepResults, empty and traceByID under one mutex.                       *)
(*                                                                         *)
(* A row is the value of its one column; Null is an absent, null or empty  *)
(* value.  The database (external) is `base`: the rows a step would return *)
(* without its step references.                                            *)
(***************************************************************************)

CONSTANTS Steps, Values, Null,
          Plans     \* the plans requested: [filters : [Steps -> SUBSET Filter], output]

Heads == Steps \cup {"param", "undeclared", "ghost"}
Filter == [op : {"in", "not in", "="}, head : Heads]
Rows == SUBSET (Values \cup {Null})
NoStep == "none"

\* What the instances assume of the constants.
PlanConstants ==
    /\ Null \notin Values /\ NoStep \notin Steps
    /\ \A p \in Plans : /\ p.filters \in [Steps -> SUBSET Filter]
                        /\ p.output \in Steps \cup {"ghost"}

VARIABLES plan,      \* the request's plan
          bound,     \* the request binds the parameter
          base,      \* the rows in the database
          phase,     \* "parse", "layer" (between layers), "run", "done"
          todo,      \* steps of the layers not started
          at,        \* where the goroutine of a step is
          snapshot,  \* what a goroutine copied of stepResults
          stepResults, empty, trace,
          layerErr,  \* the first step of the layer that failed
          outcome,   \* the answer
          truncated  \* history: a query ended in the middle of its rows

planVars == <<plan, bound, base, phase, todo, at, snapshot, stepResults, empty, trace,
          layerErr, outcome, truncated>>

Ended == {"rejected", "failed", "ok"}

\* Results by step, of the steps that have any.
Results == UNION {[S -> Rows] : S \in SUBSET Steps}

PlanTypes ==
    /\ plan \in Plans /\ bound \in BOOLEAN /\ base \in [Steps -> Rows]
    /\ phase \in {"parse", "layer", "run", "done"}
    /\ todo \subseteq Steps
    /\ at \in [Steps -> {"idle", "snapshot", "bind", "query", "done"}]
    /\ stepResults \in Results /\ snapshot \in [Steps -> Results]
    /\ empty \subseteq DOMAIN stepResults
    /\ trace \in [Steps -> {"pending", "success", "empty", "empty_upstream", "failed"}]
    /\ layerErr \in Steps \cup {NoStep}
    /\ outcome \in [status : Ended \cup {"none"}, rows : Rows]
    /\ truncated \in BOOLEAN

PlanInit ==
    /\ plan \in Plans /\ base \in [Steps -> Rows]
    /\ bound \in {TRUE, \A s \in Steps : \A f \in plan.filters[s] : f.head # "param"}
    /\ phase = "parse" /\ todo = Steps
    /\ at = [s \in Steps |-> "idle"] /\ snapshot = [s \in Steps |-> <<>>]
    /\ stepResults = <<>> /\ empty = {} /\ trace = [s \in Steps |-> "pending"]
    /\ layerErr = NoStep /\ outcome = [status |-> "none", rows |-> {}]
    /\ truncated = FALSE

-----------------------------------------------------------------------------
(* The plan as a graph *)

stepDependencies(p, s) == {f.head : f \in p.filters[s]} \ {"param"}

\* TopoOrder's depth-first search meets a step on its own stack.
Cyclic(p) ==
    \E S \in (SUBSET Steps) \ {{}} : \A s \in S : stepDependencies(p, s) \cap S # {}

\* The structural checks of ParsePlan.
ParsePlan(p) ==
    /\ p.output \in Steps
    /\ \A s \in Steps : \A f \in p.filters[s] : f.head \in (Steps \ {s}) \cup {"param"}
    /\ ~ Cyclic(p)

\* A layer: the remaining steps none of whose dependencies remain (Kahn).
Layer(remaining) == {s \in remaining : stepDependencies(plan, s) \cap remaining = {}}

-----------------------------------------------------------------------------
(* A step's filters *)

StepRefs(s) == {f \in plan.filters[s] : f.head # "param"}
\* SubstituteFilter collects the non-empty values of the referenced column once each.
ColumnValues(rows) == rows \ {Null}

\* SubstituteFilter fails: an unbound parameter, a step reference with another
\* operator, or a step without results.
SubstituteError(s, seen) ==
    \/ ~ bound /\ \E f \in plan.filters[s] : f.head = "param"
    \/ \E f \in StepRefs(s) : f.op = "=" \/ f.head \notin DOMAIN seen
\* It marks the step empty: a referenced column has no value.  The code stops at the
\* first such filter, so an error and an empty list in one step depend on the order of
\* its filters: both outcomes are possible.
SubstituteEmpty(s, seen) ==
    \E f \in StepRefs(s) : /\ f.op # "=" /\ f.head \in DOMAIN seen
                           /\ ColumnValues(seen[f.head]) = {}

\* What the query returns, its references replaced by lists of values (SQL: a null
\* satisfies neither IN nor NOT IN; no other operator reaches the query).
Passes(v, f, seen) ==
    /\ v # Null
    /\ (v \in ColumnValues(seen[f.head])) = (f.op # "not in")
QueryRows(s, seen) == {v \in base[s] : \A f \in StepRefs(s) : Passes(v, f, seen)}

-----------------------------------------------------------------------------
(* executePlanHandler and Execute *)

Reject ==
    /\ phase = "parse" /\ ~ ParsePlan(plan)
    /\ phase' = "done" /\ outcome' = [outcome EXCEPT !.status = "rejected"]
    /\ UNCHANGED <<plan, bound, base, todo, at, snapshot, stepResults, empty, trace, layerErr,
                   truncated>>

Accept ==
    /\ phase = "parse" /\ ParsePlan(plan) /\ phase' = "layer"
    /\ UNCHANGED <<plan, bound, base, todo, at, snapshot, stepResults, empty, trace, layerErr,
                   outcome, truncated>>

\* The next layer's goroutines are started (a layer of one step runs inline).
StartLayer ==
    /\ phase = "layer" /\ todo # {}
    /\ phase' = "run" /\ todo' = todo \ Layer(todo)
    /\ at' = [s \in Steps |-> IF s \in Layer(todo) THEN "snapshot" ELSE at[s]]
    /\ UNCHANGED <<plan, bound, base, snapshot, stepResults, empty, trace, layerErr, outcome,
                   truncated>>

\* stepResults[s.ID] = rows
Store(s, rows) ==
    [t \in {s} \cup DOMAIN stepResults |-> IF t = s THEN rows ELSE stepResults[t]]

SettleQuietly(s, status) ==
    at' = [at EXCEPT ![s] = "done"] /\ trace' = [trace EXCEPT ![s] = status] /\ UNCHANGED layerErr
Settle(s, status) ==
    /\ at' = [at EXCEPT ![s] = "done"] /\ trace' = [trace EXCEPT ![s] = status]
    /\ layerErr' = IF status = "failed" /\ layerErr = NoStep THEN s ELSE layerErr
SettleEmpty(s, status) ==
    /\ Settle(s, status)
    /\ empty' = empty \cup {s} /\ stepResults' = Store(s, {})

\* runStep under the lock: an empty upstream is inherited, otherwise the results are copied.
TakeSnapshot(s) ==
    /\ at[s] = "snapshot"
    /\ IF stepDependencies(plan, s) \cap empty # {}
       THEN SettleEmpty(s, "empty_upstream") /\ UNCHANGED snapshot
       ELSE /\ snapshot' = [snapshot EXCEPT ![s] = stepResults]
            /\ at' = [at EXCEPT ![s] = "bind"]
            /\ UNCHANGED <<stepResults, empty, trace, layerErr>>
    /\ UNCHANGED <<plan, bound, base, phase, todo, outcome, truncated>>

\* The filters are bound against the copy.
BindFilters(s) ==
    /\ at[s] = "bind"
    /\ \/ /\ SubstituteError(s, snapshot[s]) /\ Settle(s, "failed")
          /\ UNCHANGED <<stepResults, empty>>
       \/ SubstituteEmpty(s, snapshot[s]) /\ SettleEmpty(s, "empty")
       \/ /\ ~ SubstituteError(s, snapshot[s]) /\ ~ SubstituteEmpty(s, snapshot[s])
          /\ at' = [at EXCEPT ![s] = "query"]
          /\ UNCHANGED <<stepResults, empty, trace, layerErr>>
    /\ UNCHANGED <<plan, bound, base, phase, todo, snapshot, outcome, truncated>>

\* Engine.Execute answers with rows, and the goroutine stores them.
RunnerAnswers(s) ==
    /\ at[s] = "query" /\ Settle(s, "success")
    /\ stepResults' = Store(s, QueryRows(s, snapshot[s]))
    /\ UNCHANGED <<plan, bound, base, phase, todo, snapshot, empty, outcome, truncated>>

\* ExecuteSQL reads rows until rows.PlanNext is false and never asks rows.Err: a query cut
\* off by its timeout or its connection answers with the rows that had arrived.
RunnerTruncates(s) ==
    /\ at[s] = "query" /\ Settle(s, "success") /\ truncated' = TRUE
    /\ \E rows \in (SUBSET QueryRows(s, snapshot[s])) \ {QueryRows(s, snapshot[s])} :
           stepResults' = Store(s, rows)
    /\ UNCHANGED <<plan, bound, base, phase, todo, snapshot, empty, outcome>>

\* Engine.Execute fails, or its rows do not decode.
RunnerFails(s) ==
    /\ at[s] = "query" /\ Settle(s, "failed")
    /\ UNCHANGED <<plan, bound, base, phase, todo, snapshot, stepResults, empty, outcome, truncated>>

\* wg.Wait returns: the plan fails with the layer's first error, or goes on.
EndLayer ==
    /\ phase = "run" /\ \A s \in Steps : at[s] \in {"idle", "done"}
    /\ IF layerErr # NoStep
       THEN phase' = "done" /\ outcome' = [outcome EXCEPT !.status = "failed"]
       ELSE phase' = "layer" /\ UNCHANGED outcome
    /\ UNCHANGED <<plan, bound, base, todo, at, snapshot, stepResults, empty, trace, layerErr,
                   truncated>>

\* All layers are done: the answer is the output step's rows (a missing key is no rows).
Answer ==
    /\ phase = "layer" /\ todo = {} /\ phase' = "done"
    /\ outcome' = [status |-> "ok", rows |-> UNION {stepResults[s] : s \in DOMAIN stepResults \cap {plan.output}}]
    /\ UNCHANGED <<plan, bound, base, todo, at, snapshot, stepResults, empty, trace, layerErr,
                   truncated>>

StepAction(s) == TakeSnapshot(s) \/ BindFilters(s) \/ RunnerAnswers(s) \/ RunnerTruncates(s) \/ RunnerFails(s)
PlanNext == Reject \/ Accept \/ StartLayer \/ EndLayer \/ Answer \/ \E s \in Steps : StepAction(s)

PlanSpec == PlanInit /\ [][PlanNext]_planVars
\* Every goroutine is scheduled and every query returns: ExecuteSQL runs under a
\* statement timeout.
PlanFairSpec == PlanSpec /\ WF_planVars(PlanNext)

-----------------------------------------------------------------------------
(* What the rows mean: each step's filters, over the rows their references mean *)

Means(m) == m \in [Steps -> Rows] /\ \A s \in Steps : m[s] = QueryRows(s, m)
Meaning == CHOOSE m \in [Steps -> Rows] : Means(m)

\* A 'not in' filter over a column without values: the code answers an empty step where
\* the filter excludes nothing (src/services/lakehouse-sql-server/lakehouse/plan_executor.go:348).
ExcludesNothing == \E s \in Steps : \E f \in StepRefs(s) :
    f.op = "not in" /\ ColumnValues(Meaning[f.head]) = {}

(* Whatever the order in which the goroutines of a layer run, a plan that is answered is
   answered with the rows its filters mean: every reference replaced by the values its
   step finally has.  (Except behind a 'not in' over nothing, see ExcludesNothing, and
   after a query whose end was not an end, see RunnerTruncates.) *)
AnswerIsTheMeaning ==
    outcome.status = "ok" /\ ~ truncated /\ ~ ExcludesNothing => outcome.rows = Meaning[plan.output]

(* The trace of a finished plan accounts for every step: an answered plan has run all of
   them; a failed one names a failed step, has settled every step of that layer and of
   the layers before it, and reports exactly the later layers as pending. *)
TraceIsComplete ==
    /\ outcome.status = "ok" => \A s \in Steps : trace[s] \notin {"pending", "failed"}
    /\ outcome.status = "failed" =>
         /\ trace[layerErr] = "failed"
         /\ \A s \in Steps : trace[s] = "pending" <=> s \in todo
         /\ \A s \in Steps : trace[s] # "pending" =>
                stepDependencies(plan, s) \subseteq {t \in Steps : trace[t] \notin {"pending", "failed"}}

(* A plan's outcome is what its filters mean, and its trace says how it came about. *)
PlanOutcome == PlanTypes /\ AnswerIsTheMeaning /\ TraceIsComplete

(* Every request is answered: no plan keeps Execute walking its layers for ever. *)
PlanEnds == <>(phase = "done")
=============================================================================
