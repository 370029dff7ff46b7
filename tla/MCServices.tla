----------------------------- MODULE MCServices -----------------------------
(***************************************************************************)
(* Three components that share no state, checked one at a time: the project *)
(* lock, the progress reporter of a job and the plan executor.  "part" is   *)
(* the one that runs; the others stay in their initial state.               *)
(***************************************************************************)
EXTENDS MCProjectLock, ProgressReporter, PlanExecutor
CONSTANTS s1, s2, s3

MCPhases == {"parse", "load"}

ASSUME ReporterConstants == ReporterAssumption

VARIABLE part
allVars == <<part, vars, repVars, planVars>>

-----------------------------------------------------------------------------
\* Plans of three steps (a chain, a fork, a join and a diamond's sides), plans
\* with a filter that misuses a reference, and the malformed plans ParsePlan must
\* refuse.

F(op, head) == [op |-> op, head |-> head]
Refs(hs) == UNION {{{}, {F("in", h)}, {F("not in", h)}} : h \in hs}
FiltersOf(bs, cs) == (s1 :> {}) @@ (s2 :> bs) @@ (s3 :> cs)
Shapes == {FiltersOf({}, {F("in", s1), F("in", s2)}), FiltersOf({}, {F("not in", s2)})}
          \cup {FiltersOf({F("in", s1)}, cs) : cs \in Refs({s1, s2}) \cup {{F("not in", s1), F("in", s2)}}}
          \cup {FiltersOf({F("not in", s1)}, {F("in", s2)})}
Misused == {FiltersOf({F("=", "param"), F("in", s1)}, {F("in", s2)}),
            FiltersOf({F("=", "param")}, {F("=", s1), F("in", s2)}),
            FiltersOf({F("in", s1)}, {F("=", "param")})}
Malformed == {FiltersOf({F("in", s3)}, {F("in", s2)}), FiltersOf({F("in", s2)}, {}),
              FiltersOf({F("in", "ghost")}, {}), FiltersOf({F("=", "undeclared")}, {})}
MCPlans == {[filters |-> f, output |-> s3] : f \in Shapes \cup Malformed}
           \cup {[filters |-> f, output |-> s2] : f \in Misused}
           \cup {[filters |-> FiltersOf({}, {}), output |-> "ghost"]}

ASSUME ExecutorConstants == PlanConstants

-----------------------------------------------------------------------------
\* One of PlanExecutor's initial states, while another component is checked.
PlanIdle == /\ plan = CHOOSE p \in Plans : TRUE
            /\ bound /\ base = [s \in Steps |-> {}]

MCInit == /\ part \in {"lock", "reporter", "executor"}
          /\ Init /\ RepInit
          /\ PlanInit /\ (part # "executor" => PlanIdle)

\* A step of each component, when it is the one that runs.
OfLock(A) == part = "lock" /\ A /\ UNCHANGED <<part, repVars, planVars>>
OfReporter(A) == part = "reporter" /\ A /\ UNCHANGED <<part, vars, planVars>>
OfExecutor(A) == part = "executor" /\ A /\ UNCHANGED <<part, vars, repVars>>

MCNext == OfLock(Next) \/ OfReporter(RepNext) \/ OfExecutor(PlanNext)

\* The fairness of each component's FairSpec.
MCFairness ==
    /\ \A i \in Importers : SF_allVars(OfLock(Import(i)))
    /\ \A o \in Others : SF_allVars(OfLock(OtherTakesConn(o))) /\ WF_allVars(OfLock(OtherDone(o)))
    /\ WF_allVars(OfReporter(FlightLands \/ FlightLost))
    /\ WF_allVars(OfReporter(HandlerReturns))
    /\ WF_allVars(OfReporter(MarkTerminal))
    /\ WF_allVars(OfReporter(FinalFlush))
    /\ WF_allVars(OfExecutor(PlanNext))

MCSpec == MCInit /\ [][MCNext]_allVars /\ MCFairness

-----------------------------------------------------------------------------
\* Nobody waits for ever: an import gets its connections and its lock and ends
\* (WithProjectLock), a statement gets a connection, a reported update is handed to
\* the database (FlushLoop and the final flush), and a plan is answered (Execute).
EveryCallReturns ==
    /\ ImportEnds /\ StatementServed /\ UpdatesAreFlushed
    /\ (part = "executor" => PlanEnds)
=============================================================================
