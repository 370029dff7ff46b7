--------------------------- MODULE AgentTurnProofs ---------------------------
(***************************************************************************)
(* Proofs about AgentTurn for every set of turns, every pattern of features *)
(* and every load: the plan, the mission that mirrors it and the answer     *)
(* they end with, and the order of the conversation's rows.  Then about the *)
(* judge, the synthesizer and reflection, for every input of theirs.        *)
(***************************************************************************)
EXTENDS AgentTurn, Judge, Answer, FiniteSetTheorems, WellFoundedInduction, TLAPS

Ids == FeatureIds \cup SubQuestions
Tasks == [status : TaskStates, budget : 0..RetryBudget]
Missions ==
    [status : {"active", "complete", "partial", "unanswerable"},
     tasks : UNION {[S -> Tasks] : S \in SUBSET Ids}, cursor : Ids \cup {""},
     root : BOOLEAN, reach : {"none", "feasible", "infeasible"},
     output : Answers, finished : BOOLEAN]
Controls ==
    [idx : Nat, n : Nat, round : Nat, maxRounds : Nat, synthFails : 0..SynthMaxFails,
     answer : Answers, followUp : BOOLEAN, card : BOOLEAN]
Ledgers ==
    [FeatureIds -> [state : {"not_started", "active", "passing", "blocked"}, retries : 0..RetryBudget]]
Rows == [turn : Turns, n : Nat, idx : Nat, role : {"user", "assistant"}]

\* One feature at a time: never two are active, and one is while any is open.
OneActive(l) ==
    /\ \A f, g \in FeatureIds : l[f].state = "active" /\ l[g].state = "active" => f = g
    /\ (\E f \in FeatureIds : ~IsTerminal(l[f].state)) => \E f \in FeatureIds : l[f].state = "active"

\* A plan that was not started is empty; one that was obeys WIP=1 and the nudge.
PlanOK(p) ==
    \/ p = NoPlan
    \/ /\ p \in [on : {TRUE}, ledger : Ledgers, calls : Nat, nudged : BOOLEAN]
       /\ OneActive(p.ledger)
       /\ p.nudged <=> p.calls >= NudgeThreshold

MissionOK(m) == m \in Missions /\ (m.root => m.status = "unanswerable")

\* With a plan the tasks are its features, and the budgets of an open one agree.
Agree(p, m) ==
    p.on => /\ DOMAIN m.tasks = FeatureIds
            /\ \A f \in FeatureIds : ~IsTerminal(m.tasks[f].status) =>
                   m.tasks[f].budget + p.ledger[f].retries = RetryBudget

\* Between two tool calls no task is active (so that the next one always starts,
\* and never on an exhausted budget), and a task passes only with its feature.
Mirrors(p, m) ==
    \A f \in DOMAIN m.tasks :
        /\ m.tasks[f].status # "active"
        /\ m.tasks[f].status = "passing" => p.on /\ p.ledger[f].state = "passing"

BeforeLoop == {"unsent", "idle", "rejected", "recall", "judge"}

\* What holds of one turn, whatever the others do: its rounds are bounded; its
\* plan and its mission agree; and once it is over the mission keeps its answer.
ControlOK(t) == ctl[t] \in Controls /\ ctl[t].round <= ctl[t].maxRounds
ShadowOK(t) ==
    /\ PlanOK(plan[t]) /\ MissionOK(mission[t]) /\ Agree(plan[t], mission[t])
    /\ at[t] \in {"loop", "ending"} => Mirrors(plan[t], mission[t])
    /\ at[t] \in BeforeLoop => plan[t] = NoPlan /\ DOMAIN mission[t].tasks = {}
    /\ at[t] = "done" /\ agent # "explore" =>
         mission[t].finished /\ mission[t].output = ctl[t].answer /\ stored[t] = mission[t]

\* The arrays are indexed by the turns.
Arrays ==
    /\ agent \in AgentKinds
    /\ at \in [Turns -> {"unsent", "idle", "rejected", "recall", "judge", "loop", "ending", "done"}]
    /\ ctl = [t \in Turns |-> ctl[t]] /\ plan = [t \in Turns |-> plan[t]]
    /\ mission = [t \in Turns |-> mission[t]] /\ stored = [t \in Turns |-> stored[t]]
    /\ seen \in [Turns -> SUBSET Turns]

\* The rows of a turn are numbered without a gap from the index it computed; the
\* rows of the turns it saw over lie below that index, and get no successors.
RowsInv ==
    /\ rows \subseteq Rows
    /\ \E b \in Nat : \A r \in rows : r.idx <= b
    /\ \A r \in rows :
         /\ at[r.turn] \notin {"unsent", "idle", "rejected", "recall"}
         /\ r.n <= ctl[r.turn].n
         /\ r.idx + ctl[r.turn].n = ctl[r.turn].idx + r.n
    /\ \A t \in Turns, u \in Turns : u \in seen[t] =>
         /\ at[u] = "done" /\ at[t] \notin {"unsent", "idle", "rejected"}
         /\ \A r \in rows : r.turn = u => r.idx + ctl[t].n < ctl[t].idx
    /\ \A t \in Turns : at[t] \in {"unsent", "idle", "rejected", "recall", "judge"} => ctl[t].n = 0

AgentInv == Arrays /\ (\A t \in Turns : ControlOK(t) /\ ShadowOK(t)) /\ RowsInv

\* From mission m to n one task changes (and, with it, the status and the cursor).
TaskMoved(m, n, id, task) ==
    /\ MissionOK(n) /\ DOMAIN n.tasks = DOMAIN m.tasks
    /\ n.tasks[id] = task /\ \A i \in DOMAIN m.tasks \ {id} : n.tasks[i] = m.tasks[i]

\* From ledger l to k a call about feature f has the outcome out.
LedgerStep(l, k, f, out) ==
    /\ k \in Ledgers /\ OneActive(k)
    /\ out \in {"", "passing", "retry", "blocked"}
    /\ out # "" => f \in FeatureIds /\ l[f].state = "active"
    /\ out = "" => k = l
    /\ out = "retry" => l[f].retries < RetryBudget /\ k[f].retries = l[f].retries + 1
    /\ out # "retry" => \A g \in FeatureIds : k[g].retries = l[g].retries
    /\ out = "passing" => k[f].state = "passing"
    /\ \A g \in FeatureIds : g # f => k[g].retries = l[g].retries
    /\ \A g \in FeatureIds : l[g].state = "passing" => k[g].state = "passing"

\* Agree and Mirrors, of one task and its feature.
InStep(l, task, f) ==
    /\ ~IsTerminal(task.status) => task.budget + l[f].retries = RetryBudget
    /\ task.status # "active"
    /\ task.status = "passing" => l[f].state = "passing"

-----------------------------------------------------------------------------
(* The operators of the model *)

\* A non-empty set of naturals has a smallest element.
LEMMA NatHasMin ==
    ASSUME NEW T \in SUBSET Nat, T # {}
    PROVE  \E x \in T : \A y \in T : x <= y
<1> DEFINE R == OpToRel(<, Nat)
<1>1. IsWellFoundedOn(R, Nat)
  BY Zenon, NatLessThanWellFounded
<1>2. PICK x \in T : \A y \in T : ~ (<<y, x>> \in R)
  <2> HIDE DEF R
  <2> QED BY <1>1, WFMin
<1>3. R = {ss \in Nat \X Nat : ss[1] < ss[2]}
  BY Zenon DEF OpToRel
<1>4. ASSUME NEW y \in T PROVE ~ (y < x)
  <2> HIDE DEF R
  <2>1. <<y, x>> \in Nat \X Nat /\ <<y, x>>[1] = y /\ <<y, x>>[2] = x
    OBVIOUS
  <2> QED BY <2>1, <1>2, <1>3
<1> QED BY <1>4

\* The index a turn computes for its first row lies above every row there is.
LEMMA NextStepIndexIsFree ==
    ASSUME rows \subseteq Rows, \E b \in Nat : \A r \in rows : r.idx <= b
    PROVE  NextStepIndex \in Nat /\ \A r \in rows : r.idx < NextStepIndex
<1> DEFINE T == {b \in Nat : \A r \in rows : r.idx <= b}
<1> DEFINE C == {r.idx : r \in rows} \cup {0}
<1>1. PICK m \in T : \A b \in T : m <= b
  <2>1. T # {} /\ T \in SUBSET Nat
    OBVIOUS
  <2> QED BY <2>1, NatHasMin
<1>2. \A r \in rows : r.idx \in Nat
  BY DEF Rows
<1>3. m \in C
  <2>1. CASE m = 0
    BY <2>1
  <2>2. CASE m # 0
    <3>1. m \in Nat /\ m - 1 \in Nat /\ ~ (m <= m - 1)
      BY <2>2
    <3>2. m - 1 \notin T
      BY <3>1, <1>1
    <3>3. PICK r \in rows : ~ (r.idx <= m - 1)
      BY <3>1, <3>2
    <3> QED BY <3>1, <3>3, <1>1, <1>2
  <2> QED BY <2>1, <2>2
<1>4. \E n \in C : \A r \in rows : r.idx <= n
  BY <1>1, <1>3
<1>5. MaxStepIndex \in C /\ \A r \in rows : r.idx <= MaxStepIndex
  BY <1>4 DEF MaxStepIndex
<1>6. MaxStepIndex \in Nat
  BY <1>5, <1>2
<1> QED BY <1>5, <1>6, <1>2 DEF NextStepIndex

LEMMA DeriveStatusType ==
    ASSUME NEW tasks, NEW root \in BOOLEAN
    PROVE  /\ DeriveStatus(tasks, root) \in {"active", "complete", "partial", "unanswerable"}
           /\ root => DeriveStatus(tasks, root) = "unanswerable"
BY DEF DeriveStatus

\* A transition of one task: that task's status changes, and the mission's.
LEMMA MoveToEffect ==
    ASSUME NEW m, MissionOK(m), NEW id \in DOMAIN m.tasks, NEW status \in TaskStates,
           NEW cursor \in Ids \cup {""}
    PROVE  TaskMoved(m, MoveTo(m, id, status, cursor), id,
                     [status |-> status, budget |-> m.tasks[id].budget])
<1> DEFINE tasks == [m.tasks EXCEPT ![id].status = status]
<1>1. PICK S \in SUBSET Ids : m.tasks \in [S -> Tasks]
  BY DEF MissionOK, Missions
<1>2. /\ tasks \in [S -> Tasks] /\ \A i \in S \ {id} : tasks[i] = m.tasks[i]
      /\ tasks[id] = [status |-> status, budget |-> m.tasks[id].budget]
  BY <1>1 DEF Tasks
<1>3. DeriveStatus(tasks, m.root) \in {"active", "complete", "partial", "unanswerable"}
      /\ (m.root => DeriveStatus(tasks, m.root) = "unanswerable")
  BY DeriveStatusType DEF MissionOK, Missions
<1> HIDE DEF tasks
<1>4. MoveTo(m, id, status, cursor) =
        [m EXCEPT !.tasks = tasks, !.cursor = cursor, !.status = DeriveStatus(tasks, m.root)]
  BY DEF MoveTo, tasks
<1>5. tasks \in UNION {[Q -> Tasks] : Q \in SUBSET Ids}
  BY <1>2
<1>6. MissionOK(MoveTo(m, id, status, cursor)) /\ MoveTo(m, id, status, cursor).tasks = tasks
  BY <1>3, <1>4, <1>5 DEF MissionOK, Missions
<1> QED BY <1>1, <1>2, <1>6 DEF TaskMoved

\* PickNext finds a feature that was not started, if there is one.
LEMMA PickNextEffect ==
    ASSUME Len(Features) \in Nat, NEW l
    PROVE  \/ PickNext(l) = 0 /\ \A f \in FeatureIds : l[f].state # "not_started"
           \/ /\ PickNext(l) \in 1..Len(Features) /\ Features[PickNext(l)] \in FeatureIds
              /\ l[Features[PickNext(l)]].state = "not_started"
<1> DEFINE open == {i \in 1..Len(Features) : l[Features[i]].state = "not_started"}
<1>1. CASE open = {}
  BY <1>1 DEF PickNext, FeatureIds
<1>2. CASE open # {}
  <2>1. open \in SUBSET Nat
    OBVIOUS
  <2>2. \E i \in open : \A j \in open : i <= j
    <3> HIDE DEF open
    <3> QED BY <1>2, <2>1, NatHasMin
  <2>3. PickNext(l) \in open
    BY <1>2, <2>2 DEF PickNext
  <2> QED BY <2>3 DEF FeatureIds
<1> QED BY <1>1, <1>2

\* ActivateNext restores WIP=1 and changes nothing but one state.
LEMMA ActivateNextEffect ==
    ASSUME Len(Features) \in Nat, NEW l \in Ledgers,
           \A f, g \in FeatureIds : l[f].state = "active" /\ l[g].state = "active" => f = g
    PROVE  /\ ActivateNext(l) \in Ledgers /\ OneActive(ActivateNext(l))
           /\ \A f \in FeatureIds :
                /\ ActivateNext(l)[f].retries = l[f].retries
                /\ \/ ActivateNext(l)[f].state = l[f].state
                   \/ l[f].state = "not_started" /\ ActivateNext(l)[f].state = "active"
<1>1. CASE PickNext(l) = 0 \/ \E f \in FeatureIds : l[f].state = "active"
  <2>1. ActivateNext(l) = l
    BY <1>1 DEF ActivateNext
  <2>2. (\E f \in FeatureIds : ~IsTerminal(l[f].state)) => \E f \in FeatureIds : l[f].state = "active"
    BY <1>1, PickNextEffect DEF Ledgers, IsTerminal
  <2> QED BY <2>1, <2>2 DEF OneActive
<1>2. CASE ~(PickNext(l) = 0 \/ \E f \in FeatureIds : l[f].state = "active")
  <2> DEFINE g == Features[PickNext(l)]
  <2>1. g \in FeatureIds /\ l[g].state = "not_started"
    BY <1>2, PickNextEffect
  <2>2. ActivateNext(l) = [l EXCEPT ![g].state = "active"]
    BY <1>2 DEF ActivateNext
  <2> HIDE DEF g
  <2>3. /\ ActivateNext(l) \in Ledgers
        /\ \A f \in FeatureIds \ {g} : ActivateNext(l)[f] = l[f]
        /\ ActivateNext(l)[g] = [state |-> "active", retries |-> l[g].retries]
    BY <2>1, <2>2 DEF Ledgers
  <2> QED BY <1>2, <2>1, <2>3 DEF OneActive
<1> QED BY <1>1, <1>2

LEMMA NewLedgerEffect ==
    ASSUME Len(Features) \in Nat, RetryBudget \in Nat
    PROVE  /\ NewFeatureLedger \in Ledgers /\ OneActive(NewFeatureLedger)
           /\ \A f \in FeatureIds : NewFeatureLedger[f].retries = 0
<1> DEFINE l == [f \in FeatureIds |-> NotStarted]
<1>1. l \in Ledgers /\ \A f \in FeatureIds : l[f].state = "not_started" /\ l[f].retries = 0
  BY DEF NotStarted, Ledgers
<1>2. NewFeatureLedger = ActivateNext(l)
  BY DEF NewFeatureLedger
<1> HIDE DEF l
<1>3. \A f, g \in FeatureIds : l[f].state = "active" /\ l[g].state = "active" => f = g
  BY <1>1
<1> QED BY <1>1, <1>2, <1>3, ActivateNextEffect

LEMMA OutcomeCases ==
    ASSUME NEW l, NEW f, NEW verdict
    PROVE  LET out == Outcome(l, f, verdict)
           IN /\ out \in {"", "passing", "retry", "blocked"}
              /\ out # "" => f \in FeatureIds /\ l[f].state = "active"
              /\ out = "retry" => l[f].retries < RetryBudget
<1>1. CASE verdict \notin {"pass", "fail", "blocked"} \/ f \notin FeatureIds \/ l[f].state # "active"
  BY <1>1 DEF Outcome
<1>2. CASE ~(verdict \notin {"pass", "fail", "blocked"} \/ f \notin FeatureIds \/ l[f].state # "active")
  BY <1>2 DEF Outcome
<1> QED BY <1>1, <1>2

\* verify_feature: the ledger keeps WIP=1, an accepted verdict changes the
\* feature it is about, and a feature that passed stays passed.
LEMMA VerifyFeatureEffect ==
    ASSUME Len(Features) \in Nat, RetryBudget \in Nat, NEW l \in Ledgers, OneActive(l),
           NEW f, NEW verdict
    PROVE  LedgerStep(l, VerifyFeature(l, f, verdict), f, Outcome(l, f, verdict))
<1> DEFINE out == Outcome(l, f, verdict)
<1> DEFINE k == VerifyFeature(l, f, verdict)
<1>1. /\ out \in {"", "passing", "retry", "blocked"}
      /\ out # "" => f \in FeatureIds /\ l[f].state = "active"
      /\ out = "retry" => l[f].retries < RetryBudget
  BY OutcomeCases
<1>2. CASE out = ""
  BY <1>2 DEF VerifyFeature, LedgerStep
<1>3. CASE out = "retry"
  <2> DEFINE j == [l EXCEPT ![f] = [state |-> "not_started", retries |-> @.retries + 1]]
  <2>1. /\ j \in Ledgers /\ \A g \in FeatureIds \ {f} : j[g] = l[g]
        /\ j[f] = [state |-> "not_started", retries |-> l[f].retries + 1]
    BY <1>1, <1>3 DEF Ledgers
  <2>2. k = ActivateNext(j)
    BY <1>3 DEF VerifyFeature
  <2> HIDE DEF j, k
  <2>3. \A g, h \in FeatureIds : j[g].state = "active" /\ j[h].state = "active" => g = h
    BY <2>1 DEF OneActive
  <2>4. /\ ActivateNext(j) \in Ledgers /\ OneActive(ActivateNext(j))
        /\ \A g \in FeatureIds :
             /\ ActivateNext(j)[g].retries = j[g].retries
             /\ \/ ActivateNext(j)[g].state = j[g].state
                \/ j[g].state = "not_started" /\ ActivateNext(j)[g].state = "active"
    BY <2>1, <2>3, ActivateNextEffect
  <2>5. k \in Ledgers /\ OneActive(k) /\ k[f].retries = l[f].retries + 1
        /\ \A g \in FeatureIds : g # f => k[g].retries = l[g].retries
    BY <1>1, <1>3, <2>1, <2>2, <2>4
  <2>6. \A g \in FeatureIds : l[g].state = "passing" => k[g].state = "passing"
    BY <1>1, <1>3, <2>1, <2>2, <2>4
  <2>7. out \in {"", "passing", "retry", "blocked"} /\ f \in FeatureIds /\ l[f].state = "active"
        /\ l[f].retries < RetryBudget
    BY <1>1, <1>3
  <2> HIDE DEF out
  <2>8. LedgerStep(l, k, f, out)
    BY ONLY <1>3, <2>5, <2>6, <2>7 DEF LedgerStep
  <2> QED BY <2>8 DEF k, out
<1>4. CASE out \in {"passing", "blocked"}
  <2> DEFINE j == [l EXCEPT ![f].state = out]
  <2>2. k = ActivateNext(j)
    BY <1>4 DEF VerifyFeature
  <2> HIDE DEF out
  <2>1. /\ j \in Ledgers /\ \A g \in FeatureIds \ {f} : j[g] = l[g]
        /\ j[f] = [state |-> out, retries |-> l[f].retries]
    BY <1>1, <1>4 DEF Ledgers
  <2> HIDE DEF j, k
  <2>3. \A g, h \in FeatureIds : j[g].state = "active" /\ j[h].state = "active" => g = h
    BY <2>1, <1>4 DEF OneActive
  <2>4. /\ ActivateNext(j) \in Ledgers /\ OneActive(ActivateNext(j))
        /\ \A g \in FeatureIds :
             /\ ActivateNext(j)[g].retries = j[g].retries
             /\ \/ ActivateNext(j)[g].state = j[g].state
                \/ j[g].state = "not_started" /\ ActivateNext(j)[g].state = "active"
    BY <2>1, <2>3, ActivateNextEffect
  <2>f. f \in FeatureIds
    BY <1>1, <1>4
  <2>j. j[f].state = out /\ j[f].retries = l[f].retries
    BY ONLY <2>1
  <2>5. k \in Ledgers /\ OneActive(k)
    BY <2>2, <2>4
  <2>8. \A g \in FeatureIds : k[g].retries = l[g].retries
    BY ONLY <2>j, <2>1, <2>2, <2>4
  <2>6. \A g \in FeatureIds : l[g].state = "passing" => k[g].state = "passing"
    BY <1>1, <1>4, <2>1, <2>2, <2>4
  <2>7. k[f].state = out
    BY ONLY <1>4, <2>f, <2>j, <2>2, <2>4
  <2>9. LedgerStep(l, k, f, out)
    BY ONLY <1>1, <1>4, <2>5, <2>6, <2>7, <2>8 DEF LedgerStep
  <2> QED BY <2>9 DEF k, out
<1> QED BY <1>1, <1>2, <1>3, <1>4

\* A finished round keeps the thrash counters of the plan in step.
LEMMA BudgetKeepsPlan ==
    ASSUME TurnAssumption, NEW p, PlanOK(p), NEW tool
    PROVE  /\ PlanOK(CheckPlanToolBudget(p, tool))
           /\ CheckPlanToolBudget(p, tool).on = p.on
           /\ CheckPlanToolBudget(p, tool).ledger = p.ledger
<1> DEFINE c == CheckPlanToolBudget(p, tool)
<1>1. CASE ~p.on \/ tool = "complete_analysis"
  BY <1>1 DEF CheckPlanToolBudget
<1>2. CASE p.on /\ tool # "complete_analysis"
  <2>1. p \in [on : {TRUE}, ledger : Ledgers, calls : Nat, nudged : BOOLEAN]
        /\ OneActive(p.ledger) /\ (p.nudged <=> p.calls >= NudgeThreshold)
    <3>1. NoPlan.on = FALSE
      BY DEF NoPlan
    <3>2. p # NoPlan
      BY <1>2, <3>1
    <3> QED BY <3>2 DEF PlanOK
  <2>2. NudgeThreshold \in Nat \ {0}
    BY DEF TurnAssumption
  <2>3. CASE tool \in {"start_analysis_plan", "verify_feature"}
    <3>1. c = [p EXCEPT !.calls = 0, !.nudged = FALSE]
      BY <1>2, <2>3 DEF CheckPlanToolBudget
    <3> HIDE DEF c
    <3>2. c \in [on : {TRUE}, ledger : Ledgers, calls : Nat, nudged : BOOLEAN]
          /\ c.ledger = p.ledger /\ c.calls = 0 /\ c.nudged = FALSE /\ c.on = TRUE /\ p.on = TRUE
      BY ONLY <2>1, <3>1
    <3>n. ~(c.calls >= NudgeThreshold)
      BY <2>2, <3>2
    <3>3. PlanOK(c)
      BY ONLY <2>1, <3>n, <3>2 DEF PlanOK
    <3> QED BY <3>2, <3>3 DEF c
  <2>4. CASE tool \notin {"start_analysis_plan", "verify_feature"}
    <3>c. p.calls \in Nat /\ p.calls + 1 \in Nat
      BY <2>1
    <3>1. c = [p EXCEPT !.calls = p.calls + 1, !.nudged = p.nudged \/ p.calls + 1 >= NudgeThreshold]
      BY <1>2, <2>4 DEF CheckPlanToolBudget
    <3> HIDE DEF c
    <3>2. CASE p.calls + 1 >= NudgeThreshold
      <4>1. c = [p EXCEPT !.calls = p.calls + 1, !.nudged = TRUE]
        BY <3>1, <3>2
      <4>2. c \in [on : {TRUE}, ledger : Ledgers, calls : Nat, nudged : BOOLEAN]
            /\ c.ledger = p.ledger /\ c.calls = p.calls + 1 /\ c.nudged = TRUE /\ c.on = TRUE /\ p.on = TRUE
        BY ONLY <2>1, <3>c, <4>1
      <4>3. PlanOK(c)
        BY <2>1, <2>2, <3>2, <4>2 DEF PlanOK
      <4> QED BY <4>2, <4>3 DEF c
    <3>3. CASE ~(p.calls + 1 >= NudgeThreshold)
      <4>0. p.nudged = FALSE
        BY <2>1, <2>2, <3>3
      <4>1. c = [p EXCEPT !.calls = p.calls + 1, !.nudged = FALSE]
        BY <3>1, <3>3, <4>0
      <4>2. c \in [on : {TRUE}, ledger : Ledgers, calls : Nat, nudged : BOOLEAN]
            /\ c.ledger = p.ledger /\ c.calls = p.calls + 1 /\ c.nudged = FALSE /\ c.on = TRUE /\ p.on = TRUE
        BY ONLY <2>1, <3>c, <4>1
      <4>3. PlanOK(c)
        BY <2>1, <2>2, <3>3, <4>2 DEF PlanOK
      <4> QED BY <4>2, <4>3 DEF c
    <3> QED BY <3>2, <3>3
  <2> QED BY <2>3, <2>4
<1> QED BY <1>1, <1>2

\* verify_feature and the counters: the plan stays well-formed, its ledger is
\* the one VerifyFeature computes.
LEMMA VerifyKeepsPlan ==
    ASSUME TurnAssumption, NEW p, PlanOK(p), NEW f, NEW verdict
    PROVE  LET q == CheckPlanToolBudget(
                        IF p.on THEN [p EXCEPT !.ledger = VerifyFeature(p.ledger, f, verdict)] ELSE p,
                        "verify_feature")
           IN /\ PlanOK(q) /\ q.on = p.on
              /\ p.on => q.ledger = VerifyFeature(p.ledger, f, verdict)
              /\ ~p.on => q.ledger = p.ledger
<1> DEFINE k == VerifyFeature(p.ledger, f, verdict)
<1>1. CASE p.on
  <2>1. p \in [on : {TRUE}, ledger : Ledgers, calls : Nat, nudged : BOOLEAN]
        /\ OneActive(p.ledger) /\ (p.nudged <=> p.calls >= NudgeThreshold)
    <3>1. NoPlan.on = FALSE
      BY DEF NoPlan
    <3>2. p # NoPlan
      BY <1>1, <3>1
    <3> QED BY <3>2 DEF PlanOK
  <2>2. Len(Features) \in Nat /\ RetryBudget \in Nat /\ p.ledger \in Ledgers
    BY <2>1 DEF TurnAssumption
  <2>3. k \in Ledgers /\ OneActive(k)
    <3>1. LedgerStep(p.ledger, k, f, Outcome(p.ledger, f, verdict))
      BY <2>1, <2>2, VerifyFeatureEffect
    <3> QED BY <3>1 DEF LedgerStep
  <2> DEFINE j == [p EXCEPT !.ledger = k]
  <2> HIDE DEF k
  <2>4. /\ j \in [on : {TRUE}, ledger : Ledgers, calls : Nat, nudged : BOOLEAN]
        /\ j.ledger = k /\ j.nudged = p.nudged /\ j.calls = p.calls /\ j.on = TRUE
    BY ONLY <2>1, <2>3
  <2>5. PlanOK(j)
    <3> HIDE DEF j
    <3> QED BY <2>1, <2>3, <2>4 DEF PlanOK
  <2>6. /\ PlanOK(CheckPlanToolBudget(j, "verify_feature"))
        /\ CheckPlanToolBudget(j, "verify_feature").on = j.on
        /\ CheckPlanToolBudget(j, "verify_feature").ledger = j.ledger
    <3> HIDE DEF j
    <3> QED BY <2>5, BudgetKeepsPlan
  <2> QED BY <1>1, <2>1, <2>4, <2>6 DEF k
<1>2. CASE ~p.on
  BY <1>2, BudgetKeepsPlan
<1> QED BY <1>1, <1>2

\* What an outcome does to an active task.
MirroredTask(task, out) ==
    CASE out = "passing" -> [status |-> "passing", budget |-> task.budget]
      [] out = "retry" -> [status |-> "pending_retry", budget |-> task.budget - 1]
      [] OTHER -> [status |-> "blocked", budget |-> task.budget]

LEMMA MirrorVerifyEffect ==
    ASSUME RetryBudget \in Nat, NEW m, MissionOK(m), NEW f \in DOMAIN m.tasks, NEW out,
           out = "retry" => m.tasks[f].budget > 0
    PROVE  TaskMoved(m, MirrorVerify(m, f, out), f, MirroredTask(m.tasks[f], out))
<1> DEFINE c == CursorWithout(m, f)
<1>1. c \in Ids \cup {""}
  BY DEF CursorWithout, MissionOK, Missions
<1>2. CASE out = "passing"
  <2>1. MirrorVerify(m, f, out) = MoveTo(m, f, "passing", c)
    BY <1>2 DEF MirrorVerify, Complete
  <2>2. "passing" \in TaskStates
    BY DEF TaskStates
  <2> HIDE DEF c
  <2>3. MirroredTask(m.tasks[f], out) = [status |-> "passing", budget |-> m.tasks[f].budget]
    BY <1>2 DEF MirroredTask
  <2> QED BY <1>1, <2>1, <2>2, <2>3, MoveToEffect
<1>3. CASE out = "retry"
  <2> DEFINE n == MoveTo(m, f, "pending_retry", c)
  <2>1. MirrorVerify(m, f, out) = [n EXCEPT !.tasks[f].budget = @ - 1]
    BY <1>3 DEF MirrorVerify, Retry
  <2>2. "pending_retry" \in TaskStates
    BY DEF TaskStates
  <2> HIDE DEF c
  <2>3. /\ MissionOK(n) /\ DOMAIN n.tasks = DOMAIN m.tasks
        /\ \A i \in DOMAIN m.tasks \ {f} : n.tasks[i] = m.tasks[i]
        /\ n.tasks[f] = [status |-> "pending_retry", budget |-> m.tasks[f].budget]
    <3>1. TaskMoved(m, n, f, [status |-> "pending_retry", budget |-> m.tasks[f].budget])
      BY <1>1, <2>2, MoveToEffect
    <3> HIDE DEF n
    <3> QED BY <3>1 DEF TaskMoved
  <2> HIDE DEF n
  <2> DEFINE ts == [n.tasks EXCEPT ![f].budget = @ - 1]
  <2>4. PICK S \in SUBSET Ids : n.tasks \in [S -> Tasks]
    BY <2>3 DEF MissionOK, Missions
  <2>5. n.tasks[f].budget \in Nat /\ n.tasks[f].budget > 0 /\ n.tasks[f].budget = m.tasks[f].budget
    BY <1>3, <2>3, <2>4 DEF Tasks
  <2>6. /\ ts \in [S -> Tasks] /\ \A i \in S \ {f} : ts[i] = n.tasks[i]
        /\ ts[f] = [status |-> "pending_retry", budget |-> n.tasks[f].budget - 1]
    BY <2>3, <2>4, <2>5 DEF Tasks
  <2>7. MirrorVerify(m, f, out) = [n EXCEPT !.tasks = ts]
    BY <2>1
  <2> HIDE DEF ts
  <2>8. MissionOK(MirrorVerify(m, f, out)) /\ MirrorVerify(m, f, out).tasks = ts
    <3>1. ts \in UNION {[Q -> Tasks] : Q \in SUBSET Ids}
      BY <2>6
    <3> QED BY <2>3, <2>7, <3>1 DEF MissionOK, Missions
  <2>9. MirroredTask(m.tasks[f], out) = [status |-> "pending_retry", budget |-> m.tasks[f].budget - 1]
    BY <1>3 DEF MirroredTask
  <2> QED BY <2>3, <2>4, <2>5, <2>6, <2>8, <2>9 DEF TaskMoved
<1>4. CASE out \notin {"passing", "retry"}
  <2>1. MirrorVerify(m, f, out) = MoveTo(m, f, "blocked", c)
    BY <1>4 DEF MirrorVerify, Block
  <2>2. "blocked" \in TaskStates
    BY DEF TaskStates
  <2> HIDE DEF c
  <2>3. MirroredTask(m.tasks[f], out) = [status |-> "blocked", budget |-> m.tasks[f].budget]
    BY <1>4 DEF MirroredTask
  <2> QED BY <1>1, <2>1, <2>2, <2>3, MoveToEffect
<1> QED BY <1>2, <1>3, <1>4

\* One task in step with its feature before a call is in step after it.
LEMMA StepKeepsInStep ==
    ASSUME RetryBudget \in Nat, NEW l \in Ledgers, NEW k, NEW f \in FeatureIds, NEW out,
           LedgerStep(l, k, f, out), NEW task \in Tasks, InStep(l, task, f)
    PROVE  /\ IsTerminal(task.status) => InStep(k, task, f)
           /\ task.status \in {"pending", "pending_retry"} =>
                /\ out = "retry" => task.budget > 0
                /\ InStep(k, MirroredTask(task, out), f)
<1>1. l[f].retries \in Nat /\ k[f].retries \in Nat /\ task.budget \in Nat
  <2>1. l \in Ledgers /\ k \in Ledgers
    BY DEF LedgerStep
  <2>2. l[f].retries \in Nat /\ k[f].retries \in Nat
    BY ONLY <2>1, RetryBudget \in Nat, f \in FeatureIds DEF Ledgers
  <2>3. task.budget \in Nat
    BY ONLY RetryBudget \in Nat, task \in Tasks DEF Tasks
  <2> QED BY <2>2, <2>3
<1>2. ASSUME IsTerminal(task.status) PROVE InStep(k, task, f)
  BY <1>2 DEF InStep, LedgerStep
<1>3. ASSUME task.status \in {"pending", "pending_retry"}
      PROVE  (out = "retry" => task.budget > 0) /\ InStep(k, MirroredTask(task, out), f)
  <2>1. task.budget + l[f].retries = RetryBudget
    BY <1>3 DEF InStep, IsTerminal
  <2>2. CASE out = "passing"
    BY <2>2 DEF InStep, MirroredTask, LedgerStep, IsTerminal
  <2>3. CASE out = "retry"
    <3>1. l[f].retries < RetryBudget /\ k[f].retries = l[f].retries + 1
      BY <2>3 DEF LedgerStep
    <3>2. MirroredTask(task, out) = [status |-> "pending_retry", budget |-> task.budget - 1]
      BY <2>3 DEF MirroredTask
    <3>3. task.budget > 0 /\ (task.budget - 1) + k[f].retries = RetryBudget
      BY <1>1, <2>1, <3>1
    <3> QED BY <3>2, <3>3 DEF InStep
  <2>4. CASE out \notin {"passing", "retry"}
    BY <2>4 DEF InStep, MirroredTask, IsTerminal
  <2> QED BY <2>2, <2>3, <2>4
<1> QED BY <1>2, <1>3

\* What recordVerifyFeature does to the mission when no task is active: nothing,
\* or the task is started and mirrors the outcome.
LEMMA RecordVerifyEffect ==
    ASSUME RetryBudget \in Nat, NEW t \in Turns, NEW f, NEW out, NEW m, m = mission[t], MissionOK(m),
           \A i \in DOMAIN m.tasks : m.tasks[i].status # "active",
           f \in DOMAIN m.tasks /\ m.tasks[f].status \in {"pending", "pending_retry"}
               => (out = "retry" => m.tasks[f].budget > 0),
           RecordVerifyFeature(t, f, out)
    PROVE  \/ /\ UNCHANGED <<mission, stored>>
              /\ f \in DOMAIN m.tasks => IsTerminal(m.tasks[f].status)
           \/ /\ f \in DOMAIN m.tasks /\ m.tasks[f].status \in {"pending", "pending_retry"}
              /\ \E n : Save(t, n) /\ TaskMoved(m, n, f, MirroredTask(m.tasks[f], out))
<1>s. \A i \in DOMAIN m.tasks : m.tasks[i].status \in TaskStates /\ m.tasks[i].budget \in Nat
  <2>1. PICK S \in SUBSET Ids : m.tasks \in [S -> Tasks]
    BY DEF MissionOK, Missions
  <2> QED BY ONLY RetryBudget \in Nat, <2>1 DEF Tasks
<1>a. ~(f \in DOMAIN m.tasks /\ m.tasks[f].status = "active")
  OBVIOUS
<1>1. CASE ~MayStart(m, f)
  <2>1. UNCHANGED <<mission, stored>>
    BY <1>1, <1>a DEF RecordVerifyFeature
  <2>2. ASSUME f \in DOMAIN m.tasks PROVE IsTerminal(m.tasks[f].status)
    BY <1>1, <1>s, <2>2 DEF MayStart, CanTransition, TaskStates, IsTerminal
  <2> QED BY <2>1, <2>2
<1>2. CASE MayStart(m, f)
  <2> DEFINE m1 == Start(m, f)
  <2>1. f \in DOMAIN m.tasks /\ m.tasks[f].status \in {"pending", "pending_retry"}
    BY <1>2 DEF MayStart, CanTransition
  <2>2. f \in Ids
    BY <2>1 DEF MissionOK, Missions
  <2>3. TaskMoved(m, m1, f, [status |-> "active", budget |-> m.tasks[f].budget])
    <3>1. "active" \in TaskStates /\ f \in Ids \cup {""}
      BY <2>2 DEF TaskStates
    <3> QED BY <2>1, <3>1, MoveToEffect DEF Start
  <2> DEFINE n == MirrorVerify(m1, f, out)
  <2> HIDE DEF m1
  <2>4. m1.tasks[f] = [status |-> "active", budget |-> m.tasks[f].budget]
        /\ DOMAIN m1.tasks = DOMAIN m.tasks /\ MissionOK(m1)
        /\ \A i \in DOMAIN m.tasks \ {f} : m1.tasks[i] = m.tasks[i]
    BY ONLY <2>3 DEF TaskMoved
  <2>5. m1.tasks[f].budget = m.tasks[f].budget
    BY ONLY <2>4
  <2>6. out = "retry" => m1.tasks[f].budget > 0
    BY <2>1, <2>5
  <2>7. Save(t, n)
    <3>0. m1.tasks[f].budget \in Nat
      BY <1>s, <2>1, <2>5
    <3>1. ~(out = "retry" /\ m1.tasks[f].budget <= 0)
      BY ONLY <2>6, <3>0
    <3> QED BY <1>2, <1>a, <3>1 DEF RecordVerifyFeature, m1
  <2>8. TaskMoved(m1, n, f, MirroredTask(m1.tasks[f], out))
    BY <2>1, <2>4, <2>6, MirrorVerifyEffect
  <2>9. MirroredTask(m1.tasks[f], out) = MirroredTask(m.tasks[f], out)
    BY <2>5 DEF MirroredTask
  <2> HIDE DEF n
  <2>10. TaskMoved(m, n, f, MirroredTask(m.tasks[f], out))
    <3> DEFINE x == MirroredTask(m.tasks[f], out)
    <3>1. TaskMoved(m1, n, f, x)
      BY <2>8, <2>9
    <3> HIDE DEF x
    <3>2. TaskMoved(m, n, f, x)
      BY ONLY <2>4, <3>1 DEF TaskMoved
    <3> QED BY <3>2 DEF x
  <2> QED BY <2>1, <2>7, <2>10
<1> QED BY <1>1, <1>2

\* verify_feature as a whole: the mission the turn has in memory after the call
\* agrees with the plan after the call.
LEMMA VerifyCallEffect ==
    ASSUME TurnAssumption, NEW t \in Turns, NEW p, PlanOK(p), NEW f, NEW verdict, NEW q,
           q.on = p.on, p.on => q.ledger = VerifyFeature(p.ledger, f, verdict),
           MissionOK(mission[t]), Agree(p, mission[t]), Mirrors(p, mission[t]),
           RecordVerifyFeature(t, f, IF p.on THEN Outcome(p.ledger, f, verdict) ELSE "")
    PROVE  \E n : /\ MissionOK(n) /\ Agree(q, n) /\ Mirrors(q, n)
                  /\ Save(t, n) \/ (UNCHANGED <<mission, stored>> /\ n = mission[t])
<1> DEFINE m == mission[t]
<1>c. RetryBudget \in Nat /\ Len(Features) \in Nat
  BY DEF TurnAssumption
<1>m. \A i \in DOMAIN m.tasks : m.tasks[i].status # "active"
  BY DEF Mirrors
<1>t. \A i \in DOMAIN m.tasks : m.tasks[i] \in Tasks
  <2>1. PICK S \in SUBSET Ids : m.tasks \in [S -> Tasks]
    BY DEF MissionOK, Missions
  <2> QED BY ONLY <2>1
<1>1. CASE p.on
  <2> DEFINE l == p.ledger
  <2> DEFINE k == VerifyFeature(l, f, verdict)
  <2> DEFINE out == Outcome(l, f, verdict)
  <2>1. l \in Ledgers /\ OneActive(l)
    <3>1. NoPlan.on = FALSE
      BY DEF NoPlan
    <3>2. p # NoPlan
      BY <1>1, <3>1
    <3> QED BY <3>2 DEF PlanOK
  <2>2. LedgerStep(l, k, f, out)
    BY <1>c, <2>1, VerifyFeatureEffect
  <2>3. RecordVerifyFeature(t, f, out)
    BY <1>1
  <2>4. q.on = TRUE /\ q.ledger = k
    <3>1. p.on = TRUE
      BY <1>1, <2>1 DEF PlanOK, NoPlan
    <3> QED BY <1>1, <3>1
  <2>5. DOMAIN m.tasks = FeatureIds /\ \A g \in FeatureIds : InStep(l, m.tasks[g], g)
    BY <1>1 DEF Agree, Mirrors, InStep
  <2>6. ASSUME NEW n, DOMAIN n.tasks = FeatureIds, \A g \in FeatureIds : InStep(k, n.tasks[g], g)
        PROVE  Agree(q, n) /\ Mirrors(q, n)
    BY <2>4, <2>6 DEF Agree, Mirrors, InStep
  <2> HIDE DEF m, l, k, out
  <2>7. ASSUME NEW g \in FeatureIds, g # f
        PROVE  InStep(k, m.tasks[g], g)
    BY <2>2, <2>5, <2>7 DEF InStep, LedgerStep
  <2>8. ASSUME f \in FeatureIds
        PROVE  /\ IsTerminal(m.tasks[f].status) => InStep(k, m.tasks[f], f)
               /\ m.tasks[f].status \in {"pending", "pending_retry"} =>
                    (out = "retry" => m.tasks[f].budget > 0) /\ InStep(k, MirroredTask(m.tasks[f], out), f)
    <3>1. m.tasks[f] \in Tasks /\ InStep(l, m.tasks[f], f)
      BY <1>t, <2>5, <2>8
    <3> HIDE DEF m
    <3> QED BY <1>c, <2>1, <2>2, <2>8, <3>1, StepKeepsInStep
  <2>9. MissionOK(m) /\ m = mission[t]
    BY DEF m
  <2>10. \/ /\ UNCHANGED <<mission, stored>>
            /\ f \in DOMAIN m.tasks => IsTerminal(m.tasks[f].status)
         \/ /\ f \in DOMAIN m.tasks
            /\ m.tasks[f].status \in {"pending", "pending_retry"}
            /\ \E n : Save(t, n) /\ TaskMoved(m, n, f, MirroredTask(m.tasks[f], out))
    BY <1>c, <1>m, <2>3, <2>5, <2>8, <2>9, RecordVerifyEffect
  <2>11. CASE /\ UNCHANGED <<mission, stored>>
              /\ f \in DOMAIN m.tasks => IsTerminal(m.tasks[f].status)
    <3>1. \A g \in FeatureIds : InStep(k, m.tasks[g], g)
      BY <2>5, <2>7, <2>8, <2>11
    <3> QED BY <2>5, <2>6, <2>9, <2>11, <3>1
  <2>12. CASE /\ f \in DOMAIN m.tasks
              /\ m.tasks[f].status \in {"pending", "pending_retry"}
              /\ \E n : Save(t, n) /\ TaskMoved(m, n, f, MirroredTask(m.tasks[f], out))
    <3>1. PICK n : Save(t, n) /\ TaskMoved(m, n, f, MirroredTask(m.tasks[f], out))
      BY <2>12
    <3>2. f \in FeatureIds /\ InStep(k, MirroredTask(m.tasks[f], out), f)
      BY <2>5, <2>8, <2>12
    <3>3. DOMAIN n.tasks = FeatureIds /\ MissionOK(n) /\ \A g \in FeatureIds : InStep(k, n.tasks[g], g)
      <4>1. MissionOK(n) /\ DOMAIN n.tasks = DOMAIN m.tasks
            /\ n.tasks[f] = MirroredTask(m.tasks[f], out)
            /\ \A i \in DOMAIN m.tasks \ {f} : n.tasks[i] = m.tasks[i]
        BY ONLY <3>1 DEF TaskMoved
      <4> QED BY <2>5, <2>7, <3>2, <4>1
    <3> QED BY <2>6, <3>1, <3>3
  <2> QED BY <2>10, <2>11, <2>12
<1>2. CASE ~p.on
  <2>1. RecordVerifyFeature(t, f, "")
    BY <1>2
  <2>2. ASSUME NEW n, \A i \in DOMAIN n.tasks : n.tasks[i].status \notin {"active", "passing"}
        PROVE  Agree(q, n) /\ Mirrors(q, n)
    BY <1>2, <2>2 DEF Agree, Mirrors
  <2>3. \A i \in DOMAIN m.tasks : m.tasks[i].status \notin {"active", "passing"}
    BY <1>2 DEF Mirrors
  <2> HIDE DEF m
  <2>4. MissionOK(m) /\ m = mission[t]
    BY DEF m
  <2>5. \/ UNCHANGED <<mission, stored>>
        \/ \E n : Save(t, n) /\ TaskMoved(m, n, f, MirroredTask(m.tasks[f], ""))
    BY <1>c, <1>m, <2>1, <2>4, RecordVerifyEffect
  <2>6. CASE UNCHANGED <<mission, stored>>
    BY <2>2, <2>3, <2>4, <2>6
  <2>7. CASE \E n : Save(t, n) /\ TaskMoved(m, n, f, MirroredTask(m.tasks[f], ""))
    <3>1. PICK n : Save(t, n) /\ TaskMoved(m, n, f, MirroredTask(m.tasks[f], ""))
      BY <2>7
    <3>2. MirroredTask(m.tasks[f], "").status = "blocked"
      BY DEF MirroredTask
    <3>3. MissionOK(n) /\ DOMAIN n.tasks = DOMAIN m.tasks
          /\ n.tasks[f] = MirroredTask(m.tasks[f], "")
          /\ \A i \in DOMAIN m.tasks \ {f} : n.tasks[i] = m.tasks[i]
      BY ONLY <3>1 DEF TaskMoved
    <3>4. \A i \in DOMAIN n.tasks : n.tasks[i].status \notin {"active", "passing"}
      BY <2>3, <3>2, <3>3
    <3> QED BY <2>2, <3>1, <3>3, <3>4
  <2> QED BY <2>5, <2>6, <2>7
<1> QED BY <1>1, <1>2

\* The judge's answers close tasks and leave their budgets.
LEMMA ReconciledEffect ==
    ASSUME NEW m, MissionOK(m), NEW answer, NEW n \in Reconciled(m, answer)
    PROVE  /\ MissionOK(n) /\ DOMAIN n.tasks = DOMAIN m.tasks
           /\ \A i \in DOMAIN m.tasks : n.tasks[i] = m.tasks[i] \/ IsTerminal(n.tasks[i].status)
<1>1. CASE n = m
  BY <1>1
<1>2. CASE n # m
  <2>1. PICK r : n = ApplyTaskReconciliation(m, r) /\ \A i \in DOMAIN r : r[i] \in BOOLEAN
    BY <1>2 DEF Reconciled
  <2> DEFINE ts == [i \in DOMAIN m.tasks |->
                      IF i \notin DOMAIN r THEN m.tasks[i]
                      ELSE [m.tasks[i] EXCEPT !.status = IF r[i] THEN "passing" ELSE "blocked"]]
  <2> DEFINE st == IF m.status = "unanswerable" THEN m.status ELSE DeriveStatus(ts, m.root)
  <2>2. n = [m EXCEPT !.tasks = ts, !.status = st]
    BY <2>1 DEF ApplyTaskReconciliation
  <2>3. PICK S \in SUBSET Ids : m.tasks \in [S -> Tasks]
    BY DEF MissionOK, Missions
  <2>4. ASSUME NEW i \in S
        PROVE  ts[i] \in Tasks /\ (ts[i] = m.tasks[i] \/ IsTerminal(ts[i].status))
    <3>1. m.tasks[i] \in Tasks
      BY <2>3
    <3>2. \A s \in {"passing", "blocked"} :
            /\ [m.tasks[i] EXCEPT !.status = s] \in Tasks
            /\ [m.tasks[i] EXCEPT !.status = s].status = s
      BY ONLY <3>1 DEF Tasks, TaskStates
    <3> QED BY <2>3, <3>1, <3>2 DEF IsTerminal
  <2>5. ts \in [S -> Tasks]
    BY <2>3, <2>4
  <2>6. st \in {"active", "complete", "partial", "unanswerable"} /\ (m.root => st = "unanswerable")
    BY DeriveStatusType DEF MissionOK, Missions
  <2> HIDE DEF ts, st
  <2>7. MissionOK(n) /\ n.tasks = ts
    <3>1. ts \in UNION {[Q -> Tasks] : Q \in SUBSET Ids}
      BY <2>5
    <3> QED BY <2>2, <2>6, <3>1 DEF MissionOK, Missions
  <2> QED BY <2>3, <2>4, <2>5, <2>7
<1> QED BY <1>1, <1>2

\* finish keeps the tasks and records the answer.
LEMMA FinishEffect ==
    ASSUME NEW m, MissionOK(m), NEW answer \in Answers
    PROVE  /\ MissionOK(Finish(m, answer)) /\ Finish(m, answer).tasks = m.tasks
           /\ Finish(m, answer).finished /\ Finish(m, answer).output = answer
<1> DEFINE st == CASE m.status = "unanswerable" -> "unanswerable"
                   [] m.status # "unanswerable" /\ DOMAIN m.tasks # {} -> DeriveStatus(m.tasks, m.root)
                   [] OTHER -> "complete"
<1>1. st \in {"active", "complete", "partial", "unanswerable"} /\ (m.root => st = "unanswerable")
  <2>1. m.root \in BOOLEAN
    BY DEF MissionOK, Missions
  <2>2. /\ DeriveStatus(m.tasks, m.root) \in {"active", "complete", "partial", "unanswerable"}
        /\ m.root => DeriveStatus(m.tasks, m.root) = "unanswerable" /\ m.status = "unanswerable"
    BY <2>1, DeriveStatusType DEF MissionOK
  <2> QED BY <2>2
<1>2. Finish(m, answer) = [m EXCEPT !.output = answer, !.finished = TRUE, !.status = st]
  BY DEF Finish
<1> HIDE DEF st
<1> QED BY <1>1, <1>2 DEF MissionOK, Missions

-----------------------------------------------------------------------------
(* A step is a step of one turn *)

Touches(t) ==
    \A u \in Turns \ {t} :
        /\ at'[u] = at[u] /\ ctl'[u] = ctl[u] /\ plan'[u] = plan[u]
        /\ mission'[u] = mission[u] /\ stored'[u] = stored[u] /\ seen'[u] = seen[u]

LEMMA StepTouchesOne ==
    ASSUME Arrays, NEW t \in Turns, RejectTurn(t) \/ HandlerStep(t)
    PROVE  Arrays' /\ Touches(t) /\ agent' = agent
<1>1. ASSUME RejectTurn(t) PROVE Arrays' /\ Touches(t) /\ agent' = agent
  BY <1>1 DEF RejectTurn, Arrays, Touches
<1>2. ASSUME StartExploreTurn(t) PROVE Arrays' /\ Touches(t) /\ agent' = agent
  BY <1>2 DEF StartExploreTurn, Save, Arrays, Touches
<1>3. ASSUME StartTurn(t) PROVE Arrays' /\ Touches(t) /\ agent' = agent
  <2>1. Over \subseteq Turns
    BY DEF Over
  <2> QED BY <1>3, <2>1 DEF StartTurn, Save, Arrays, Touches
<1>4. ASSUME SaveUserRow(t) PROVE Arrays' /\ Touches(t) /\ agent' = agent
  BY <1>4 DEF SaveUserRow, Arrays, Touches
<1>5. ASSUME JudgeFailsOpen(t) PROVE Arrays' /\ Touches(t) /\ agent' = agent
  BY <1>5 DEF JudgeFailsOpen, Arrays, Touches
<1>6. ASSUME JudgeFeasible(t) PROVE Arrays' /\ Touches(t) /\ agent' = agent
  BY <1>6 DEF JudgeFeasible, Save, Arrays, Touches
<1>7. ASSUME JudgeInfeasibleFollowUp(t) PROVE Arrays' /\ Touches(t) /\ agent' = agent
  BY <1>7 DEF JudgeInfeasibleFollowUp, Save, Arrays, Touches
<1>8. ASSUME JudgeInfeasible(t) PROVE Arrays' /\ Touches(t) /\ agent' = agent
  BY <1>8 DEF JudgeInfeasible, Save, Arrays, Touches
<1>9. ASSUME LLMError(t) PROVE Arrays' /\ Touches(t) /\ agent' = agent
  BY <1>9 DEF LLMError, Arrays, Touches
<1>10. ASSUME FinalAnswer(t) PROVE Arrays' /\ Touches(t) /\ agent' = agent
  BY <1>10 DEF FinalAnswer, EndRound, Arrays, Touches
<1>11. ASSUME PlainToolCall(t) PROVE Arrays' /\ Touches(t) /\ agent' = agent
  BY <1>11 DEF PlainToolCall, EndRound, Arrays, Touches
<1>12. ASSUME Clarify(t) PROVE Arrays' /\ Touches(t) /\ agent' = agent
  BY <1>12 DEF Clarify, EndRound, Arrays, Touches
<1>13. ASSUME SmartQuery(t) PROVE Arrays' /\ Touches(t) /\ agent' = agent
  BY <1>13 DEF SmartQuery, EndRound, Arrays, Touches
<1>14. ASSUME StartAnalysisPlan(t) PROVE Arrays' /\ Touches(t) /\ agent' = agent
  BY <1>14 DEF StartAnalysisPlan, EndRound, Save, Arrays, Touches
<1>15. ASSUME CompleteAnalysis(t) PROVE Arrays' /\ Touches(t) /\ agent' = agent
  BY <1>15 DEF CompleteAnalysis, EndRound, Save, Arrays, Touches
<1>16. ASSUME DeclareCapabilityGap(t) PROVE Arrays' /\ Touches(t) /\ agent' = agent
  BY <1>16 DEF DeclareCapabilityGap, EndRound, Save, Arrays, Touches
<1>17. ASSUME NEW f \in FeatureIds \cup SubQuestions, NEW v \in Verdicts, VerifyFeatureCall(t, f, v) PROVE Arrays' /\ Touches(t) /\ agent' = agent
  BY <1>17 DEF VerifyFeatureCall, RecordVerifyFeature, Save, Unsaved, EndRound, Arrays, Touches
<1>18. ASSUME RoundsExhausted(t) PROVE Arrays' /\ Touches(t) /\ agent' = agent
  BY <1>18 DEF RoundsExhausted, Arrays, Touches
<1>19. ASSUME TurnEnd(t) PROVE Arrays' /\ Touches(t) /\ agent' = agent
  BY <1>19 DEF TurnEnd, Save, Arrays, Touches
<1> QED BY <1>1, <1>2, <1>3, <1>4, <1>5, <1>6, <1>7, <1>8, <1>9, <1>10, <1>11, <1>12, <1>13,
           <1>14, <1>15, <1>16, <1>17, <1>18, <1>19
        DEF HandlerStep

LEMMA RoundCtlEffect ==
    ASSUME NEW t, ctl[t] \in Controls, ctl[t].round < ctl[t].maxRounds, NEW k \in Nat, NEW content \in Answers
    PROVE  LET c == RoundCtl(t, k, content)
           IN /\ c \in Controls /\ c.round <= c.maxRounds
              /\ c.idx = ctl[t].idx + k /\ c.n = ctl[t].n + k
<1> DEFINE a == IF content = "" THEN ctl[t].answer ELSE content
<1> DEFINE c == [ctl[t] EXCEPT !.idx = ctl[t].idx + k, !.n = ctl[t].n + k, !.round = ctl[t].round + 1, !.answer = a]
<1>1. a \in Answers
  BY DEF Controls
<1>2. RoundCtl(t, k, content) = c
  BY DEF RoundCtl
<1> HIDE DEF a
<1>3. /\ ctl[t].idx + k \in Nat /\ ctl[t].n + k \in Nat /\ ctl[t].round + 1 \in Nat
      /\ ctl[t].round + 1 <= ctl[t].maxRounds
  BY DEF Controls
<1>4. c \in Controls /\ c.round = ctl[t].round + 1 /\ c.maxRounds = ctl[t].maxRounds
      /\ c.idx = ctl[t].idx + k /\ c.n = ctl[t].n + k
  BY <1>1, <1>3 DEF Controls
<1> HIDE DEF c
<1> QED BY <1>2, <1>3, <1>4

\* The locals of the turn: their types, and the rounds stay within maxRounds.
LEMMA ControlStep ==
    ASSUME TurnAssumption, Arrays, RowsInv, NEW t \in Turns, RejectTurn(t) \/ HandlerStep(t),
           ctl[t] \in Controls, ctl[t].round <= ctl[t].maxRounds
    PROVE  ctl'[t] \in Controls /\ ctl'[t].round <= ctl'[t].maxRounds
<1>f. ctl = [u \in Turns |-> ctl[u]]
  BY DEF Arrays
<1>r. InLoop(t) => ctl[t].round < ctl[t].maxRounds
  BY DEF InLoop
<1>s. SynthMaxFails \in Nat
  BY DEF TurnAssumption
<1>1. ASSUME RejectTurn(t) PROVE ctl'[t] \in Controls /\ ctl'[t].round <= ctl'[t].maxRounds
  BY <1>1 DEF RejectTurn
<1>2. ASSUME StartExploreTurn(t) PROVE ctl'[t] \in Controls /\ ctl'[t].round <= ctl'[t].maxRounds
  BY <1>2 DEF StartExploreTurn, Save
<1>3. ASSUME StartTurn(t) PROVE ctl'[t] \in Controls /\ ctl'[t].round <= ctl'[t].maxRounds
  <2>1. NextStepIndex \in Nat
    BY NextStepIndexIsFree DEF RowsInv
  <2>2. ctl' = [ctl EXCEPT ![t].idx = NextStepIndex]
    BY <1>3 DEF StartTurn
  <2>3. ctl'[t] = [ctl[t] EXCEPT !.idx = NextStepIndex]
    BY ONLY <1>f, <2>2, t \in Turns
  <2> QED BY <2>1, <2>3 DEF Controls
<1>4. ASSUME SaveUserRow(t) PROVE ctl'[t] \in Controls /\ ctl'[t].round <= ctl'[t].maxRounds
  BY <1>4 DEF SaveUserRow
<1>5. ASSUME JudgeFailsOpen(t) PROVE ctl'[t] \in Controls /\ ctl'[t].round <= ctl'[t].maxRounds
  BY <1>5 DEF JudgeFailsOpen
<1>6. ASSUME JudgeFeasible(t) PROVE ctl'[t] \in Controls /\ ctl'[t].round <= ctl'[t].maxRounds
  BY <1>6 DEF JudgeFeasible, Save
<1>7. ASSUME JudgeInfeasibleFollowUp(t) PROVE ctl'[t] \in Controls /\ ctl'[t].round <= ctl'[t].maxRounds
  BY <1>7 DEF JudgeInfeasibleFollowUp, Save
<1>8. ASSUME JudgeInfeasible(t) PROVE ctl'[t] \in Controls /\ ctl'[t].round <= ctl'[t].maxRounds
  <2>1. ctl' = [ctl EXCEPT ![t].answer = "infeasible", ![t].idx = @ + 1, ![t].n = @ + 1]
    BY <1>8 DEF JudgeInfeasible
  <2>a. "infeasible" \in Answers
    BY DEF Answers
  <2>2. ctl[t].idx + 1 \in Nat /\ ctl[t].n + 1 \in Nat
    BY DEF Controls
  <2>3. ctl'[t] = [ctl[t] EXCEPT !.answer = "infeasible", !.idx = ctl[t].idx + 1, !.n = ctl[t].n + 1]
    BY ONLY <1>f, <2>1, t \in Turns
  <2> QED BY <2>a, <2>2, <2>3 DEF Controls
<1>9. ASSUME LLMError(t) PROVE ctl'[t] \in Controls /\ ctl'[t].round <= ctl'[t].maxRounds
  BY <1>9 DEF LLMError
<1>10. ASSUME FinalAnswer(t) PROVE ctl'[t] \in Controls /\ ctl'[t].round <= ctl'[t].maxRounds
  <2>1. ctl'[t] = RoundCtl(t, 1, "prose") /\ InLoop(t)
    BY <1>10, <1>f DEF FinalAnswer
  <2>2. "prose" \in Answers
    BY DEF Answers
  <2> QED BY <1>r, <2>1, <2>2, RoundCtlEffect
<1>11. ASSUME PlainToolCall(t) PROVE ctl'[t] \in Controls /\ ctl'[t].round <= ctl'[t].maxRounds
  <2>1. ctl'[t] = RoundCtl(t, 1, "") /\ InLoop(t)
    BY <1>11, <1>f DEF PlainToolCall
  <2>2. "" \in Answers
    BY DEF Answers
  <2> QED BY <1>r, <2>1, <2>2, RoundCtlEffect
<1>12. ASSUME Clarify(t) PROVE ctl'[t] \in Controls /\ ctl'[t].round <= ctl'[t].maxRounds
  <2>1. ctl'[t] = RoundCtl(t, 1, "clarify") /\ InLoop(t)
    BY <1>12, <1>f DEF Clarify
  <2>2. "clarify" \in Answers
    BY DEF Answers
  <2> QED BY <1>r, <2>1, <2>2, RoundCtlEffect
<1>13. ASSUME SmartQuery(t) PROVE ctl'[t] \in Controls /\ ctl'[t].round <= ctl'[t].maxRounds
  <2>1. PICK k \in RowsOfQuery(t), passed \in BOOLEAN :
            ctl' = [ctl EXCEPT ![t] =
                      [RoundCtl(t, k, "") EXCEPT !.synthFails = SynthFails(@, k > 1 /\ ~passed)]]
    BY <1>13 DEF SmartQuery
  <2> DEFINE c == RoundCtl(t, k, "")
  <2> DEFINE s == SynthFails(c.synthFails, k > 1 /\ ~passed)
  <2>2. k \in Nat
    BY DEF RowsOfQuery
  <2>3. "" \in Answers /\ InLoop(t)
    BY <1>13 DEF Answers, SmartQuery
  <2>4. c \in Controls /\ c.round <= c.maxRounds
    BY <1>r, <2>2, <2>3, RoundCtlEffect
  <2>5. ctl'[t] = [c EXCEPT !.synthFails = s]
    BY <1>f, <2>1
  <2> HIDE DEF c
  <2>6. s \in 0..SynthMaxFails
    BY <1>s, <2>4 DEF SynthFails, Controls
  <2> HIDE DEF s
  <2> QED BY <2>4, <2>5, <2>6 DEF Controls
<1>14. ASSUME StartAnalysisPlan(t) PROVE ctl'[t] \in Controls /\ ctl'[t].round <= ctl'[t].maxRounds
  <2>1. ctl'[t] = RoundCtl(t, 1, "") /\ InLoop(t)
    BY <1>14, <1>f DEF StartAnalysisPlan
  <2>2. "" \in Answers
    BY DEF Answers
  <2> QED BY <1>r, <2>1, <2>2, RoundCtlEffect
<1>15. ASSUME CompleteAnalysis(t) PROVE ctl'[t] \in Controls /\ ctl'[t].round <= ctl'[t].maxRounds
  <2>1. ctl'[t] = RoundCtl(t, 1, "synthesis") /\ InLoop(t)
    BY <1>15, <1>f DEF CompleteAnalysis
  <2>2. "synthesis" \in Answers
    BY DEF Answers
  <2> QED BY <1>r, <2>1, <2>2, RoundCtlEffect
<1>16. ASSUME DeclareCapabilityGap(t) PROVE ctl'[t] \in Controls /\ ctl'[t].round <= ctl'[t].maxRounds
  <2>1. ctl'[t] = RoundCtl(t, 1, "gap") /\ InLoop(t)
    BY <1>16, <1>f DEF DeclareCapabilityGap
  <2>2. "gap" \in Answers
    BY DEF Answers
  <2> QED BY <1>r, <2>1, <2>2, RoundCtlEffect
<1>17. ASSUME NEW f \in FeatureIds \cup SubQuestions, NEW v \in Verdicts, VerifyFeatureCall(t, f, v) PROVE ctl'[t] \in Controls /\ ctl'[t].round <= ctl'[t].maxRounds
  <2>1. ctl'[t] = RoundCtl(t, 1, "") /\ InLoop(t)
    BY <1>17, <1>f DEF VerifyFeatureCall
  <2>2. "" \in Answers
    BY DEF Answers
  <2> QED BY <1>r, <2>1, <2>2, RoundCtlEffect
<1>18. ASSUME RoundsExhausted(t) PROVE ctl'[t] \in Controls /\ ctl'[t].round <= ctl'[t].maxRounds
  BY <1>18 DEF RoundsExhausted
<1>19. ASSUME TurnEnd(t) PROVE ctl'[t] \in Controls /\ ctl'[t].round <= ctl'[t].maxRounds
  BY <1>19 DEF TurnEnd, Save
<1> QED BY <1>1, <1>2, <1>3, <1>4, <1>5, <1>6, <1>7, <1>8, <1>9, <1>10, <1>11, <1>12, <1>13,
           <1>14, <1>15, <1>16, <1>17, <1>18, <1>19
        DEF HandlerStep

LEMMA SeedEffect ==
    ASSUME NEW m, MissionOK(m), NEW S \in SUBSET Ids, NEW b \in 0..RetryBudget
    PROVE  /\ MissionOK(SeedTasks(m, S, b)) /\ DOMAIN SeedTasks(m, S, b).tasks = S
           /\ \A i \in S : SeedTasks(m, S, b).tasks[i] = Pending(b)
<1> DEFINE ts == [i \in S |-> Pending(b)]
<1>1. SeedTasks(m, S, b) = [m EXCEPT !.tasks = ts]
  BY DEF SeedTasks
<1>2. Pending(b) \in Tasks
  BY DEF Pending, Tasks, TaskStates
<1>3. ts \in UNION {[Q -> Tasks] : Q \in SUBSET Ids}
  BY <1>2
<1> HIDE DEF ts
<1>4. MissionOK(SeedTasks(m, S, b)) /\ SeedTasks(m, S, b).tasks = ts
  BY <1>1, <1>3 DEF MissionOK, Missions
<1> QED BY <1>4 DEF ts

LEMMA ReachabilityEffect ==
    ASSUME NEW m, MissionOK(m), NEW feasible \in BOOLEAN
    PROVE  MissionOK(RecordReachability(m, feasible)) /\ RecordReachability(m, feasible).tasks = m.tasks
<1>1. CASE feasible
  BY <1>1 DEF RecordReachability, MissionOK, Missions
<1>2. CASE ~feasible
  BY <1>2 DEF RecordReachability, MissionOK, Missions
<1> QED BY <1>1, <1>2

\* The plan, the mission and the answer of a turn, over its own steps.
LEMMA ShadowStep ==
    ASSUME TurnAssumption, Arrays, NEW t \in Turns, RejectTurn(t) \/ HandlerStep(t),
           ctl[t] \in Controls, ShadowOK(t)
    PROVE  ShadowOK(t)'
<1>f. /\ at = [u \in Turns |-> at[u]] /\ ctl = [u \in Turns |-> ctl[u]] /\ plan = [u \in Turns |-> plan[u]]
      /\ mission = [u \in Turns |-> mission[u]] /\ stored = [u \in Turns |-> stored[u]]
  BY DEF Arrays
<1>a. agent' = agent
  BY StepTouchesOne
<1>n. NoPlan.on = FALSE /\ NoPlan.ledger = <<>>
  BY DEF NoPlan
<1>s. ASSUME NEW m, Save(t, m)
      PROVE  mission'[t] = m /\ stored'[t] = m
  BY <1>f, <1>s DEF Save
<1>k. PlanOK(plan[t]) /\ MissionOK(mission[t]) /\ Agree(plan[t], mission[t])
  BY DEF ShadowOK
<1>l. InLoop(t) => at[t] = "loop" /\ Mirrors(plan[t], mission[t])
  BY DEF InLoop, ShadowOK
<1>j. at[t] = "judge" => plan[t] = NoPlan /\ DOMAIN mission[t].tasks = {}
  BY DEF ShadowOK, BeforeLoop
\* Into the loop or out of it: the plan and the mission are in step.
<1>e. ASSUME at'[t] \in {"loop", "ending"}, PlanOK(plan'[t]), MissionOK(mission'[t]),
             Agree(plan'[t], mission'[t]), Mirrors(plan'[t], mission'[t])
      PROVE  ShadowOK(t)'
  BY <1>e DEF ShadowOK, BeforeLoop
<1>1. ASSUME RejectTurn(t) PROVE ShadowOK(t)'
  <2>1. plan'[t] = plan[t] /\ mission'[t] = mission[t] /\ at'[t] \in BeforeLoop /\ at[t] \in BeforeLoop
    BY <1>1, <1>f, <1>s DEF RejectTurn, BeforeLoop
  <2> QED BY <2>1 DEF ShadowOK, BeforeLoop
<1>2. ASSUME StartExploreTurn(t) PROVE ShadowOK(t)'
  <2>1. plan'[t] = plan[t] /\ mission'[t] = mission[t] /\ at'[t] = "done" /\ agent = "explore"
    BY <1>2, <1>f, <1>s DEF StartExploreTurn
  <2> QED BY <1>a, <1>k, <2>1 DEF ShadowOK, BeforeLoop
<1>3. ASSUME StartTurn(t) PROVE ShadowOK(t)'
  <2>1. plan'[t] = plan[t] /\ mission'[t] = mission[t] /\ at'[t] \in BeforeLoop /\ at[t] \in BeforeLoop
    BY <1>3, <1>f, <1>s DEF StartTurn, BeforeLoop
  <2> QED BY <2>1 DEF ShadowOK, BeforeLoop
<1>4. ASSUME SaveUserRow(t) PROVE ShadowOK(t)'
  <2>1. plan'[t] = plan[t] /\ mission'[t] = mission[t] /\ at'[t] \in {"judge", "loop"} /\ at[t] = "recall"
    BY <1>4, <1>f DEF SaveUserRow
  <2>2. plan[t] = NoPlan /\ DOMAIN mission[t].tasks = {}
    BY <2>1 DEF ShadowOK, BeforeLoop
  <2> QED BY <1>k, <2>1, <2>2 DEF ShadowOK, BeforeLoop, Mirrors
<1>5. ASSUME JudgeFailsOpen(t) PROVE ShadowOK(t)'
  <2>1. plan'[t] = plan[t] /\ mission'[t] = mission[t] /\ at'[t] = "loop" /\ at[t] = "judge"
    BY <1>5, <1>f DEF JudgeFailsOpen
  <2>2. Mirrors(plan[t], mission[t])
    BY <1>j, <2>1 DEF Mirrors
  <2> QED BY <1>e, <1>k, <2>1, <2>2
<1>6. ASSUME JudgeFeasible(t) PROVE ShadowOK(t)'
  <2> DEFINE m == RecordReachability(mission[t], TRUE)
  <2>1. PICK S \in {{}} \cup {Q \in SUBSET SubQuestions : Cardinality(Q) >= 2} :
            Save(t, IF S = {} THEN m ELSE SeedTasks(m, S, 0))
    BY <1>6 DEF JudgeFeasible
  <2>2. plan'[t] = NoPlan /\ at'[t] = "loop" /\ DOMAIN mission[t].tasks = {}
    BY <1>6, <1>f, <1>j DEF JudgeFeasible
  <2>3. MissionOK(m) /\ DOMAIN m.tasks = {}
    BY <1>k, <2>2, ReachabilityEffect
  <2> HIDE DEF m
  <2>4. S \in SUBSET Ids /\ 0 \in 0..RetryBudget
    BY DEF Ids, TurnAssumption
  <2>5. MissionOK(SeedTasks(m, S, 0)) /\ DOMAIN SeedTasks(m, S, 0).tasks = S
        /\ \A i \in S : SeedTasks(m, S, 0).tasks[i] = Pending(0)
    BY <2>3, <2>4, SeedEffect
  <2>6. MissionOK(mission'[t]) /\ \A i \in DOMAIN mission'[t].tasks : mission'[t].tasks[i].status = "pending"
    <3>1. CASE S = {}
      <4>1. mission'[t] = m
        BY <1>s, <2>1, <3>1
      <4> QED BY <2>3, <4>1
    <3>2. CASE S # {}
      <4>1. mission'[t] = SeedTasks(m, S, 0)
        BY <1>s, <2>1, <3>2
      <4> QED BY <2>5, <4>1 DEF Pending
    <3> QED BY <3>1, <3>2
  <2>7. PlanOK(plan'[t]) /\ Agree(plan'[t], mission'[t]) /\ Mirrors(plan'[t], mission'[t])
    BY <1>n, <2>2, <2>6 DEF PlanOK, Agree, Mirrors
  <2> QED BY <1>e, <2>2, <2>6, <2>7
<1>7. ASSUME JudgeInfeasibleFollowUp(t) PROVE ShadowOK(t)'
  <2> DEFINE m == RecordReachability(mission[t], FALSE)
  <2>1. plan'[t] = NoPlan /\ at'[t] = "loop" /\ DOMAIN mission[t].tasks = {} /\ mission'[t] = m
    BY <1>7, <1>f, <1>j, <1>s DEF JudgeInfeasibleFollowUp
  <2>2. MissionOK(m) /\ DOMAIN m.tasks = {}
    BY <1>k, <2>1, ReachabilityEffect
  <2> HIDE DEF m
  <2>3. PlanOK(plan'[t]) /\ Agree(plan'[t], mission'[t]) /\ Mirrors(plan'[t], mission'[t])
    BY <1>n, <2>1, <2>2 DEF PlanOK, Agree, Mirrors
  <2> QED BY <1>e, <2>1, <2>2, <2>3
<1>8. ASSUME JudgeInfeasible(t) PROVE ShadowOK(t)'
  <2> DEFINE m == RecordReachability(mission[t], FALSE)
  <2> DEFINE n == Finish(m, "infeasible")
  <2>1. plan'[t] = NoPlan /\ at'[t] = "done" /\ Save(t, n)
    BY <1>8, <1>f, <1>j DEF JudgeInfeasible
  <2>2. ctl'[t].answer = "infeasible"
    BY <1>8, <1>f DEF JudgeInfeasible, Controls
  <2>3. MissionOK(m)
    BY <1>k, ReachabilityEffect
  <2>4. MissionOK(n) /\ n.finished /\ n.output = "infeasible"
    <3>1. "infeasible" \in Answers
      BY DEF Answers
    <3> HIDE DEF m
    <3> QED BY <2>3, <3>1, FinishEffect
  <2> HIDE DEF m, n
  <2>5. mission'[t] = n /\ stored'[t] = n
    BY <1>s, <2>1
  <2> QED BY <1>n, <2>1, <2>2, <2>4, <2>5 DEF ShadowOK, BeforeLoop, PlanOK, Agree
<1>9. ASSUME LLMError(t) PROVE ShadowOK(t)'
  <2>1. at'[t] \in {"ending"} /\ plan'[t] = plan[t] /\ mission'[t] = mission[t] /\ InLoop(t)
    BY <1>9, <1>f DEF LLMError
  <2> QED BY <1>e, <1>k, <1>l, <2>1
<1>10. ASSUME FinalAnswer(t) PROVE ShadowOK(t)'
  <2>1. at'[t] \in {"ending"} /\ plan'[t] = plan[t] /\ mission'[t] = mission[t] /\ InLoop(t)
    BY <1>10, <1>f DEF FinalAnswer, EndRound
  <2> QED BY <1>e, <1>k, <1>l, <2>1
<1>11. ASSUME PlainToolCall(t) PROVE ShadowOK(t)'
  <2>1. /\ at'[t] = "loop" /\ mission'[t] = mission[t] /\ InLoop(t)
        /\ plan'[t] = CheckPlanToolBudget(plan[t], "other")
    BY <1>11, <1>f DEF PlainToolCall, EndRound
  <2>2. PlanOK(plan'[t]) /\ plan'[t].on = plan[t].on /\ plan'[t].ledger = plan[t].ledger
    BY <1>k, <2>1, BudgetKeepsPlan
  <2>3. Agree(plan'[t], mission'[t]) /\ Mirrors(plan'[t], mission'[t])
    BY <1>k, <1>l, <2>1, <2>2 DEF Agree, Mirrors
  <2> QED BY <1>e, <1>k, <2>1, <2>2, <2>3
<1>12. ASSUME Clarify(t) PROVE ShadowOK(t)'
  <2>1. at'[t] \in {"ending"} /\ plan'[t] = plan[t] /\ mission'[t] = mission[t] /\ InLoop(t)
    BY <1>12, <1>f DEF Clarify, EndRound
  <2> QED BY <1>e, <1>k, <1>l, <2>1
<1>13. ASSUME SmartQuery(t) PROVE ShadowOK(t)'
  <2>1. /\ at'[t] = "loop" /\ mission'[t] = mission[t] /\ InLoop(t)
        /\ plan'[t] = CheckPlanToolBudget(plan[t], "smartquery")
    BY <1>13, <1>f DEF SmartQuery, EndRound
  <2>2. PlanOK(plan'[t]) /\ plan'[t].on = plan[t].on /\ plan'[t].ledger = plan[t].ledger
    BY <1>k, <2>1, BudgetKeepsPlan
  <2>3. Agree(plan'[t], mission'[t]) /\ Mirrors(plan'[t], mission'[t])
    BY <1>k, <1>l, <2>1, <2>2 DEF Agree, Mirrors
  <2> QED BY <1>e, <1>k, <2>1, <2>2, <2>3
<1>14. ASSUME StartAnalysisPlan(t) PROVE ShadowOK(t)'
  <2>1. at'[t] = "loop" /\ InLoop(t)
    BY <1>14, <1>f DEF StartAnalysisPlan, EndRound
  <2>2. CASE ctl[t].card
    <3> DEFINE l == NewFeatureLedger
    <3> DEFINE p == [NoPlan EXCEPT !.on = TRUE, !.ledger = l]
    <3>1. plan'[t] = p /\ mission'[t] = SeedTasks(mission[t], FeatureIds, RetryBudget)
      BY <1>14, <1>f, <1>s, <2>2 DEF StartAnalysisPlan
    <3>2. l \in Ledgers /\ OneActive(l) /\ \A f \in FeatureIds : l[f].retries = 0
      BY NewLedgerEffect DEF TurnAssumption
    <3> HIDE DEF l
    <3>3. p \in [on : {TRUE}, ledger : Ledgers, calls : Nat, nudged : BOOLEAN] /\ p.ledger = l
          /\ p.calls = 0 /\ p.nudged = FALSE /\ p.on
      <4> DEFINE x == <<>>
      <4>1. NoPlan = [on |-> FALSE, ledger |-> x, calls |-> 0, nudged |-> FALSE]
        BY DEF NoPlan
      <4> HIDE DEF x
      <4>2. NoPlan \in [on : BOOLEAN, ledger : {x}, calls : Nat, nudged : BOOLEAN]
            /\ NoPlan.calls = 0 /\ NoPlan.nudged = FALSE
        BY ONLY <4>1
      <4>3. p = [NoPlan EXCEPT !.on = TRUE, !.ledger = l]
        OBVIOUS
      <4> HIDE DEF p
      <4> QED BY ONLY <3>2, <4>2, <4>3
    <3>4. PlanOK(p) /\ p.on /\ p.ledger = l
      <4>1. ~(0 >= NudgeThreshold)
        BY DEF TurnAssumption
      <4> HIDE DEF p
      <4> QED BY <3>2, <3>3, <4>1 DEF PlanOK
    <3> HIDE DEF p
    <3>5. FeatureIds \in SUBSET Ids /\ RetryBudget \in 0..RetryBudget /\ RetryBudget \in Nat
      BY DEF Ids, TurnAssumption
    <3>6. MissionOK(mission'[t]) /\ DOMAIN mission'[t].tasks = FeatureIds
          /\ \A i \in FeatureIds : mission'[t].tasks[i] = Pending(RetryBudget)
      BY <1>k, <3>1, <3>5, SeedEffect
    <3>7. Agree(p, mission'[t]) /\ Mirrors(p, mission'[t])
      BY <3>2, <3>4, <3>5, <3>6 DEF Agree, Mirrors, Pending
    <3> QED BY <1>e, <2>1, <3>1, <3>4, <3>6, <3>7
  <2>3. CASE ~ctl[t].card
    <3>1. mission'[t] = mission[t] /\ plan'[t] = CheckPlanToolBudget(plan[t], "start_analysis_plan")
      BY <1>14, <1>f, <2>3 DEF StartAnalysisPlan
    <3>2. PlanOK(plan'[t]) /\ plan'[t].on = plan[t].on /\ plan'[t].ledger = plan[t].ledger
      BY <1>k, <3>1, BudgetKeepsPlan
    <3>3. Agree(plan'[t], mission'[t]) /\ Mirrors(plan'[t], mission'[t])
      BY <1>k, <1>l, <2>1, <3>1, <3>2 DEF Agree, Mirrors
    <3> QED BY <1>e, <1>k, <2>1, <3>1, <3>2, <3>3
  <2> QED BY <2>2, <2>3
<1>15. ASSUME CompleteAnalysis(t) PROVE ShadowOK(t)'
  <2> DEFINE s == DeriveStatus(mission[t].tasks, mission[t].root)
  <2> DEFINE n == [mission[t] EXCEPT !.output = "synthesis", !.status = s]
  <2>1. at'[t] = "ending" /\ InLoop(t) /\ plan'[t] = plan[t] /\ mission'[t] = n
    BY <1>15, <1>f, <1>s DEF CompleteAnalysis, EndRound
  <2>2. s \in {"active", "complete", "partial", "unanswerable"} /\ (mission[t].root => s = "unanswerable")
    BY <1>k, DeriveStatusType DEF MissionOK, Missions
  <2> HIDE DEF s
  <2>3. MissionOK(n) /\ n.tasks = mission[t].tasks
    BY <1>k, <2>2 DEF MissionOK, Missions, Answers
  <2> HIDE DEF n
  <2>4. Agree(plan'[t], n) /\ Mirrors(plan'[t], n)
    BY <1>k, <1>l, <2>1, <2>3 DEF Agree, Mirrors
  <2> QED BY <1>e, <1>k, <2>1, <2>3, <2>4
<1>16. ASSUME DeclareCapabilityGap(t) PROVE ShadowOK(t)'
  <2> DEFINE n == [mission[t] EXCEPT !.root = TRUE, !.status = "unanswerable"]
  <2>1. at'[t] = "ending" /\ InLoop(t) /\ plan'[t] = plan[t] /\ mission'[t] = n
    BY <1>16, <1>f, <1>s DEF DeclareCapabilityGap, EndRound
  <2>2. MissionOK(n) /\ n.tasks = mission[t].tasks
    BY <1>k DEF MissionOK, Missions
  <2> HIDE DEF n
  <2>3. Agree(plan'[t], n) /\ Mirrors(plan'[t], n)
    BY <1>k, <1>l, <2>1, <2>2 DEF Agree, Mirrors
  <2> QED BY <1>e, <1>k, <2>1, <2>2, <2>3
<1>17. ASSUME NEW f \in FeatureIds \cup SubQuestions, NEW v \in Verdicts, VerifyFeatureCall(t, f, v) PROVE ShadowOK(t)'
  <2> DEFINE p == plan[t]
  <2> DEFINE q == CheckPlanToolBudget(IF p.on THEN [p EXCEPT !.ledger = VerifyFeature(p.ledger, f, v)] ELSE p,
                                      "verify_feature")
  <2>1. /\ at'[t] = "loop" /\ InLoop(t) /\ plan'[t] = q
        /\ RecordVerifyFeature(t, f, IF p.on THEN Outcome(p.ledger, f, v) ELSE "")
    BY <1>17, <1>f DEF VerifyFeatureCall, EndRound
  <2>2. PlanOK(q) /\ q.on = p.on /\ (p.on => q.ledger = VerifyFeature(p.ledger, f, v))
    <3> HIDE DEF p
    <3>1. PlanOK(p)
      BY <1>k DEF p
    <3> QED BY <3>1, VerifyKeepsPlan
  <2> HIDE DEF q
  <2>3. PICK n : /\ MissionOK(n) /\ Agree(q, n) /\ Mirrors(q, n)
                 /\ Save(t, n) \/ (UNCHANGED <<mission, stored>> /\ n = mission[t])
    BY <1>k, <1>l, <2>1, <2>2, VerifyCallEffect
  <2>4. mission'[t] = n
    BY <1>s, <2>3
  <2> QED BY <1>e, <2>1, <2>2, <2>3, <2>4
<1>18. ASSUME RoundsExhausted(t) PROVE ShadowOK(t)'
  <2>1. at'[t] = "ending" /\ plan'[t] = plan[t] /\ mission'[t] = mission[t] /\ at[t] = "loop"
    BY <1>18, <1>f DEF RoundsExhausted
  <2>2. Mirrors(plan[t], mission[t])
    BY <2>1 DEF ShadowOK
  <2> QED BY <1>e, <1>k, <2>1, <2>2
<1>19. ASSUME TurnEnd(t) PROVE ShadowOK(t)'
  <2>1. PICK m \in Reconciled(mission[t], ctl[t].answer) : Save(t, Finish(m, ctl[t].answer))
    BY <1>19 DEF TurnEnd
  <2>2. at'[t] = "done" /\ plan'[t] = plan[t] /\ ctl'[t] = ctl[t] /\ ctl[t].answer \in Answers
    BY <1>19, <1>f DEF TurnEnd, Controls
  <2> DEFINE n == Finish(m, ctl[t].answer)
  <2>3. MissionOK(m) /\ DOMAIN m.tasks = DOMAIN mission[t].tasks
        /\ \A i \in DOMAIN mission[t].tasks : m.tasks[i] = mission[t].tasks[i] \/ IsTerminal(m.tasks[i].status)
    BY <1>k, ReconciledEffect
  <2>4. MissionOK(n) /\ n.tasks = m.tasks /\ n.finished /\ n.output = ctl[t].answer
    BY <2>2, <2>3, FinishEffect
  <2>5. mission'[t] = n /\ stored'[t] = n
    BY <1>s, <2>1
  <2> HIDE DEF n
  <2>6. Agree(plan[t], n)
    BY <1>k, <2>3, <2>4 DEF Agree
  <2> QED BY <1>k, <2>2, <2>4, <2>5, <2>6 DEF ShadowOK, BeforeLoop
<1> QED BY <1>1, <1>2, <1>3, <1>4, <1>5, <1>6, <1>7, <1>8, <1>9, <1>10, <1>11, <1>12, <1>13,
           <1>14, <1>15, <1>16, <1>17, <1>18, <1>19
        DEF HandlerStep

-----------------------------------------------------------------------------
(* The rows of the conversation *)

\* A step that writes no row and leaves the turn's index alone.
LEMMA QuietStep ==
    ASSUME Arrays, RowsInv, NEW t \in Turns, Touches(t), Arrays', UNCHANGED <<rows, seen>>,
           ctl'[t].n = ctl[t].n, ctl'[t].idx = ctl[t].idx, at[t] # "done",
           \/ at[t] = "idle" /\ at'[t] \in {"rejected", "done"}
           \/ at[t] \in {"judge", "loop", "ending"} /\ at'[t] \in {"loop", "ending", "done"}
    PROVE  RowsInv'
<1>1. \A u \in Turns : ctl'[u].n = ctl[u].n /\ ctl'[u].idx = ctl[u].idx
  BY DEF Touches
<1>2. \A u \in Turns \ {t} : at'[u] = at[u]
  BY DEF Touches
<1>3. \A r \in rows : r.turn \in Turns
  BY DEF RowsInv, Rows
<1>4. \A r \in rows : at'[r.turn] \notin {"unsent", "idle", "rejected", "recall"}
  BY <1>2, <1>3 DEF RowsInv
<1>5. \A v \in Turns, u \in Turns : u \in seen[v] => at'[u] = "done" /\ at'[v] \notin {"unsent", "idle", "rejected"}
  BY <1>2 DEF RowsInv
<1>6. \A u \in Turns : at'[u] \in {"unsent", "idle", "rejected", "recall", "judge"} => ctl'[u].n = 0
  BY <1>1, <1>2 DEF RowsInv
<1>7. \A r \in rows : r.n <= ctl'[r.turn].n /\ r.idx + ctl'[r.turn].n = ctl'[r.turn].idx + r.n
  BY <1>1, <1>3 DEF RowsInv
<1>8. \A v \in Turns, u \in Turns : u \in seen[v] => \A r \in rows : r.turn = u => r.idx + ctl'[v].n < ctl'[v].idx
  BY <1>1 DEF RowsInv
<1>9. rows \subseteq Rows /\ \E b \in Nat : \A r \in rows : r.idx <= b
  BY DEF RowsInv
<1> QED BY <1>4, <1>5, <1>6, <1>7, <1>8, <1>9 DEF RowsInv

\* A step that writes rows of the turn, numbered from its index.
LEMMA WritingStep ==
    ASSUME Arrays, RowsInv, NEW t \in Turns, Touches(t), Arrays', seen' = seen, ControlOK(t), ControlOK(t)',
           \A u \in Turns : ControlOK(u),
           NEW new, rows' = rows \cup new, new \subseteq Rows,
           \A r \in new : /\ r.turn = t /\ r.n <= ctl'[t].n
                          /\ r.idx + ctl'[t].n = ctl'[t].idx + r.n /\ r.idx <= ctl'[t].idx,
           ctl[t].n <= ctl'[t].n, ctl'[t].idx + ctl[t].n = ctl[t].idx + ctl'[t].n,
           at[t] \in {"recall", "judge", "loop"}, at'[t] \in {"judge", "loop", "ending", "done"},
           at'[t] = "judge" => ctl'[t].n = 0
    PROVE  RowsInv'
<1>0. \A u \in Turns : ctl[u].n \in Nat /\ ctl[u].idx \in Nat /\ ctl'[u].n \in Nat /\ ctl'[u].idx \in Nat
  BY DEF ControlOK, Controls, Touches
<1>1. \A u \in Turns \ {t} : ctl'[u].n = ctl[u].n /\ ctl'[u].idx = ctl[u].idx /\ at'[u] = at[u]
  BY DEF Touches
<1>2. rows \subseteq Rows /\ \A r \in Rows : r.turn \in Turns /\ r.n \in Nat /\ r.idx \in Nat
  BY DEF RowsInv, Rows
<1>3. \A r \in rows' : at'[r.turn] \notin {"unsent", "idle", "rejected", "recall"}
  BY <1>1, <1>2 DEF RowsInv
<1>4. ASSUME NEW r \in rows
      PROVE  r.n <= ctl'[r.turn].n /\ r.idx + ctl'[r.turn].n = ctl'[r.turn].idx + r.n
  <2>1. r.n <= ctl[r.turn].n /\ r.idx + ctl[r.turn].n = ctl[r.turn].idx + r.n /\ r.turn \in Turns
        /\ r.n \in Nat /\ r.idx \in Nat
    BY <1>2 DEF RowsInv
  <2>2. CASE r.turn = t
    BY <1>0, <2>1, <2>2
  <2>3. CASE r.turn # t
    BY <1>1, <2>1, <2>3
  <2> QED BY <2>2, <2>3
<1>5. \A v \in Turns, u \in Turns : u \in seen[v] => u # t /\ at'[u] = "done" /\ at'[v] \notin {"unsent", "idle", "rejected"}
  BY <1>1 DEF RowsInv
<1>6. \A u \in Turns : at'[u] \in {"unsent", "idle", "rejected", "recall", "judge"} => ctl'[u].n = 0
  BY <1>1 DEF RowsInv
<1>7. ASSUME NEW v \in Turns, NEW u \in Turns, u \in seen[v], NEW r \in rows', r.turn = u
      PROVE  r.idx + ctl'[v].n < ctl'[v].idx
  <2>1. r \in rows
    BY <1>5, <1>7
  <2>2. r.idx + ctl[v].n < ctl[v].idx /\ r.idx \in Nat
    BY <1>2, <1>7, <2>1 DEF RowsInv
  <2>3. CASE v = t
    BY <1>0, <2>2, <2>3
  <2>4. CASE v # t
    BY <1>1, <2>2, <2>4
  <2> QED BY <2>3, <2>4
<1>8. \E b \in Nat : \A r \in rows' : r.idx <= b
  <2>1. PICK b \in Nat : \A r \in rows : r.idx <= b
    BY DEF RowsInv
  <2>2. b + ctl'[t].idx \in Nat
    BY <1>0
  <2>3. \A r \in rows' : r.idx <= b + ctl'[t].idx
    BY <1>0, <1>2, <2>1
  <2> QED BY <2>2, <2>3
<1>9. rows' \subseteq Rows
  BY <1>2
<1>10. \A r \in rows' : r.n <= ctl'[r.turn].n /\ r.idx + ctl'[r.turn].n = ctl'[r.turn].idx + r.n
  BY <1>4
<1>11. \A v \in Turns, u \in Turns : u \in seen[v] => \A r \in rows' : r.turn = u => r.idx + ctl'[v].n < ctl'[v].idx
  BY <1>7
<1> QED BY <1>3, <1>5, <1>6, <1>8, <1>9, <1>10, <1>11 DEF RowsInv

LEMMA AppendedEffect ==
    ASSUME NEW t \in Turns, ctl[t] \in Controls, NEW k \in Nat
    PROVE  /\ Appended(t, k) \subseteq Rows
           /\ \A r \in Appended(t, k) :
                /\ r.turn = t /\ r.n <= ctl[t].n + k
                /\ r.idx + (ctl[t].n + k) = (ctl[t].idx + k) + r.n /\ r.idx <= ctl[t].idx + k
<1>1. ctl[t].n \in Nat /\ ctl[t].idx \in Nat
  BY DEF Controls
<1>2. ASSUME NEW r \in Appended(t, k)
      PROVE  /\ r \in Rows /\ r.turn = t /\ r.n <= ctl[t].n + k
             /\ r.idx + (ctl[t].n + k) = (ctl[t].idx + k) + r.n /\ r.idx <= ctl[t].idx + k
  <2>1. PICK i \in 1..k : r = [turn |-> t, n |-> ctl[t].n + i, idx |-> ctl[t].idx + i, role |-> "assistant"]
    BY DEF Appended
  <2>2. i \in Nat /\ i <= k
    OBVIOUS
  <2> QED BY <1>1, <2>1, <2>2 DEF Rows
<1> QED BY <1>2

\* Every step of a turn keeps the order of the rows.
LEMMA RowsStep ==
    ASSUME TurnAssumption, Arrays, RowsInv, NEW t \in Turns, RejectTurn(t) \/ HandlerStep(t),
           \A u \in Turns : ControlOK(u)
    PROVE  RowsInv'
<1>a. Arrays' /\ Touches(t)
  BY StepTouchesOne
<1>b. ControlOK(t) /\ ControlOK(t)'
  BY ControlStep DEF ControlOK
<1>c. ctl[t] \in Controls /\ ctl[t].n \in Nat /\ ctl[t].idx \in Nat
  BY <1>b DEF ControlOK, Controls
<1>f. at = [u \in Turns |-> at[u]] /\ ctl = [u \in Turns |-> ctl[u]]
  BY DEF Arrays
\* A step that appends k rows.
<1>w. ASSUME NEW k \in Nat, rows' = rows \cup Appended(t, k), seen' = seen,
             ctl'[t].n = ctl[t].n + k, ctl'[t].idx = ctl[t].idx + k,
             at[t] \in {"judge", "loop"}, at'[t] \in {"loop", "ending", "done"}
      PROVE  RowsInv'
  <2>1. /\ Appended(t, k) \subseteq Rows
        /\ \A r \in Appended(t, k) :
             /\ r.turn = t /\ r.n <= ctl'[t].n
             /\ r.idx + ctl'[t].n = ctl'[t].idx + r.n /\ r.idx <= ctl'[t].idx
    BY <1>c, <1>w, AppendedEffect
  <2>2. ctl[t].n <= ctl'[t].n /\ ctl'[t].idx + ctl[t].n = ctl[t].idx + ctl'[t].n
    BY <1>c, <1>w
  <2> DEFINE new == Appended(t, k)
  <2>3. rows' = rows \cup new
    BY <1>w
  <2> HIDE DEF new
  <2>4. /\ new \subseteq Rows
        /\ \A r \in new :
             /\ r.turn = t /\ r.n <= ctl'[t].n
             /\ r.idx + ctl'[t].n = ctl'[t].idx + r.n /\ r.idx <= ctl'[t].idx
    BY <2>1 DEF new
  <2> QED BY <1>a, <1>b, <1>w, <2>2, <2>3, <2>4, WritingStep
\* A round.
<1>r. ASSUME NEW k \in Nat, NEW content \in Answers, NEW next \in {"loop", "ending"}, InLoop(t),
             EndRound(t, k, next), seen' = seen, ctl'[t].n = RoundCtl(t, k, content).n,
             ctl'[t].idx = RoundCtl(t, k, content).idx
      PROVE  RowsInv'
  <2>1. ctl[t].round < ctl[t].maxRounds /\ at[t] = "loop"
    BY <1>r DEF InLoop
  <2>2. ctl'[t].n = ctl[t].n + k /\ ctl'[t].idx = ctl[t].idx + k
    BY <1>c, <1>r, <2>1, RoundCtlEffect
  <2>3. rows' = rows \cup Appended(t, k) /\ at'[t] = next
    BY <1>f, <1>r DEF EndRound
  <2> QED BY <1>r, <1>w, <2>1, <2>2, <2>3
<1>1. ASSUME RejectTurn(t) PROVE RowsInv'
  <2>1. UNCHANGED <<rows, seen>> /\ ctl' = ctl /\ at[t] = "idle" /\ at'[t] = "rejected"
    BY <1>1, <1>f DEF RejectTurn
  <2> QED BY <1>a, <2>1, QuietStep
<1>2. ASSUME StartExploreTurn(t) PROVE RowsInv'
  <2>1. UNCHANGED <<rows, seen>> /\ ctl' = ctl /\ at[t] = "idle" /\ at'[t] = "done"
    BY <1>2, <1>f DEF StartExploreTurn
  <2> QED BY <1>a, <2>1, QuietStep
<1>3. ASSUME StartTurn(t) PROVE RowsInv'
  <2>1. /\ rows' = rows /\ ctl' = [ctl EXCEPT ![t].idx = NextStepIndex] /\ at[t] = "idle" /\ at'[t] = "recall"
        /\ seen' = [seen EXCEPT ![t] = Over]
    BY <1>3, <1>f DEF StartTurn
  <2>2. NextStepIndex \in Nat /\ \A r \in rows : r.idx < NextStepIndex
    BY NextStepIndexIsFree DEF RowsInv
  <2>3. ctl[t].n = 0 /\ seen[t] = {} /\ \A r \in rows : r.turn # t
    BY <2>1 DEF RowsInv, Arrays
  <2>4. ctl'[t].idx = NextStepIndex /\ ctl'[t].n = 0
    BY <1>c, <1>f, <2>1, <2>3 DEF Controls
  <2>5. \A u \in Turns \ {t} : ctl'[u] = ctl[u] /\ at'[u] = at[u] /\ seen'[u] = seen[u]
    BY <1>a DEF Touches
  <2>6. seen'[t] = Over /\ \A u \in Over : at[u] = "done" /\ u # t
    BY <2>1 DEF Arrays, Over
  <2>7. rows \subseteq Rows /\ \A r \in rows : r.turn \in Turns /\ r.turn # t /\ r.idx \in Nat
    BY <2>3 DEF RowsInv, Rows
  <2>8. \A r \in rows : /\ at'[r.turn] \notin {"unsent", "idle", "rejected", "recall"}
                        /\ r.n <= ctl'[r.turn].n /\ r.idx + ctl'[r.turn].n = ctl'[r.turn].idx + r.n
    BY <2>5, <2>7 DEF RowsInv
  <2>9. ASSUME NEW v \in Turns, NEW u \in Turns, u \in seen'[v]
        PROVE  /\ at'[u] = "done" /\ at'[v] \notin {"unsent", "idle", "rejected"}
               /\ \A r \in rows : r.turn = u => r.idx + ctl'[v].n < ctl'[v].idx
    <3>1. CASE v = t
      <4>1. u \in Over
        BY <2>6, <2>9, <3>1
      <4>2. at'[u] = "done" /\ at'[v] \notin {"unsent", "idle", "rejected"}
        BY <2>1, <2>5, <2>6, <3>1, <4>1
      <4>3. \A r \in rows : r.idx + ctl'[v].n < ctl'[v].idx
        BY <2>2, <2>4, <2>7, <3>1
      <4> QED BY <4>2, <4>3
    <3>2. CASE v # t
      <4>1. u \in seen[v] /\ ctl'[v] = ctl[v] /\ at'[v] = at[v]
        BY <2>5, <2>9, <3>2
      <4>2. /\ at[u] = "done" /\ at[v] \notin {"unsent", "idle", "rejected"}
            /\ \A r \in rows : r.turn = u => r.idx + ctl[v].n < ctl[v].idx
        BY <4>1 DEF RowsInv
      <4>3. u # t
        BY <2>1, <4>2
      <4> QED BY <2>5, <4>1, <4>2, <4>3
    <3> QED BY <3>1, <3>2
  <2>10. \A u \in Turns : at'[u] \in {"unsent", "idle", "rejected", "recall", "judge"} => ctl'[u].n = 0
    BY <2>4, <2>5 DEF RowsInv
  <2>11. rows' = rows /\ \E b \in Nat : \A r \in rows : r.idx <= b
    BY <2>1 DEF RowsInv
  <2> QED BY ONLY <2>7, <2>8, <2>9, <2>10, <2>11 DEF RowsInv
<1>4. ASSUME SaveUserRow(t) PROVE RowsInv'
  <2> DEFINE new == {[turn |-> t, n |-> 0, idx |-> ctl[t].idx, role |-> "user"]}
  <2>1. rows' = rows \cup new /\ seen' = seen /\ ctl' = ctl /\ at[t] = "recall" /\ at'[t] \in {"judge", "loop"}
    BY <1>4, <1>f DEF SaveUserRow
  <2>2. ctl[t].n = 0
    BY <2>1 DEF RowsInv
  <2>3. /\ new \subseteq Rows
        /\ \A r \in new : /\ r.turn = t /\ r.n <= ctl'[t].n
                          /\ r.idx + ctl'[t].n = ctl'[t].idx + r.n /\ r.idx <= ctl'[t].idx
    BY <1>c, <2>1, <2>2 DEF Rows
  <2> HIDE DEF new
  <2> QED BY <1>a, <1>b, <1>c, <2>1, <2>2, <2>3, WritingStep
<1>5. ASSUME JudgeFailsOpen(t) PROVE RowsInv'
  <2>1. UNCHANGED <<rows, seen>> /\ ctl' = ctl /\ at[t] = "judge" /\ at'[t] = "loop"
    BY <1>5, <1>f DEF JudgeFailsOpen
  <2> QED BY <1>a, <2>1, QuietStep
<1>6. ASSUME JudgeFeasible(t) PROVE RowsInv'
  <2>1. UNCHANGED <<rows, seen>> /\ ctl' = ctl /\ at[t] = "judge" /\ at'[t] = "loop"
    BY <1>6, <1>f DEF JudgeFeasible
  <2> QED BY <1>a, <2>1, QuietStep
<1>7. ASSUME JudgeInfeasibleFollowUp(t) PROVE RowsInv'
  <2>1. UNCHANGED <<rows, seen>> /\ ctl' = ctl /\ at[t] = "judge" /\ at'[t] = "loop"
    BY <1>7, <1>f DEF JudgeInfeasibleFollowUp
  <2> QED BY <1>a, <2>1, QuietStep
<1>8. ASSUME JudgeInfeasible(t) PROVE RowsInv'
  <2>1. /\ rows' = rows \cup Appended(t, 1) /\ seen' = seen /\ at[t] = "judge" /\ at'[t] = "done"
        /\ ctl' = [ctl EXCEPT ![t].answer = "infeasible", ![t].idx = @ + 1, ![t].n = @ + 1]
    BY <1>8, <1>f DEF JudgeInfeasible
  <2>2. ctl'[t].n = ctl[t].n + 1 /\ ctl'[t].idx = ctl[t].idx + 1
    BY <1>c, <1>f, <2>1 DEF Controls
  <2> QED BY <1>w, <2>1, <2>2
<1>9. ASSUME LLMError(t) PROVE RowsInv'
  <2>1. UNCHANGED <<rows, seen>> /\ ctl' = ctl /\ at[t] = "loop" /\ at'[t] = "ending"
    BY <1>9, <1>f DEF LLMError, InLoop
  <2> QED BY <1>a, <2>1, QuietStep
<1>10. ASSUME FinalAnswer(t) PROVE RowsInv'
  <2>1. /\ InLoop(t) /\ EndRound(t, 1, "ending") /\ seen' = seen
        /\ ctl'[t] = RoundCtl(t, 1, "prose")
    BY <1>10, <1>f DEF FinalAnswer
  <2>2. "prose" \in Answers
    BY DEF Answers
  <2> QED BY <1>r, <2>1, <2>2
<1>11. ASSUME PlainToolCall(t) PROVE RowsInv'
  <2>1. /\ InLoop(t) /\ EndRound(t, 1, "loop") /\ seen' = seen
        /\ ctl'[t] = RoundCtl(t, 1, "")
    BY <1>11, <1>f DEF PlainToolCall
  <2>2. "" \in Answers
    BY DEF Answers
  <2> QED BY <1>r, <2>1, <2>2
<1>12. ASSUME Clarify(t) PROVE RowsInv'
  <2>1. /\ InLoop(t) /\ EndRound(t, 1, "ending") /\ seen' = seen
        /\ ctl'[t] = RoundCtl(t, 1, "clarify")
    BY <1>12, <1>f DEF Clarify
  <2>2. "clarify" \in Answers
    BY DEF Answers
  <2> QED BY <1>r, <2>1, <2>2
<1>13. ASSUME SmartQuery(t) PROVE RowsInv'
  <2>1. PICK k \in RowsOfQuery(t), passed \in BOOLEAN :
          /\ EndRound(t, k, "loop")
          /\ ctl' = [ctl EXCEPT ![t] =
                [RoundCtl(t, k, "") EXCEPT !.synthFails = SynthFails(@, k > 1 /\ ~passed)]]
    BY <1>13 DEF SmartQuery
  <2>0. k \in Nat
    BY DEF RowsOfQuery
  <2>2. k \in Nat /\ InLoop(t) /\ seen' = seen
    BY <1>13, <2>0 DEF SmartQuery
  <2>3. "" \in Answers
    BY DEF Answers
  <2>4. RoundCtl(t, k, "") \in Controls
    BY <1>c, <2>2, <2>3, RoundCtlEffect DEF InLoop
  <2>5. ctl'[t].n = RoundCtl(t, k, "").n /\ ctl'[t].idx = RoundCtl(t, k, "").idx
    BY <1>f, <2>1, <2>4 DEF Controls
  <2> QED BY <1>r, <2>1, <2>2, <2>3, <2>5
<1>14. ASSUME StartAnalysisPlan(t) PROVE RowsInv'
  <2>1. /\ InLoop(t) /\ EndRound(t, 1, "loop") /\ seen' = seen
        /\ ctl'[t] = RoundCtl(t, 1, "")
    BY <1>14, <1>f DEF StartAnalysisPlan
  <2>2. "" \in Answers
    BY DEF Answers
  <2> QED BY <1>r, <2>1, <2>2
<1>15. ASSUME CompleteAnalysis(t) PROVE RowsInv'
  <2>1. /\ InLoop(t) /\ EndRound(t, 1, "ending") /\ seen' = seen
        /\ ctl'[t] = RoundCtl(t, 1, "synthesis")
    BY <1>15, <1>f DEF CompleteAnalysis
  <2>2. "synthesis" \in Answers
    BY DEF Answers
  <2> QED BY <1>r, <2>1, <2>2
<1>16. ASSUME DeclareCapabilityGap(t) PROVE RowsInv'
  <2>1. /\ InLoop(t) /\ EndRound(t, 1, "ending") /\ seen' = seen
        /\ ctl'[t] = RoundCtl(t, 1, "gap")
    BY <1>16, <1>f DEF DeclareCapabilityGap
  <2>2. "gap" \in Answers
    BY DEF Answers
  <2> QED BY <1>r, <2>1, <2>2
<1>17. ASSUME NEW f \in FeatureIds \cup SubQuestions, NEW v \in Verdicts, VerifyFeatureCall(t, f, v) PROVE RowsInv'
  <2>1. /\ InLoop(t) /\ EndRound(t, 1, "loop") /\ seen' = seen
        /\ ctl'[t] = RoundCtl(t, 1, "")
    BY <1>17, <1>f DEF VerifyFeatureCall
  <2>2. "" \in Answers
    BY DEF Answers
  <2> QED BY <1>r, <2>1, <2>2
<1>18. ASSUME RoundsExhausted(t) PROVE RowsInv'
  <2>1. UNCHANGED <<rows, seen>> /\ ctl' = ctl /\ at[t] = "loop" /\ at'[t] = "ending"
    BY <1>18, <1>f DEF RoundsExhausted
  <2> QED BY <1>a, <2>1, QuietStep
<1>19. ASSUME TurnEnd(t) PROVE RowsInv'
  <2>1. UNCHANGED <<rows, seen>> /\ ctl' = ctl /\ at[t] = "ending" /\ at'[t] = "done"
    BY <1>19, <1>f DEF TurnEnd
  <2> QED BY <1>a, <2>1, QuietStep
<1> QED BY <1>1, <1>2, <1>3, <1>4, <1>5, <1>6, <1>7, <1>8, <1>9, <1>10, <1>11, <1>12, <1>13,
           <1>14, <1>15, <1>16, <1>17, <1>18, <1>19
        DEF HandlerStep

-----------------------------------------------------------------------------
(* The inductive invariant and what it implies *)

LEMMA InitialInv == ASSUME TurnAssumption, TurnsInit PROVE AgentInv
<1>1. PICK load \in Lengths : \E follow, card \in SUBSET {t \in Turns : load[t] > 0} :
         /\ Cardinality({t \in Turns : load[t] > 0}) > 1 => card = {} /\ follow = {}
         /\ ctl = [t \in Turns |->
               [idx |-> 0, n |-> 0, round |-> 0, maxRounds |-> load[t], synthFails |-> 0,
                answer |-> "", followUp |-> t \in follow, card |-> t \in card]]
         /\ at = [t \in Turns |-> IF load[t] > 0 THEN "idle" ELSE "unsent"]
  BY Zenon DEF TurnsInit
<1>2. PICK follow \in SUBSET {t \in Turns : load[t] > 0}, card \in SUBSET {t \in Turns : load[t] > 0} :
         /\ ctl = [t \in Turns |->
               [idx |-> 0, n |-> 0, round |-> 0, maxRounds |-> load[t], synthFails |-> 0,
                answer |-> "", followUp |-> t \in follow, card |-> t \in card]]
         /\ at = [t \in Turns |-> IF load[t] > 0 THEN "idle" ELSE "unsent"]
  BY <1>1
<1>3. load \in [Turns -> Nat] /\ SynthMaxFails \in Nat
  BY DEF TurnAssumption
<1>4. ASSUME NEW t \in Turns PROVE ControlOK(t)
  <2> DEFINE fu == t \in follow
  <2> DEFINE ca == t \in card
  <2>1. ctl[t] = [idx |-> 0, n |-> 0, round |-> 0, maxRounds |-> load[t], synthFails |-> 0,
                  answer |-> "", followUp |-> fu, card |-> ca]
    BY <1>2
  <2>2. fu \in BOOLEAN /\ ca \in BOOLEAN
    OBVIOUS
  <2> HIDE DEF fu, ca
  <2>3. load[t] \in Nat /\ 0 <= load[t]
    BY <1>3
  <2>4. "" \in Answers /\ 0 \in 0..SynthMaxFails
    BY <1>3 DEF Answers
  <2>5. ASSUME NEW a \in BOOLEAN, NEW b \in BOOLEAN, NEW k \in Nat, NEW z \in 0..SynthMaxFails, NEW e \in Answers
        PROVE  [idx |-> 0, n |-> 0, round |-> 0, maxRounds |-> k, synthFails |-> z,
                answer |-> e, followUp |-> a, card |-> b] \in Controls
    BY DEF Controls
  <2>6. ctl[t] \in Controls
    <3>1. [idx |-> 0, n |-> 0, round |-> 0, maxRounds |-> load[t], synthFails |-> 0,
           answer |-> "", followUp |-> fu, card |-> ca] \in Controls
      BY Zenon, <2>2, <2>3, <2>4, <2>5
    <3> QED BY Zenon, <2>1, <3>1
  <2>7. ctl[t].round = 0 /\ ctl[t].maxRounds = load[t]
    BY <1>2
  <2> QED BY <2>3, <2>6, <2>7 DEF ControlOK
<1>5. NewMission \in Missions /\ NewMission.root = FALSE /\ DOMAIN NewMission.tasks = {}
  <2>1. <<>> \in UNION {[S -> Tasks] : S \in SUBSET Ids} /\ DOMAIN <<>> = {}
    <3>1. <<>> \in [{} -> Tasks] /\ DOMAIN <<>> = {}
      OBVIOUS
    <3> QED BY <3>1
  <2> DEFINE x == <<>>
  <2>2. NewMission = [status |-> "active", tasks |-> x, cursor |-> "", root |-> FALSE,
                      reach |-> "none", output |-> "", finished |-> FALSE]
    BY DEF NewMission
  <2>3. x \in UNION {[S -> Tasks] : S \in SUBSET Ids} /\ DOMAIN x = {}
    BY <2>1
  <2> HIDE DEF x
  <2> QED BY <2>2, <2>3 DEF Missions, Answers
<1>6. ASSUME NEW t \in Turns PROVE ShadowOK(t)
  <2>1. plan[t] = NoPlan /\ mission[t] = NewMission /\ at[t] \in {"idle", "unsent"}
    BY <1>2 DEF TurnsInit
  <2>2. NoPlan.on = FALSE
    BY DEF NoPlan
  <2> QED BY <1>5, <2>1, <2>2 DEF ShadowOK, PlanOK, MissionOK, Agree, BeforeLoop
<1>7. Arrays
  BY <1>2 DEF TurnsInit, Arrays
<1>8. RowsInv
  <2>1. rows = {} /\ seen = [t \in Turns |-> {}] /\ \A t \in Turns : ctl[t].n = 0
    BY <1>2 DEF TurnsInit
  <2> QED BY <2>1 DEF RowsInv
<1> QED BY <1>4, <1>6, <1>7, <1>8 DEF AgentInv

LEMMA NextKeepsInv == ASSUME TurnAssumption, AgentInv, [TurnsNext]_turnVars PROVE AgentInv'
<1>1. ASSUME NEW t \in Turns, RejectTurn(t) \/ HandlerStep(t) PROVE AgentInv'
  <2>1. Arrays /\ RowsInv /\ \A u \in Turns : ControlOK(u) /\ ShadowOK(u)
    BY DEF AgentInv
  <2>2. Arrays' /\ Touches(t) /\ agent' = agent
    BY <1>1, <2>1, StepTouchesOne
  <2>3. ControlOK(t)'
    BY <1>1, <2>1, ControlStep DEF ControlOK
  <2>4. ShadowOK(t)'
    BY <1>1, <2>1, ShadowStep DEF ControlOK
  <2>5. RowsInv'
    BY <1>1, <2>1, RowsStep
  <2>6. ASSUME NEW u \in Turns, u # t PROVE ControlOK(u)' /\ ShadowOK(u)'
    <3>1. /\ at'[u] = at[u] /\ ctl'[u] = ctl[u] /\ plan'[u] = plan[u]
          /\ mission'[u] = mission[u] /\ stored'[u] = stored[u] /\ agent' = agent
      BY <2>2, <2>6 DEF Touches
    <3>2. ControlOK(u) /\ ShadowOK(u)
      BY <2>1
    <3> QED BY <3>1, <3>2 DEF ControlOK, ShadowOK
  <2> QED BY <2>2, <2>3, <2>4, <2>5, <2>6 DEF AgentInv
<1>2. CASE UNCHANGED turnVars
  BY <1>2 DEF turnVars, AgentInv, Arrays, RowsInv, ControlOK, ShadowOK
<1> QED BY <1>1, <1>2 DEF TurnsNext, AllOver

\* The invariant holds of every turn of every thread.
THEOREM TurnsStayInStep == ASSUME TurnAssumption PROVE TurnsSpec => []AgentInv
<1>1. TurnsInit => AgentInv
  BY InitialInv
<1>2. AgentInv /\ [TurnsNext]_turnVars => AgentInv'
  BY NextKeepsInv
<1> QED BY <1>1, <1>2, PTL DEF TurnsSpec

\* Whatever tools the LLM calls in whatever order, for any pattern and any retry
\* budget: exactly one feature of an open plan is active, the mission claims no
\* feature that verify_feature did not pass, the two retry budgets agree, an
\* accepted capability gap is final and the nudge comes at its threshold
\* (tool_analysis_plan.go, mission_shadow.go).
THEOREM MissionFollowsThePlan == ASSUME TurnAssumption PROVE TurnsSpec => []MissionIsConsistent
<1>1. ASSUME AgentInv PROVE MissionIsConsistent
  <2>c. RetryBudget \in Nat
    BY DEF TurnAssumption
  <2>0. \A t \in Turns : ControlOK(t) /\ ShadowOK(t)
    BY <1>1 DEF AgentInv
  <2>p. ASSUME NEW t \in Turns, plan[t].on
        PROVE  /\ plan[t] \in [on : {TRUE}, ledger : Ledgers, calls : Nat, nudged : BOOLEAN]
               /\ OneActive(plan[t].ledger)
               /\ plan[t].nudged <=> plan[t].calls >= NudgeThreshold
    <3>1. NoPlan.on = FALSE
      BY DEF NoPlan
    <3>2. plan[t] # NoPlan
      BY <2>p, <3>1
    <3>3. PlanOK(plan[t])
      BY <2>0 DEF ShadowOK
    <3> QED BY <3>2, <3>3 DEF PlanOK
  <2>1. TurnTypes
    <3>1. \A r \in rows : r.turn \in Turns /\ r.n \in Nat /\ r.idx \in Nat /\ r.role \in {"user", "assistant"}
      BY <1>1 DEF AgentInv, RowsInv, Rows
    <3>2. ASSUME NEW t \in Turns
          PROVE  /\ ctl[t].round \in 0..ctl[t].maxRounds /\ ctl[t].synthFails \in 0..SynthMaxFails
                 /\ ctl[t].answer \in Answers
      BY <2>0 DEF ControlOK, Controls
    <3>3. ASSUME NEW t \in Turns
          PROVE  /\ DOMAIN mission[t].tasks \subseteq FeatureIds \cup SubQuestions
                 /\ \A i \in DOMAIN mission[t].tasks :
                      mission[t].tasks[i] \in [status : TaskStates, budget : 0..RetryBudget]
                 /\ mission[t].status \in {"active", "complete", "partial", "unanswerable"}
      <4>1. MissionOK(mission[t])
        BY <2>0 DEF ShadowOK
      <4>2. PICK S \in SUBSET Ids : mission[t].tasks \in [S -> Tasks]
        BY <4>1 DEF MissionOK, Missions
      <4>3. mission[t].status \in {"active", "complete", "partial", "unanswerable"}
        BY <4>1 DEF MissionOK, Missions
      <4> QED BY <4>2, <4>3 DEF Ids, Tasks
    <3>4. agent \in AgentKinds
          /\ at \in [Turns -> {"unsent", "idle", "rejected", "recall", "judge", "loop", "ending", "done"}]
      BY <1>1 DEF AgentInv, Arrays
    <3> QED BY <3>1, <3>2, <3>3, <3>4 DEF TurnTypes
  <2>2. PlanHasOneActive
    <3> SUFFICES ASSUME NEW t \in Turns, plan[t].on, \E f \in FeatureIds : ~IsTerminal(plan[t].ledger[f].state)
                 PROVE  Cardinality({f \in FeatureIds : plan[t].ledger[f].state = "active"}) = 1
      BY DEF PlanHasOneActive
    <3>1. PICK f \in FeatureIds : plan[t].ledger[f].state = "active"
      BY <2>p DEF OneActive
    <3>2. {g \in FeatureIds : plan[t].ledger[g].state = "active"} = {f}
      BY <2>p, <3>1 DEF OneActive
    <3> QED BY <3>2, FS_Singleton
  <2>3. AnsweredMeansVerified
    BY <2>0 DEF AnsweredMeansVerified, ShadowOK, Mirrors
  <2>4. RetryBudgetsAgree
    <3> SUFFICES ASSUME NEW t \in Turns, plan[t].on, NEW f \in FeatureIds
                 PROVE  /\ plan[t].ledger[f].retries <= RetryBudget
                        /\ f \in DOMAIN mission[t].tasks /\ ~IsTerminal(mission[t].tasks[f].status) =>
                             mission[t].tasks[f].budget + plan[t].ledger[f].retries = RetryBudget
      BY DEF RetryBudgetsAgree
    <3>1. plan[t].ledger \in Ledgers
      BY <2>p
    <3>2. plan[t].ledger[f].retries <= RetryBudget
      BY <2>c, <3>1 DEF Ledgers
    <3>3. Agree(plan[t], mission[t])
      BY <2>0 DEF ShadowOK
    <3> QED BY <3>2, <3>3 DEF Agree
  <2>5. GapIsFinal
    BY <2>0 DEF GapIsFinal, ShadowOK, MissionOK
  <2>6. NudgedAtThreshold
    <3> SUFFICES ASSUME NEW t \in Turns
                 PROVE  plan[t].nudged <=> plan[t].on /\ plan[t].calls >= NudgeThreshold
      BY DEF NudgedAtThreshold
    <3>1. CASE plan[t].on
      BY <2>p, <3>1
    <3>2. CASE ~plan[t].on
      <4>1. plan[t] = NoPlan
        BY <2>0, <3>2 DEF ShadowOK, PlanOK
      <4> QED BY <3>2, <4>1 DEF NoPlan
    <3> QED BY <3>1, <3>2
  <2> QED BY <2>1, <2>2, <2>3, <2>4, <2>5, <2>6 DEF MissionIsConsistent
<1> QED BY <1>1, TurnsStayInStep, PTL

\* On every way out of handleAgentStreamLakehouse the mission's row keeps the
\* answer the user was given, and all that the turn did to the mission.
THEOREM AnswersAreKept == ASSUME TurnAssumption PROVE TurnsSpec => []AnswerIsKept
<1>1. AgentInv => AnswerIsKept
  BY DEF AgentInv, ShadowOK, AnswerIsKept
<1> QED BY <1>1, TurnsStayInStep, PTL

\* However many turns overlap on a thread, the rows of one turn keep their order,
\* and a turn that began when another was over sorts after all of its rows,
\* though the index is computed before recall and used after it.
THEOREM HistoryIsOrdered == ASSUME TurnAssumption PROVE TurnsSpec => []HistoryKeepsOrder
<1>1. ASSUME AgentInv PROVE HistoryKeepsOrder
  <2> SUFFICES ASSUME NEW r \in rows, NEW s \in rows
               PROVE  /\ r.turn = s.turn /\ r.n < s.n => r.idx < s.idx
                      /\ r.turn \in seen[s.turn] => r.idx < s.idx
    BY DEF HistoryKeepsOrder
  <2>1. /\ r.turn \in Turns /\ s.turn \in Turns /\ r.n \in Nat /\ s.n \in Nat /\ r.idx \in Nat /\ s.idx \in Nat
    BY <1>1 DEF AgentInv, RowsInv, Rows
  <2>2. \A u \in Turns : ctl[u].n \in Nat /\ ctl[u].idx \in Nat
    BY <1>1 DEF AgentInv, ControlOK, Controls
  <2>3. /\ r.idx + ctl[r.turn].n = ctl[r.turn].idx + r.n
        /\ s.idx + ctl[s.turn].n = ctl[s.turn].idx + s.n
    BY <1>1 DEF AgentInv, RowsInv
  <2>4. r.turn = s.turn /\ r.n < s.n => r.idx < s.idx
    BY <2>1, <2>2, <2>3
  <2>5. ASSUME r.turn \in seen[s.turn] PROVE r.idx < s.idx
    <3>1. r.idx + ctl[s.turn].n < ctl[s.turn].idx
      BY <1>1, <2>1, <2>5 DEF AgentInv, RowsInv
    <3> QED BY <2>1, <2>2, <2>3, <3>1
  <2> QED BY <2>4, <2>5
<1> QED BY <1>1, TurnsStayInStep, PTL

-----------------------------------------------------------------------------
(* The reachability judge *)

NamesOf(metrics) == {m.name : m \in metrics}

\* The entries that unionMetricIntents keeps: the first of each name.
NameAt(s, i) == s[i].name
FirstOfName(s, i) == NameAt(s, i) # "" /\ \A j \in DOMAIN s : j < i => NameAt(s, j) # NameAt(s, i)
FirstsOf(s) == {s[i] : i \in {i \in DOMAIN s : FirstOfName(s, i)}}

\* Entries behind the others add those of new names.
LEMMA FirstsOfLonger ==
    ASSUME NEW n \in Nat, NEW k \in Nat, NEW s, NEW t,
           DOMAIN s = 1..n, DOMAIN t = 1..(n + k), \A i \in 1..n : t[i] = s[i]
    PROVE  /\ FirstsOf(s) \subseteq FirstsOf(t)
           /\ \A m \in FirstsOf(t) \ FirstsOf(s) :
                 (\E i \in (n + 1)..(n + k) : m = t[i]) /\ \A j \in 1..n : NameAt(s, j) # m.name
<1>1. \A i \in 1..n : i \in DOMAIN t /\ (FirstOfName(t, i) <=> FirstOfName(s, i))
  <2> SUFFICES ASSUME NEW i \in 1..n  PROVE FirstOfName(t, i) <=> FirstOfName(s, i)
    OBVIOUS
  <2>1. \A j \in DOMAIN t : j < i => j \in 1..n /\ t[j] = s[j]
    OBVIOUS
  <2>2. \A j \in DOMAIN s : j \in DOMAIN t /\ t[j] = s[j]
    OBVIOUS
  <2>3. t[i] = s[i]
    OBVIOUS
  <2> QED BY <2>1, <2>2, <2>3 DEF FirstOfName, NameAt
<1>2. ASSUME NEW i \in 1..n, FirstOfName(s, i)  PROVE s[i] \in FirstsOf(t)
  BY <1>1, <1>2 DEF FirstsOf
<1>3. ASSUME NEW i \in DOMAIN t, FirstOfName(t, i), t[i] \notin FirstsOf(s)
      PROVE  i \in (n + 1)..(n + k) /\ \A j \in 1..n : NameAt(s, j) # NameAt(t, i)
  <2>1. i \notin 1..n
    BY <1>1, <1>3 DEF FirstsOf
  <2>2. i \in (n + 1)..(n + k) /\ \A j \in 1..n : j \in DOMAIN t /\ j < i
    BY <2>1
  <2>3. \A j \in 1..n : NameAt(t, j) = NameAt(s, j)
    BY DEF NameAt
  <2> QED BY <1>3, <2>2, <2>3 DEF FirstOfName
<1>4. \A i \in DOMAIN t : NameAt(t, i) = t[i].name
  BY DEF NameAt
<1> QED BY <1>2, <1>3, <1>4 DEF FirstsOf

\* The judge sees the turn's metrics and those of the thread whose names the turn has not.
LEMMA UnionIs ==
    ASSUME NEW S, NEW current \in Seq(S), NEW accumulated \in Seq(S)
    PROVE  LET alone == unionMetricIntents(current, <<>>)
               both == unionMetricIntents(current, accumulated)
           IN  /\ alone \subseteq Range(current)
               /\ alone \subseteq both
               /\ \A m \in both \ alone : m \in Range(accumulated) /\ m.name \notin NamesOf(Range(current))
<1>1. PICK n \in Nat, k \in Nat :
        /\ DOMAIN current = 1..n /\ DOMAIN accumulated = 1..k
        /\ DOMAIN (current \o accumulated) = 1..(n + k)
        /\ \A i \in 1..n : (current \o accumulated)[i] = current[i]
        /\ \A i \in (n + 1)..(n + k) : (current \o accumulated)[i] \in Range(accumulated)
  <2>1. /\ DOMAIN current = 1..Len(current) /\ DOMAIN accumulated = 1..Len(accumulated)
        /\ Len(current) \in Nat /\ Len(accumulated) \in Nat
        /\ DOMAIN (current \o accumulated) = 1..(Len(current) + Len(accumulated))
        /\ \A i \in 1..Len(current) : (current \o accumulated)[i] = current[i]
    OBVIOUS
  <2>2. \A i \in (Len(current) + 1)..(Len(current) + Len(accumulated)) :
           /\ i - Len(current) \in DOMAIN accumulated
           /\ (current \o accumulated)[i] = accumulated[i - Len(current)]
    OBVIOUS
  <2> QED BY <2>1, <2>2 DEF Range
<1>2. current \o <<>> = current
  OBVIOUS
<1>3. unionMetricIntents(current, <<>>) = FirstsOf(current)
  BY <1>2 DEF unionMetricIntents, FirstsOf, FirstOfName, NameAt
<1>4. unionMetricIntents(current, accumulated) = FirstsOf(current \o accumulated)
  BY DEF unionMetricIntents, FirstsOf, FirstOfName, NameAt
<1>5. /\ FirstsOf(current) \subseteq FirstsOf(current \o accumulated)
      /\ \A m \in FirstsOf(current \o accumulated) \ FirstsOf(current) :
            /\ \E i \in (n + 1)..(n + k) : m = (current \o accumulated)[i]
            /\ \A j \in 1..n : NameAt(current, j) # m.name
  <2>1. ASSUME NEW t, DOMAIN t = 1..(n + k), \A i \in 1..n : t[i] = current[i]
        PROVE  /\ FirstsOf(current) \subseteq FirstsOf(t)
               /\ \A m \in FirstsOf(t) \ FirstsOf(current) :
                     (\E i \in (n + 1)..(n + k) : m = t[i]) /\ \A j \in 1..n : NameAt(current, j) # m.name
    BY <1>1, <2>1, FirstsOfLonger
  <2> QED BY <1>1, <2>1
<1>6. FirstsOf(current) \subseteq Range(current)
  BY DEF FirstsOf, Range
<1>7. \A m \in FirstsOf(current \o accumulated) \ FirstsOf(current) :
          m \in Range(accumulated) /\ m.name \notin NamesOf(Range(current))
  BY <1>1, <1>5 DEF Range, NamesOf, NameAt
<1> QED BY <1>3, <1>4, <1>5, <1>6, <1>7

\* A need that cites no metric which only the thread has is judged the same, or better, with the
\* thread's metrics.
LEMMA HintHelped ==
    ASSUME NEW alone, NEW both, alone \subseteq both, NEW db, NEW h, NEW vocab, NEW resolved,
           h.by \cap NamesOf(both) = h.by \cap NamesOf(alone)
    PROVE  /\ JudgeHint(db, h, alone, vocab, resolved).is = "fine"
                => JudgeHint(db, h, both, vocab, resolved).is = "fine"
           /\ JudgeHint(db, h, alone, vocab, resolved).covered
                => JudgeHint(db, h, both, vocab, resolved).covered
<1>1. \A cited : anyCitedIntentServesShape(cited, h.shape, alone, vocab)
                   => anyCitedIntentServesShape(cited, h.shape, both, vocab)
  BY DEF anyCitedIntentServesShape
<1>2. CoveringIntents(h.name, alone) # {} => CoveringIntents(h.name, both) # {}
  BY DEF CoveringIntents
<1>3. h.by \cap {m.name : m \in both} = h.by \cap {m.name : m \in alone}
  BY DEF NamesOf
<1> QED BY <1>1, <1>2, <1>3 DEF JudgeHint

\* The two parts of the judge's coherence, for any metrics, needs, recall results and keywords.
\* What the thread remembers never makes a question unanswerable that this turn's metrics answer
\* (unionMetricIntents, buildVerdictFromLLMHints): Judge!ThreadMetricsHelp.
THEOREM ThreadOnlyHelps ==
    ASSUME NEW S, NEW rr, rr.metrics \in Seq(S), NEW accumulated \in Seq(S),
           NEW db, NEW vocab, NEW hints
    PROVE  ThreadMetricsHelp(db, rr, accumulated, vocab, hints)
<1> DEFINE a == unionMetricIntents(rr.metrics, <<>>)
           b == unionMetricIntents(rr.metrics, accumulated)
           resolved == summarizeRecallResolution(rr)
           names == {m.name : m \in Range(accumulated)} \ {m.name : m \in Range(rr.metrics)}
           J(ms, i) == JudgeHint(db, hints[i], ms, vocab, resolved)
           verdict(ms) == buildVerdictFromLLMHints(db, hints, ms, vocab, resolved)
<1>1. /\ a \subseteq Range(rr.metrics) /\ a \subseteq b
      /\ \A m \in b \ a : m \in Range(accumulated) /\ m.name \notin NamesOf(Range(rr.metrics))
  BY UnionIs
<1>2. ASSUME NEW i \in DOMAIN hints, hints[i].by \cap names = {}
      PROVE  /\ J(a, i).is = "fine" => J(b, i).is = "fine"
             /\ J(a, i).covered => J(b, i).covered
  <2>1. NamesOf(b) \subseteq NamesOf(a) \cup names
    BY <1>1 DEF NamesOf
  <2>2. NamesOf(a) \subseteq NamesOf(b)
    BY <1>1 DEF NamesOf
  <2>3. hints[i].by \cap NamesOf(b) = hints[i].by \cap NamesOf(a)
    BY <1>2, <2>1, <2>2
  <2> HIDE DEF a, b, resolved, names
  <2> QED BY <1>1, <2>3, HintHelped
<1>3. ASSUME NEW ms PROVE
        /\ verdict(ms).feasible <=> ms # {} /\ \A i \in DOMAIN hints : J(ms, i).is = "fine"
        /\ \A i \in DOMAIN hints : verdict(ms).covered[i] = J(ms, i).covered
  <2> HIDE DEF resolved
  <2> QED BY DEF buildVerdictFromLLMHints
<1>4. /\ runReachabilityJudge(db, rr, <<>>, vocab, hints, FALSE).verdict = verdict(a)
      /\ runReachabilityJudge(db, rr, accumulated, vocab, hints, FALSE).verdict = verdict(b)
  BY DEF runReachabilityJudge
<1>5. verdict(a).feasible /\ ~verdict(b).feasible => \E i \in DOMAIN hints : hints[i].by \cap names # {}
  <2> HIDE DEF a, b, resolved, names, verdict, J
  <2> QED BY <1>1, <1>2, <1>3
<1>6. \A i \in DOMAIN hints : verdict(a).covered[i] => verdict(b).covered[i] \/ hints[i].by \cap names # {}
  <2> HIDE DEF a, b, resolved, names, verdict, J
  <2> QED BY <1>2, <1>3
<1> HIDE DEF a, b, resolved, verdict, J
<1> QED BY <1>4, <1>5, <1>6 DEF ThreadMetricsHelp

\* And what the judge counts as answerable is not accepted as a capability gap
\* (AnswerableSubset, runDeclareCapabilityGap), up to what is named there: Judge!AnswerableIsNoGap.
THEOREM AnswerablePartsAreNoGaps ==
    ASSUME NEW S, NEW rr, rr.metrics \in Seq(S), NEW accumulated \in Seq(S),
           NEW db, NEW vocab, NEW hints
    PROVE  AnswerableIsNoGap(db, rr, accumulated, vocab, hints)
<1> DEFINE a == unionMetricIntents(rr.metrics, <<>>)
           b == unionMetricIntents(rr.metrics, accumulated)
           resolved == summarizeRecallResolution(rr)
           given(h) == recallResolves(h, resolved) \/ h.by # {}
           earlier == {m \in Range(accumulated) : m.name \notin {x.name : x \in Range(rr.metrics)}}
           verdict == buildVerdictFromLLMHints(db, hints, b, vocab, resolved)
<1>1. /\ a \subseteq Range(rr.metrics)
      /\ \A m \in b \ a : m \in Range(accumulated) /\ m.name \notin NamesOf(Range(rr.metrics))
  BY UnionIs
<1>2. runReachabilityJudge(db, rr, accumulated, vocab, hints, FALSE).verdict = verdict
  BY DEF runReachabilityJudge
<1>3. ASSUME NEW dim \in AnswerableSubset(hints, verdict), runDeclareCapabilityGap(rr, dim, "").terminal
      PROVE  \/ \E h \in Range(hints) : h.name = dim /\ given(h)
             \/ \E m \in earlier : \E p \in m.params : Covers(p, dim)
  <2>1. PICK i \in DOMAIN hints : /\ hints[i].name = dim /\ hints[i].kind \in {"dimension", "filter"}
                                  /\ verdict.covered[i]
    <3> HIDE DEF verdict
    <3> QED BY <1>3 DEF AnswerableSubset
  <2>2. JudgeHint(db, hints[i], b, vocab, resolved).covered
    <3> HIDE DEF b, resolved
    <3> QED BY <2>1 DEF buildVerdictFromLLMHints
  <2>3. given(hints[i]) \/ CoveringIntents(hints[i].name, b) # {}
    <3> HIDE DEF b, resolved
    <3> QED BY <2>1, <2>2 DEF JudgeHint
  <2>4. CoveringIntents(dim, Range(rr.metrics)) = {}
    BY <1>3 DEF runDeclareCapabilityGap, VerifyNoParamGap
  <2>5. ASSUME CoveringIntents(dim, b) # {}  PROVE \E m \in earlier : \E p \in m.params : Covers(p, dim)
    <3>1. PICK m \in b : \E p \in m.params : Covers(p, dim)
      BY <2>5 DEF CoveringIntents
    <3>2. m \notin Range(rr.metrics)
      BY <2>4, <3>1 DEF CoveringIntents
    <3>3. m \in earlier
      <4> HIDE DEF a, b
      <4> QED BY <1>1, <3>1, <3>2 DEF NamesOf
    <3> QED BY <3>1, <3>3
  <2> QED BY <2>1, <2>3, <2>5 DEF Range
<1> HIDE DEF verdict, given, earlier
<1> QED
  <2> USE DEF given, earlier
  <2> QED BY <1>2, <1>3 DEF AnswerableIsNoGap

-----------------------------------------------------------------------------
(* The synthesizer *)

\* The input of the synthesizer, over any words, questions, filters and rows.
Inputs(Words, Questions, Filters, Results, Summaries) ==
    [question : Questions, groupBy : SUBSET Words, filters : SUBSET Filters, intent : Words,
     suffix : Words, axis : Words, template : Questions, columns : SUBSET Words,
     totalLabel : Words, rows : Results, summary : Summaries]

\* Whether a filter's dimension is compared, in the words of SuspectFilters.
AllOf(question, p) ==
    LET next(i) == IF i < Len(question) /\ question[i + 1] = " " THEN i + 2 ELSE i + 1
    IN  \E i \in DOMAIN question : /\ question[i] \in AllPrefixes
                                   /\ next(i) \in DOMAIN question /\ p \in Within[question[next(i)]]
Compared(question, groupBy, f) ==
    f.op \in {"", "=", "in"} /\ Asks(question, f.prop) /\ (f.prop \in groupBy \/ AllOf(question, f.prop))

\* The filters that the denominator check objects to.
LEMMA SuspectsAre ==
    ASSUME NEW in  PROVE SuspectFilters(in) = {f \in in.filters : Compared(in.question, in.groupBy, f)}
BY DEF SuspectFilters, Compared, AllOf

\* The recommended query keeps everything but the suspect filters, and groups by their dimensions.
LEMMA SuggestionIs ==
    ASSUME NEW Words, NEW Questions, NEW Filters, NEW Results, NEW Summaries,
           NEW in \in Inputs(Words, Questions, Filters, Results, Summaries)
    PROVE  LET out == SuggestedQuery(in)
           IN  /\ out.question = in.question
               /\ out.rows = in.rows /\ out.summary = in.summary /\ out.template = in.template
               /\ out.columns = in.columns /\ out.suffix = in.suffix
               /\ out.filters = in.filters \ SuspectFilters(in)
               /\ out.groupBy = in.groupBy \cup {f.prop : f \in SuspectFilters(in)}
<1> DEFINE S == SuspectFilters(in)
<1> HIDE DEF S
<1>1. SuggestedQuery(in) = [in EXCEPT !.filters = in.filters \ S, !.groupBy = in.groupBy \cup {f.prop : f \in S}]
  BY DEF SuggestedQuery, S
<1>2. \A x, y : LET out == [in EXCEPT !.filters = x, !.groupBy = y]
                IN  /\ out.question = in.question /\ out.rows = in.rows /\ out.summary = in.summary
                    /\ out.template = in.template /\ out.columns = in.columns /\ out.suffix = in.suffix
                    /\ out.filters = x /\ out.groupBy = y
  BY DEF Inputs
<1> QED BY <1>1, <1>2 DEF S

\* It leaves no suspect filter, so its share has a denominator (checkShareHasDenominator).
LEMMA DenominatorFound ==
    ASSUME NEW Words, NEW Questions, NEW Filters, NEW Results, NEW Summaries,
           NEW in \in Inputs(Words, Questions, Filters, Results, Summaries)
    PROVE  checkShareHasDenominator(SuggestedQuery(in))
<1> DEFINE out == SuggestedQuery(in)
<1>1. /\ out.question = in.question
      /\ out.filters = in.filters \ SuspectFilters(in)
      /\ out.groupBy = in.groupBy \cup {f.prop : f \in SuspectFilters(in)}
  BY SuggestionIs
<1> HIDE DEF out
<1>2. ASSUME NEW f \in SuspectFilters(out)  PROVE FALSE
  <2>1. /\ f \in in.filters /\ f \notin SuspectFilters(in)
        /\ Compared(in.question, out.groupBy, f)
    BY <1>1, SuspectsAre
  <2>2. f.prop \notin in.groupBy /\ ~AllOf(in.question, f.prop)
    BY <2>1, SuspectsAre DEF Compared
  <2>3. PICK g \in SuspectFilters(in) : f.prop = g.prop
    BY <1>1, <2>1, <2>2 DEF Compared
  <2>4. g.prop \in in.groupBy \/ AllOf(in.question, g.prop)
    BY <2>3, SuspectsAre DEF Compared
  <2> QED BY <2>2, <2>3, <2>4
<1> QED BY <1>2 DEF checkShareHasDenominator, out

\* A scope marker that contradicts nothing: neither it nor the row count contains another word for a
\* share, the word for "everywhere" or the value of a row without data.
Neutral(in, m) ==
    \A w \in {m, in.summary.distinct} :
        /\ Within[w] \cap Indicators = {} /\ Globe \notin Within[w]
        /\ \A i \in DOMAIN in.rows : in.rows[i].total = 0 => Within[w] \cap (in.rows[i].dims \ Letters) = {}

\* What the draft may have to say, word by word; every word is a part of itself.
Required(in, m) == Must(in) \cup in.columns \cup {in.suffix, m, in.summary.distinct}

\* The draft that repeats the question, says what it must, and takes a choice that does not contradict
\* it passes every check.
LEMMA DraftPasses ==
    ASSUME NEW in, checkShareHasDenominator(in), ~Contradictory(in),
           NEW m \in ScopeMarkers, Neutral(in, m), \A w \in Required(in, m) : w \in Within[w]
    PROVE  \E d \in Drafts(in) : SynthRun(composeWithLLM(TRUE, d), in).passed
<1> DEFINE used == ExtractIndicators(in.question)
           base(p) == Range(in.question) \cup Must(in) \cup p
<1>1. PICK p \in Pivots(in) :
        /\ used # {} => \A t \in Indicators \ (Letters \cup used) : ~Says(base(p), t)
        /\ in.filters # {} /\ (\A t \in used : Globe \notin Within[t]) => ~Says(base(p), Globe)
        /\ in.totalLabel # "" =>
             \A i \in DOMAIN in.rows : \A v \in in.rows[i].dims \ Letters :
                in.rows[i].total = 0 /\ Says(Must(in) \cup p, v) => Asks(in.question, v)
  BY Zenon DEF Contradictory
<1> DEFINE d == base(p) \cup {m, in.summary.distinct}
<1>2. d \in Drafts(in)
  BY DEF Drafts
<1>3. \A w : Says(d, w) <=> Says(base(p), w) \/ w \in Within[m] \/ w \in Within[in.summary.distinct]
  BY DEF Says
<1>4. \A w \in d \cap Required(in, m) : Says(d, w)
  BY DEF Says
<1>5. \A w : Says(base(p), w) <=> Asks(in.question, w) \/ Says(Must(in) \cup p, w)
  BY DEF Says, Asks
<1> HIDE DEF base
<1>6. Must(in) \subseteq d /\ Must(in) \subseteq Required(in, m) /\ p \subseteq d /\ m \in Required(in, m)
      /\ in.summary.distinct \in Required(in, m) /\ in.columns \cup {in.suffix} \subseteq Required(in, m)
  BY DEF base, Required
<1>a. checkUserTermsPreserved(d, in)
  BY <1>4, <1>6 DEF checkUserTermsPreserved, Must
<1>b. checkBlacklistedTermsAbsent(d, in)
  BY <1>1, <1>3 DEF checkBlacklistedTermsAbsent, Neutral
<1>c. checkFiltersEchoed(d, in)
  BY <1>4, <1>6 DEF checkFiltersEchoed, Must
<1>d. checkResponseTplFollowed(d, in) /\ checkPivotSuffixUsed(d, in)
  <2>1. checkResponseTplFollowed(d, in)
    BY <1>4, <1>6 DEF checkResponseTplFollowed, Must
  <2>2. in.columns = {} \/ in.suffix = "" \/ \E c \in in.columns \cup {in.suffix} : p = {c}
    BY <1>1 DEF Pivots
  <2> QED BY <1>4, <1>6, <2>1, <2>2 DEF checkPivotSuffixUsed
<1>e. checkScopeStated(d, in)
  BY <1>4, <1>6 DEF checkScopeStated
<1>f. checkDenomLabelPrecise(d, in)
  BY <1>1, <1>3 DEF checkDenomLabelPrecise, Neutral
<1>g. checkZeroTotalRowsNotClaimed(d, in)
  BY <1>1, <1>3, <1>5 DEF checkZeroTotalRowsNotClaimed, Neutral
<1>h. checkRowCountUsesDistinct(d, in)
  BY <1>4, <1>6 DEF checkRowCountUsesDistinct
<1>i. runMechanicalChecks(d, in) = {}
  <2> HIDE DEF d
  <2> QED BY <1>a, <1>b, <1>c, <1>d, <1>e, <1>f, <1>g, <1>h DEF runMechanicalChecks
<1>j. SynthRun(composeWithLLM(TRUE, d), in).passed
  <2>1. d # {}
    OBVIOUS
  <2> HIDE DEF d
  <2> QED BY <2>1, <1>i DEF SynthRun, composeWithLLM
<1> QED BY <1>2, <1>j

\* There is an answer to write for every question, query and result, as long as the checks do not
\* contradict each other: the recommended query satisfies the denominator check, and the draft that
\* repeats the question satisfies all (runMechanicalChecks): Answer!AnswerExists.
THEOREM AnswerCanBeWritten ==
    ASSUME NEW Words, NEW Questions, NEW Filters, NEW Results, NEW Summaries,
           NEW in \in Inputs(Words, Questions, Filters, Results, Summaries),
           NEW m \in ScopeMarkers, Neutral(in, m), \A w \in Required(in, m) : w \in Within[w]
    PROVE  AnswerExists(in)
<1> DEFINE final == IF checkShareHasDenominator(in) THEN in ELSE SuggestedQuery(in)
<1>1. checkShareHasDenominator(final)
  BY DenominatorFound
<1>2. Neutral(final, m)
  <2>1. SuggestedQuery(in).rows = in.rows /\ SuggestedQuery(in).summary = in.summary
    BY SuggestionIs
  <2> QED BY <2>1 DEF Neutral
<1>3. Required(final, m) \subseteq Required(in, m)
  <2>1. Required(SuggestedQuery(in), m) \subseteq Required(in, m)
    <3> DEFINE out == SuggestedQuery(in)
    <3>1. /\ out.question = in.question /\ out.template = in.template /\ out.filters \subseteq in.filters
          /\ out.columns = in.columns /\ out.suffix = in.suffix /\ out.summary = in.summary
      BY SuggestionIs
    <3> HIDE DEF out
    <3>2. Must(out) \subseteq Must(in)
      BY <3>1 DEF Must
    <3> QED BY <3>1, <3>2 DEF Required, out
  <2> QED BY <2>1
<1> HIDE DEF final
<1>4. Contradictory(final) \/ \E d \in Drafts(final) : SynthRun(composeWithLLM(TRUE, d), final).passed
  BY <1>1, <1>2, <1>3, DraftPasses
<1> QED BY <1>1, <1>4 DEF AnswerExists, final

-----------------------------------------------------------------------------
(* Reflection *)

\* A query's result, over any columns, groupings and filters.
Responses(Columns, Groupings, Filters) ==
    [rows : Nat, columns : SUBSET Columns, groupBy : Groupings, filters : SUBSET Filters, plan : BOOLEAN]

\* A non-empty set of pairs of numbers has a first one.
LEMMA FirstPlace ==
    ASSUME NEW P \in SUBSET (Nat \X Nat), P # {}
    PROVE  \E p \in P : \A q \in P : p[1] < q[1] \/ (p[1] = q[1] /\ p[2] <= q[2])
<1>1. PICK a \in {p[1] : p \in P} : \A b \in {p[1] : p \in P} : a <= b
  <2>1. {p[1] : p \in P} \in SUBSET Nat /\ {p[1] : p \in P} # {}
    OBVIOUS
  <2> QED BY <2>1, NatHasMin
<1> DEFINE T == {p[2] : p \in {p \in P : p[1] = a}}
<1>2. PICK c \in T : \A b \in T : c <= b
  <2>1. T \in SUBSET Nat /\ T # {}
    BY <1>1
  <2> HIDE DEF T
  <2> QED BY <2>1, NatHasMin
<1>3. PICK p \in P : p[1] = a /\ p[2] = c
  BY <1>2
<1>4. ASSUME NEW q \in P  PROVE p[1] < q[1] \/ (p[1] = q[1] /\ p[2] <= q[2])
  <2>1. p[1] <= q[1] /\ p[1] \in Nat /\ q[1] \in Nat
    BY <1>1, <1>3
  <2>2. CASE p[1] = q[1]
    BY <1>2, <1>3, <2>2
  <2> QED BY <2>1, <2>2
<1> QED BY <1>3, <1>4

\* A sequence's places are numbers.
LEMMA PlacesAreNumbers ==
    ASSUME NEW S, NEW s \in Seq(S)  PROVE DOMAIN s \subseteq Nat
OBVIOUS

\* The dimension that is asked for is a dimension word of the question.
LEMMA BreakdownDimIsAsked ==
    ASSUME NEW Words, NEW question \in Seq(Words), DimTriggers \in Seq(Words),
           extractBreakdownDim(question) # ""
    PROVE  extractBreakdownDim(question) \in DimWords \cap Range(question)
<1> DEFINE tail(i) == IF i < Len(question) /\ question[i + 1] = " " THEN i + 2 ELSE i + 1
           places == {p \in (DOMAIN DimTriggers) \X (DOMAIN question) :
                        /\ question[p[2]] = DimTriggers[p[1]]
                        /\ tail(p[2]) \in DOMAIN question /\ question[tail(p[2])] \in DimWords}
           first == CHOOSE p \in places : \A q \in places : p[1] < q[1] \/ (p[1] = q[1] /\ p[2] <= q[2])
<1>1. extractBreakdownDim(question) = IF places = {} THEN "" ELSE question[tail(first[2])]
  BY Zenon DEF extractBreakdownDim
<1>2. places # {}
  <2> HIDE DEF places, first, tail
  <2> QED BY <1>1
<1>3. places \in SUBSET (Nat \X Nat)
  <2>1. DOMAIN DimTriggers \subseteq Nat /\ DOMAIN question \subseteq Nat
    BY PlacesAreNumbers
  <2>2. places \subseteq (DOMAIN DimTriggers) \X (DOMAIN question)
    <3> HIDE DEF tail
    <3> QED OBVIOUS
  <2> HIDE DEF places
  <2> QED BY <2>1, <2>2
<1>4. first \in places
  <2> HIDE DEF places
  <2> QED BY <1>2, <1>3, FirstPlace
<1>5. tail(first[2]) \in DOMAIN question /\ question[tail(first[2])] \in DimWords
  <2> HIDE DEF first, tail
  <2> QED BY <1>4
<1> HIDE DEF places, first, tail
<1> QED BY <1>1, <1>2, <1>5 DEF Range

\* The three rules that tell the agent to query again, in their order.
TooFewRows(question, r) == (Breaks(question) \/ Ranks(question)) /\ r.rows <= 1
OtherDimension(question, r) ==
    /\ extractBreakdownDim(question) # "" /\ unionColumns(r) # {}
    /\ ~dimMatchesAnyColumn(extractBreakdownDim(question), unionColumns(r))
NotFiltered(question, r) == detectFilterValueMention(question) # <<>> /\ r.filters = {}

\* What an advice is made of, and the advice itself: what the rules find wrong.
Hints(question) == extractDimensionHints(question)
Mention(question) == detectFilterValueMention(question)
Advice(question, r) == {v \in runReflectTool(question, r) : v.verdict = "mismatch" /\ v.rule # ""}

\* The advice is the first rule's that applies; the model's own opinion is none.
LEMMA AdviceIs ==
    ASSUME NEW question, NEW r, question # <<>>, ~r.plan
    PROVE  Advice(question, r) =
             IF TooFewRows(question, r) THEN {Verdict("mismatch", "breakdown_lowrows", Hints(question), <<>>)}
             ELSE IF OtherDimension(question, r)
                  THEN {Verdict("mismatch", "dim_mismatch", {extractBreakdownDim(question)} \cup Hints(question), <<>>)}
             ELSE IF NotFiltered(question, r)
                  THEN {Verdict("mismatch", "filter_value_missing", Hints(question), Mention(question))}
             ELSE {}
<1> DEFINE rule == ruleBasedVerdict(question, r)
<1>1. rule = IF TooFewRows(question, r) THEN Verdict("mismatch", "breakdown_lowrows", Hints(question), <<>>)
             ELSE IF OtherDimension(question, r)
                  THEN Verdict("mismatch", "dim_mismatch", {extractBreakdownDim(question)} \cup Hints(question), <<>>)
             ELSE IF NotFiltered(question, r)
                  THEN Verdict("mismatch", "filter_value_missing", Hints(question), Mention(question))
             ELSE IF ~(Breaks(question) \/ Ranks(question)) /\ r.rows = 1
                  THEN Verdict("match", "aggregate_single_row", {}, <<>>)
             ELSE Verdict("unsure", "", {}, <<>>)
  BY Zenon DEF ruleBasedVerdict, DimMismatch, TooFewRows, OtherDimension, NotFiltered, resolveSpecFilters, Hints, Mention
<1>2. runReflectTool(question, r) =
        IF rule.verdict # "unsure" THEN {rule}
        ELSE {Verdict(v, "", IF v = "match" THEN {} ELSE extractDimensionHints(question), <<>>) : v \in llmReflect}
  BY Zenon DEF runReflectTool, evaluateShape
<1>3. \A v, k, h, m : Verdict(v, k, h, m).verdict = v /\ Verdict(v, k, h, m).rule = k
  BY DEF Verdict
<1>4. Advice(question, r) = IF rule.verdict = "mismatch" /\ rule.rule # "" THEN {rule} ELSE {}
  <2> DEFINE all == runReflectTool(question, r)
  <2>1. Advice(question, r) = {v \in all : v.verdict = "mismatch" /\ v.rule # ""}
    BY DEF Advice
  <2>2. CASE rule.verdict = "unsure"
    <3>1. \A v \in all : v.rule = ""
      <4>1. all = {Verdict(v, "", IF v = "match" THEN {} ELSE extractDimensionHints(question), <<>>) : v \in llmReflect}
        BY <1>2, <2>2
      <4> HIDE DEF all, rule
      <4>2. ASSUME NEW v \in all  PROVE v.rule = ""
        <5>1. PICK w \in llmReflect : v = Verdict(w, "", IF w = "match" THEN {} ELSE extractDimensionHints(question), <<>>)
          BY <4>1
        <5> QED BY <5>1 DEF Verdict
      <4> QED BY <4>2
    <3>2. "unsure" # "mismatch"
      OBVIOUS
    <3> HIDE DEF all, rule
    <3> QED BY Zenon, <2>1, <2>2, <3>1, <3>2
  <2>3. CASE rule.verdict # "unsure"
    <3>1. all = {rule}
      BY <1>2, <2>3
    <3> HIDE DEF all, rule
    <3> QED BY Zenon, <2>1, <3>1
  <2> QED BY <2>2, <2>3
<1>5. /\ "mismatch" # "match" /\ "mismatch" # "unsure"
      /\ "breakdown_lowrows" # "" /\ "dim_mismatch" # "" /\ "filter_value_missing" # ""
  OBVIOUS
<1> HIDE DEF rule
<1>6. ASSUME NEW k, NEW h, NEW m, k # "", rule = Verdict("mismatch", k, h, m)
      PROVE  Advice(question, r) = {Verdict("mismatch", k, h, m)}
  <2>1. rule.verdict = "mismatch" /\ rule.rule = k
    BY <1>6 DEF Verdict
  <2> QED BY Zenon, <1>4, <1>6, <2>1
<1>7. CASE TooFewRows(question, r)
  BY Zenon, <1>1, <1>5, <1>6, <1>7
<1>8. CASE ~TooFewRows(question, r) /\ OtherDimension(question, r)
  BY Zenon, <1>1, <1>5, <1>6, <1>8
<1>9. CASE ~TooFewRows(question, r) /\ ~OtherDimension(question, r) /\ NotFiltered(question, r)
  BY Zenon, <1>1, <1>5, <1>6, <1>9
<1>10. CASE ~TooFewRows(question, r) /\ ~OtherDimension(question, r) /\ ~NotFiltered(question, r)
  <2>1. rule.verdict # "mismatch"
    BY Zenon, <1>1, <1>3, <1>5, <1>10
  <2> QED BY Zenon, <2>1, <1>4, <1>10
<1> QED BY <1>7, <1>8, <1>9, <1>10

\* What following an advice yields: columns for the dimensions it names ...
LEMMA FollowedForColumns ==
    ASSUME NEW C, NEW G, NEW F, NEW r \in Responses(C, G, F), NEW h \in SUBSET C, h # {},
           NEW k, k # "filter_value_missing"
    PROVE  LET out == Followed(r, Verdict("mismatch", k, h, <<>>))
           IN  /\ out \in Responses(C, G, F) /\ out.rows = 2 /\ out.plan = r.plan
               /\ out.columns = h /\ out.filters = r.filters
<1>1. Followed(r, Verdict("mismatch", k, h, <<>>)) = [r EXCEPT !.rows = 2, !.columns = h, !.filters = r.filters]
  BY DEF Followed, Verdict
<1>2. LET out == [r EXCEPT !.rows = 2, !.columns = h, !.filters = r.filters]
      IN  /\ out \in Responses(C, G, F) /\ out.rows = 2 /\ out.plan = r.plan
          /\ out.columns = h /\ out.filters = r.filters
  BY DEF Responses
<1> QED BY <1>1, <1>2

Empty(m) == m = <<>>

\* ... or the filter for the value.
LEMMA FollowedForFilter ==
    ASSUME NEW C, NEW G, NEW F, NEW r \in Responses(C, G, F), NEW h \in SUBSET C, NEW m \in F, ~Empty(m)
    PROVE  LET out == Followed(r, Verdict("mismatch", "filter_value_missing", h, m))
           IN  /\ out \in Responses(C, G, F) /\ out.rows = 2 /\ out.plan = r.plan
               /\ out.columns = h \cup r.columns /\ out.filters = {m}
<1>1. Followed(r, Verdict("mismatch", "filter_value_missing", h, m))
        = [r EXCEPT !.rows = 2, !.columns = h \cup r.columns, !.filters = {m}]
  BY DEF Followed, Verdict, Empty
<1>2. LET out == [r EXCEPT !.rows = 2, !.columns = h \cup r.columns, !.filters = {m}]
      IN  /\ out \in Responses(C, G, F) /\ out.rows = 2 /\ out.plan = r.plan
          /\ out.columns = h \cup r.columns /\ out.filters = {m}
  BY DEF Responses
<1> QED BY <1>1, <1>2

\* One more round: the agent queries as it is told.
Round(question, r) ==
    IF Advice(question, r) = {} THEN r ELSE Followed(r, CHOOSE v \in Advice(question, r) : TRUE)

\* The three rounds there are: new columns, columns for the dimension, or the filter; or nothing changes.
LEMMA RoundIs ==
    ASSUME NEW C, NEW G, NEW F, NEW r \in Responses(C, G, F), NEW question, question # <<>>, ~r.plan,
           Hints(question) \subseteq C, extractBreakdownDim(question) \in C, Mention(question) \in F
    PROVE  LET next == Round(question, r)
               advised(columns, filters) ==
                   /\ next \in Responses(C, G, F) /\ next.rows = 2 /\ ~next.plan
                   /\ next.columns = columns /\ next.filters = filters
           IN  IF TooFewRows(question, r) THEN Hints(question) # {} => advised(Hints(question), r.filters)
               ELSE IF OtherDimension(question, r)
                    THEN advised({extractBreakdownDim(question)} \cup Hints(question), r.filters)
               ELSE IF NotFiltered(question, r)
                    THEN advised(Hints(question) \cup r.columns, {Mention(question)})
               ELSE next = r
<1> DEFINE H == Hints(question)  M == Mention(question)  d == extractBreakdownDim(question)
<1>1. \A x : (CHOOSE v \in {x} : TRUE) = x
  OBVIOUS
<1>2. ASSUME NEW x, Advice(question, r) = {x}  PROVE Round(question, r) = Followed(r, x)
  BY <1>1, <1>2 DEF Round
<1>3. CASE TooFewRows(question, r) /\ H # {}
  <2> DEFINE x == Verdict("mismatch", "breakdown_lowrows", H, <<>>)
  <2>1. Advice(question, r) = {x}
    BY <1>3, AdviceIs
  <2>2. Round(question, r) = Followed(r, x)
    BY <1>2, <2>1
  <2> HIDE DEF H
  <2>3. LET out == Followed(r, x)
        IN  /\ out \in Responses(C, G, F) /\ out.rows = 2 /\ out.plan = r.plan
            /\ out.columns = H /\ out.filters = r.filters
    <3>1. H \in SUBSET C
      BY DEF H
    <3> QED BY <1>3, <3>1, FollowedForColumns
  <2> HIDE DEF x
  <2> QED BY <1>3, <2>2, <2>3 DEF H
<1>4. CASE ~TooFewRows(question, r) /\ OtherDimension(question, r)
  <2> DEFINE h == {d} \cup H
             x == Verdict("mismatch", "dim_mismatch", h, <<>>)
  <2>1. Advice(question, r) = {x}
    BY <1>4, AdviceIs
  <2>2. Round(question, r) = Followed(r, x)
    BY <1>2, <2>1
  <2>4. h \in SUBSET C /\ h # {}
    OBVIOUS
  <2> HIDE DEF h
  <2>3. LET out == Followed(r, x)
        IN  /\ out \in Responses(C, G, F) /\ out.rows = 2 /\ out.plan = r.plan
            /\ out.columns = h /\ out.filters = r.filters
    BY <2>4, FollowedForColumns
  <2> HIDE DEF x
  <2> QED BY <1>4, <2>2, <2>3 DEF h
<1>5. CASE ~TooFewRows(question, r) /\ ~OtherDimension(question, r) /\ NotFiltered(question, r)
  <2> DEFINE x == Verdict("mismatch", "filter_value_missing", H, M)
  <2>1. Advice(question, r) = {x}
    BY <1>5, AdviceIs
  <2>2. Round(question, r) = Followed(r, x)
    BY <1>2, <2>1
  <2>4. H \in SUBSET C /\ M \in F /\ ~Empty(M)
    BY <1>5 DEF NotFiltered, Mention, Empty
  <2> HIDE DEF H, M
  <2>3. LET out == Followed(r, Verdict("mismatch", "filter_value_missing", H, M))
        IN  /\ out \in Responses(C, G, F) /\ out.rows = 2 /\ out.plan = r.plan
            /\ out.columns = H \cup r.columns /\ out.filters = {M}
    <3> HIDE DEF x
    <3> QED BY <2>4, FollowedForFilter
  <2>5. LET out == Round(question, r)
        IN  /\ out \in Responses(C, G, F) /\ out.rows = 2 /\ out.plan = r.plan
            /\ out.columns = H \cup r.columns /\ out.filters = {M}
    BY <2>2, <2>3
  <2> HIDE DEF x
  <2> QED BY <1>5, <2>5 DEF H, M
<1>6. CASE ~TooFewRows(question, r) /\ ~OtherDimension(question, r) /\ ~NotFiltered(question, r)
  <2>1. Advice(question, r) = {}
    BY <1>6, AdviceIs
  <2> QED BY <1>6, <2>1 DEF Round
<1> HIDE DEF H, M, d
<1>7. CASE TooFewRows(question, r) /\ H = {}
  BY <1>7 DEF H
<1> QED BY <1>3, <1>4, <1>5, <1>6, <1>7

\* A result of several rows that has the dimension's column, and the filter, is told nothing.
LEMMA NothingAdvised ==
    ASSUME NEW question, question # <<>>, NEW r, ~r.plan, r.rows = 2,
           ~OtherDimension(question, r), ~NotFiltered(question, r)
    PROVE  Advice(question, r) = {}
<1>1. ~TooFewRows(question, r)
  BY DEF TooFewRows
<1> QED BY <1>1, AdviceIs

\* A result that has rows has columns.
LEMMA ColumnsAre == ASSUME NEW r, r.rows = 2  PROVE extractResultColumns(r) = r.columns
BY DEF extractResultColumns

\* Whoever has the dimension's column has the dimension.
LEMMA HasDimension ==
    ASSUME NEW question, NEW r, r.rows = 2, extractBreakdownDim(question) \in r.columns \cup {""},
           extractBreakdownDim(question) # ""
              => extractBreakdownDim(question) \in Within[extractBreakdownDim(question)]
    PROVE  ~OtherDimension(question, r)
<1> DEFINE d == extractBreakdownDim(question)
<1>1. CASE d = ""
  BY <1>1 DEF OtherDimension
<1>2. CASE d \in r.columns /\ d # ""
  <2>1. unionColumns(r) = r.columns \ {""}
    <3>1. extractResultColumns(r) = r.columns
      BY ColumnsAre
    <3>2. \A s : {} \cup s = s
      OBVIOUS
    <3> QED BY Zenon, <3>1, <3>2 DEF unionColumns, summariseGroupBy
  <2>2. dimMatchesAnyColumn(d, unionColumns(r))
    BY <1>2, <2>1 DEF dimMatchesAnyColumn
  <2> QED BY <2>2 DEF OtherDimension
<1> QED BY <1>1, <1>2

\* After two rounds of what the rules advise the result has the shape the question asks for, for every
\* question and result, unless the rule for too few rows has no word for the dimension
\* (ruleBasedVerdict, runReflectTool): Answer!ReflectSettles.
THEOREM TwoRoundsSettle ==
    ASSUME NEW Columns, NEW Groupings, NEW Filters, NEW resp \in Responses(Columns, Groupings, Filters),
           NEW Words, NEW question \in Seq(Words), DimTriggers \in Seq(Words),
           \A w \in DimWords : w \in Within[w]
    PROVE  ReflectSettles(question, resp)
<1> DEFINE d == extractBreakdownDim(question)
           C == Columns \cup Hints(question) \cup {d}
           F == Filters \cup {Mention(question)}
           Excused == \E v \in Advice(question, resp) :
                         v.rule = "breakdown_lowrows" /\ (v.hints = {} \/ d \notin HintWords \cup {""})
           Next2 == Round(question, Round(question, resp))
<1>1. ReflectSettles(question, resp) <=> Advice(question, Next2) = {} \/ Excused
  BY Zenon DEF ReflectSettles, Round, Advice
<1>2. CASE question = <<>> \/ resp.plan
  <2>1. Advice(question, resp) = {}
    <3>1. \E x : runReflectTool(question, resp) = {Verdict(x, "", {}, <<>>)}
      BY <1>2 DEF runReflectTool
    <3>2. \A x : Verdict(x, "", {}, <<>>).rule = ""
      BY DEF Verdict
    <3> QED BY <3>1, <3>2 DEF Advice
  <2> QED BY <1>1, <2>1 DEF Round
<1>3. CASE question # <<>> /\ ~resp.plan
  <2>1. resp \in Responses(C, Groupings, F)
    BY DEF Responses
  <2>2. Hints(question) \subseteq C /\ d \in C /\ Mention(question) \in F
    OBVIOUS
  <2>3. /\ d # "" => d \in Within[d]
        /\ d \in Hints(question) \/ d \notin HintWords \cup {""} \/ d = ""
    <3>1. CASE d # ""
      BY <3>1, BreakdownDimIsAsked DEF Hints, extractDimensionHints, Asks, Says
    <3> QED BY <3>1
  <2> DEFINE one == Round(question, resp)
  <2>4. ASSUME NEW r \in Responses(C, Groupings, F), r.rows = 2, ~r.plan, d \in r.columns \cup {""}
        PROVE  Advice(question, Round(question, r)) = {}
    <3> HIDE DEF C, F
    <3>1. ~OtherDimension(question, r) /\ ~TooFewRows(question, r)
      <4>1. ~OtherDimension(question, r)
        BY <2>3, <2>4, HasDimension
      <4>2. ~(r.rows <= 1)
        <5>1. r.rows = 2
          BY Zenon, <2>4
        <5> QED BY ONLY <5>1
      <4> QED BY <4>1, <4>2 DEF TooFewRows
    <3>2. CASE ~NotFiltered(question, r)
      <4>1. Advice(question, r) = {}
        BY <1>3, <2>4, <3>1, <3>2, NothingAdvised
      <4> QED BY <4>1 DEF Round
    <3>3. CASE NotFiltered(question, r)
      <4> DEFINE next == Round(question, r)
      <4>1. /\ next.rows = 2 /\ ~next.plan
            /\ next.columns = Hints(question) \cup r.columns /\ next.filters = {Mention(question)}
        BY <1>3, <2>2, <2>4, <3>1, <3>3, RoundIs
      <4> HIDE DEF next
      <4>2. ~OtherDimension(question, next) /\ ~NotFiltered(question, next)
        BY <2>3, <2>4, <4>1, HasDimension DEF NotFiltered
      <4> QED BY <1>3, <4>1, <4>2, NothingAdvised DEF next
    <3> QED BY <3>2, <3>3
  <2>5. CASE TooFewRows(question, resp) /\ ~Excused
    <3>1. Hints(question) # {} /\ d \in Hints(question) \cup {""}
      <4>1. Advice(question, resp) = {Verdict("mismatch", "breakdown_lowrows", Hints(question), <<>>)}
        BY <1>3, <2>5, AdviceIs
      <4>2. Verdict("mismatch", "breakdown_lowrows", Hints(question), <<>>).rule = "breakdown_lowrows"
            /\ Verdict("mismatch", "breakdown_lowrows", Hints(question), <<>>).hints = Hints(question)
        BY DEF Verdict
      <4>3. ~(Hints(question) = {} \/ d \notin HintWords \cup {""})
        BY Zenon, <2>5, <4>1, <4>2
      <4> QED BY <2>3, <4>3
    <3> HIDE DEF C, F
    <3>2. one \in Responses(C, Groupings, F) /\ one.rows = 2 /\ ~one.plan /\ one.columns = Hints(question)
      BY <1>3, <2>1, <2>2, <2>5, <3>1, RoundIs
    <3> HIDE DEF one
    <3>3. Advice(question, Round(question, one)) = {}
      BY <2>4, <3>1, <3>2
    <3> QED BY <1>1, <3>3 DEF one
  <2>6. CASE ~TooFewRows(question, resp) /\ OtherDimension(question, resp)
    <3> HIDE DEF C, F
    <3>1. /\ one \in Responses(C, Groupings, F) /\ one.rows = 2 /\ ~one.plan
          /\ one.columns = {d} \cup Hints(question)
      BY <1>3, <2>1, <2>2, <2>6, RoundIs
    <3> HIDE DEF one
    <3>2. Advice(question, Round(question, one)) = {}
      BY <2>4, <3>1
    <3> QED BY <1>1, <3>2 DEF one
  <2>7. CASE ~TooFewRows(question, resp) /\ ~OtherDimension(question, resp) /\ NotFiltered(question, resp)
    <3> HIDE DEF C, F
    <3>1. one \in Responses(C, Groupings, F) /\ one.rows = 2 /\ ~one.plan /\ one.filters = {Mention(question)}
      BY <1>3, <2>1, <2>2, <2>7, RoundIs
    <3> HIDE DEF one
    <3>2. ~TooFewRows(question, one) /\ ~NotFiltered(question, one)
      BY <3>1 DEF TooFewRows, NotFiltered
    <3>3. CASE OtherDimension(question, one)
      <4> DEFINE two == Round(question, one)
      <4>1. /\ two.rows = 2 /\ ~two.plan
            /\ two.columns = {d} \cup Hints(question) /\ two.filters = {Mention(question)}
        BY <1>3, <2>2, <3>1, <3>2, <3>3, RoundIs
      <4> HIDE DEF two
      <4>2. ~OtherDimension(question, two) /\ ~NotFiltered(question, two)
        BY <2>3, <4>1, HasDimension DEF NotFiltered
      <4>3. Advice(question, two) = {}
        BY <1>3, <4>1, <4>2, NothingAdvised
      <4> QED BY <1>1, <4>3 DEF one, two
    <3>4. CASE ~OtherDimension(question, one)
      <4>1. Advice(question, one) = {}
        BY <1>3, <3>1, <3>2, <3>4, NothingAdvised
      <4>2. Round(question, one) = one
        BY <4>1 DEF Round
      <4> QED BY <1>1, <4>1, <4>2 DEF one
    <3> QED BY <3>3, <3>4
  <2>8. CASE ~TooFewRows(question, resp) /\ ~OtherDimension(question, resp) /\ ~NotFiltered(question, resp)
    <3>1. Advice(question, resp) = {}
      BY <1>3, <2>8, AdviceIs
    <3>2. Round(question, resp) = resp
      BY <3>1 DEF Round
    <3> QED BY <1>1, <3>1, <3>2
  <2> QED BY <1>1, <2>5, <2>6, <2>7, <2>8
<1> QED BY <1>2, <1>3
=============================================================================
