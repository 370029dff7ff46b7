------------------------------ MODULE AgentTurn ------------------------------
(***************************************************************************)
(* One turn of the lakehouse agent of agent-server and its MissionAct       *)
(* shadow: handleAgentStreamLakehouse (handler_agent_lakehouse.go), the     *)
(* plan-mode tools and their feature ledger (tool_analysis_plan.go,         *)
(* analysis/), the mission state machine (pkg/mission) and the hooks that   *)
(* mirror the turn into a mission row (mission_shadow.go), the reachability *)
(* gate and the turn-end reconciliation (reachability_judge.go).            *)
(*                                                                         *)
(* Turns are requests on one thread; nothing serialises them.  The LLM is   *)
(* an adversary: every round it may fail, answer, or call any tool with any *)
(* argument (the dispatcher accepts plan tools it does not advertise).      *)
(***************************************************************************)
EXTENDS Thread, Naturals, Sequences, FiniteSets

CONSTANTS
    Features,         \* the features of the analysis pattern, in its order
    SubQuestions,     \* sub-question task ids the judge may seed (q1, q2, ...)
    AgentKinds,       \* agent_type the thread may have
    Lengths,          \* scenarios: the maxRounds of each turn (20 in the code; the
                      \* bound of the instance), 0 for a request that is not sent
    RetryBudget,      \* analysis.RetryBudget and Task.RetryBudget (2)
    NudgeThreshold,   \* planToolNudgeThreshold (4)
    SynthMaxFails     \* synthFollowUpMaxFails (3)

\* What the instances assume of the constants.
TurnAssumption ==
    /\ AgentKinds \subseteq {"lakehouse", "builder", "explore"}
    /\ Len(Features) \in Nat /\ Lengths \subseteq [Turns -> Nat]
    /\ {RetryBudget, NudgeThreshold, SynthMaxFails} \subseteq Nat \ {0}

VARIABLES
    agent,    \* ont_agent_thread.agent_type
    rows,     \* ont_agent_step of the thread: turn, its n-th row, step_index, role
    at,       \* where each turn is
    ctl,      \* its locals: stepIdx, round, rows written, maxRounds, synthFailCount,
              \* follow-up?, was a pattern card recalled?, lastAssistantContent
    plan,     \* planState: the feature ledger and the tool-thrash counters
    mission,  \* shadowM.m, the mission in memory
    stored,   \* its row of ont_mission
    seen      \* history: the turns that were over when the turn began

turnVars == <<agent, rows, at, ctl, plan, mission, stored, seen>>

FeatureIds == {Features[i] : i \in 1..Len(Features)}

-----------------------------------------------------------------------------
\* pkg/mission: the task state machine and the mutator

CanTransition(from, to) ==
    \/ from \in {"pending", "pending_retry"} /\ to = "active"
    \/ from = "active" /\ to \in {"passing", "pending_retry", "blocked"}

IsTerminal(s) == s \in {"passing", "blocked"}

DeriveStatus(tasks, root) ==
    LET states == {tasks[i].status : i \in DOMAIN tasks}
    IN CASE root -> "unanswerable"
         [] ~root /\ (states = {} \/ \E s \in states : ~IsTerminal(s)) -> "active"
         [] ~root /\ states = {"passing"} -> "complete"
         [] OTHER -> "partial"

MayStart(m, id) ==
    /\ id \in DOMAIN m.tasks
    /\ \A i \in DOMAIN m.tasks : m.tasks[i].status = "active" => i = id
    /\ CanTransition(m.tasks[id].status, "active")

MoveTo(m, id, status, cursor) ==
    LET tasks == [m.tasks EXCEPT ![id].status = status]
    IN [m EXCEPT !.tasks = tasks, !.cursor = cursor, !.status = DeriveStatus(tasks, m.root)]

Start(m, id) == MoveTo(m, id, "active", id)
CursorWithout(m, id) == IF m.cursor = id THEN "" ELSE m.cursor
Complete(m, id) == MoveTo(m, id, "passing", CursorWithout(m, id))
Block(m, id) == MoveTo(m, id, "blocked", CursorWithout(m, id))

Retry(m, id) ==
    [MoveTo(m, id, "pending_retry", CursorWithout(m, id)) EXCEPT !.tasks[id].budget = @ - 1]

-----------------------------------------------------------------------------
\* analysis.FeatureLedger: the runtime state of one pattern's features

NoPlan == [on |-> FALSE, ledger |-> <<>>, calls |-> 0, nudged |-> FALSE]
NotStarted == [state |-> "not_started", retries |-> 0]

\* PickNext: the first not_started feature in pattern order; 0 if there is none.
PickNext(l) ==
    LET open == {i \in 1..Len(Features) : l[Features[i]].state = "not_started"}
    IN IF open = {} THEN 0 ELSE CHOOSE i \in open : \A j \in open : i <= j

\* activeFeatureBlock: Activate refuses while a feature is active (WIP=1).
ActivateNext(l) ==
    IF PickNext(l) = 0 \/ \E f \in FeatureIds : l[f].state = "active" THEN l
    ELSE [l EXCEPT ![Features[PickNext(l)]].state = "active"]

NewFeatureLedger == ActivateNext([f \in FeatureIds |-> NotStarted])

\* runVerifyFeature: Pass, Retry and Block require the feature to be active; a
\* failure past the retry budget is escalated to blocked.  The outcome is ""
\* when the call is rejected.
Outcome(l, f, verdict) ==
    IF verdict \notin {"pass", "fail", "blocked"} \/ f \notin FeatureIds \/ l[f].state # "active" THEN ""
    ELSE CASE verdict = "pass" -> "passing"
           [] verdict = "fail" /\ l[f].retries < RetryBudget -> "retry"
           [] OTHER -> "blocked"

\* Mutant: the next feature is activated only after a pass.
VerifyStalls(l, f, verdict) ==
    LET out == Outcome(l, f, verdict)
    IN CASE out = "" -> l
         [] out = "retry" -> [l EXCEPT ![f] = [state |-> "not_started", retries |-> @.retries + 1]]
         [] OTHER -> ActivateNext([l EXCEPT ![f].state = out])

VerifyFeature(l, f, verdict) ==
    LET out == Outcome(l, f, verdict)
    IN CASE out = "" -> l
         [] out = "retry" -> ActivateNext([l EXCEPT ![f] = [state |-> "not_started", retries |-> @.retries + 1]])
         [] OTHER -> ActivateNext([l EXCEPT ![f].state = out])

-----------------------------------------------------------------------------
\* mission_shadow.go: the hooks of the turn

NewMission == [status |-> "active", tasks |-> <<>>, cursor |-> "", root |-> FALSE,
               reach |-> "none", output |-> "", finished |-> FALSE]

\* Store.Save is an upsert of the whole mission (a failed Save is logged and the
\* next one repairs it: failures are left out).
Save(t, m) ==
    /\ mission' = [mission EXCEPT ![t] = m]
    /\ stored' = [stored EXCEPT ![t] = m]

Unsaved(t, m) == mission' = [mission EXCEPT ![t] = m] /\ stored' = stored

Pending(budget) == [status |-> "pending", budget |-> budget]
SeedTasks(m, ids, budget) == [m EXCEPT !.tasks = [i \in ids |-> Pending(budget)]]

\* The second half of recordVerifyFeature: an outcome other than passing and
\* retry, the "" of a rejected call included, blocks the task.
MirrorVerify(m, f, outcome) ==
    CASE outcome = "passing" -> Complete(m, f)
      [] outcome = "retry" -> Retry(m, f)
      [] OTHER -> Block(m, f)

\* recordVerifyFeature: start the task if it is not active, then mirror the
\* outcome; a rejected start changes nothing, a rejected retry keeps the start
\* in memory without saving it.
RecordVerifyFeature(t, f, outcome) ==
    LET m == mission[t]
        active == f \in DOMAIN m.tasks /\ m.tasks[f].status = "active"
        m1 == IF active THEN m ELSE Start(m, f)
    IN IF ~active /\ ~MayStart(m, f) THEN UNCHANGED <<mission, stored>>
       ELSE IF outcome = "retry" /\ m1.tasks[f].budget <= 0 THEN Unsaved(t, m1)
       ELSE Save(t, MirrorVerify(m1, f, outcome))

\* recordReachability: an infeasible question makes the mission unanswerable.
RecordReachability(m, feasible) ==
    [m EXCEPT !.reach = IF feasible THEN "feasible" ELSE "infeasible",
              !.status = IF feasible THEN @ ELSE "unanswerable"]

\* applyTaskReconciliation: the judge's answers overwrite the task states.
ApplyTaskReconciliation(m, results) ==
    LET tasks == [i \in DOMAIN m.tasks |->
                    IF i \notin DOMAIN results THEN m.tasks[i]
                    ELSE [m.tasks[i] EXCEPT !.status = IF results[i] THEN "passing" ELSE "blocked"]]
    IN [m EXCEPT !.tasks = tasks,
                 !.status = IF @ = "unanswerable" THEN @ ELSE DeriveStatus(tasks, m.root)]

\* reconcileMissionTasks: one LLM call about the final answer; without tasks,
\* without an answer or when the call fails nothing is reconciled.
Reconciled(m, answer) ==
    {m} \cup (IF DOMAIN m.tasks = {} \/ answer = "" THEN {}
              ELSE {ApplyTaskReconciliation(m, r) :
                      r \in UNION {[S -> BOOLEAN] : S \in SUBSET DOMAIN m.tasks \ {{}}}})

Finish(m, answer) ==
    [m EXCEPT !.output = answer, !.finished = TRUE,
              !.status = CASE m.status = "unanswerable" -> "unanswerable"
                           [] m.status # "unanswerable" /\ DOMAIN m.tasks # {} ->
                                  DeriveStatus(m.tasks, m.root)
                           [] OTHER -> "complete"]

-----------------------------------------------------------------------------
\* The turn up to its first LLM round

\* Bound: a pattern card is recalled, and the question is a follow-up,
\* only where a single request is sent.
TurnsInit ==
    /\ agent \in AgentKinds
    /\ rows = {}
    /\ \E load \in Lengths : \E follow, card \in SUBSET {t \in Turns : load[t] > 0} :
         /\ Cardinality({t \in Turns : load[t] > 0}) > 1 => card = {} /\ follow = {}
         /\ ctl = [t \in Turns |->
               [idx |-> 0, n |-> 0, round |-> 0, maxRounds |-> load[t], synthFails |-> 0,
                answer |-> "", followUp |-> t \in follow, card |-> t \in card]]
         /\ at = [t \in Turns |-> IF load[t] > 0 THEN "idle" ELSE "unsent"]
    /\ plan = [t \in Turns |-> NoPlan]
    /\ mission = [t \in Turns |-> NewMission]
    /\ stored = [t \in Turns |-> [NewMission EXCEPT !.status = "absent"]]
    /\ seen = [t \in Turns |-> {}]

MaxStepIndex == CHOOSE n \in {r.idx : r \in rows} \cup {0} : \A r \in rows : r.idx <= n

Over == {t \in Turns : at[t] = "done"}

\* An invalid body, a foreign project or a thread that cannot be created ends
\* the request with an error event before anything is written.
RejectTurn(t) ==
    /\ at[t] = "idle"
    /\ at' = [at EXCEPT ![t] = "rejected"]
    /\ UNCHANGED <<agent, rows, ctl, plan, mission, stored, seen>>

\* The mission row is created; an explore thread is handed to runExploreTurn,
\* which has its own loop, and the handler returns.
StartExploreTurn(t) ==
    /\ at[t] = "idle" /\ agent = "explore"
    /\ Save(t, mission[t])
    /\ at' = [at EXCEPT ![t] = "done"]
    /\ UNCHANGED <<agent, rows, ctl, plan, seen>>

\* Mutant: the index of the last row is reused.
NextStepIndexReused == MaxStepIndex

NextStepIndex == MaxStepIndex + 1

\* The history is read and the step index computed; recall follows.
StartTurn(t) ==
    /\ at[t] = "idle" /\ agent # "explore"
    /\ Save(t, mission[t])
    /\ ctl' = [ctl EXCEPT ![t].idx = NextStepIndex]
    /\ seen' = [seen EXCEPT ![t] = Over]
    /\ at' = [at EXCEPT ![t] = "recall"]
    /\ UNCHANGED <<agent, rows, plan>>

\* Tokenizing and recall are over: the user row is stored under the index
\* computed before them.
SaveUserRow(t) ==
    /\ at[t] = "recall"
    /\ rows' = rows \cup {[turn |-> t, n |-> 0, idx |-> ctl[t].idx, role |-> "user"]}
    /\ at' = [at EXCEPT ![t] = IF agent = "lakehouse" THEN "judge" ELSE "loop"]
    /\ UNCHANGED <<agent, ctl, plan, mission, stored, seen>>

\* The rows a round appends: saveRoundStep increments stepIdx and inserts.
Appended(t, k) ==
    {[turn |-> t, n |-> ctl[t].n + i, idx |-> ctl[t].idx + i, role |-> "assistant"] : i \in 1..k}

\* Fail-open: no config, an LLM or parse error, or no requirements.
JudgeFailsOpen(t) ==
    /\ at[t] = "judge"
    /\ at' = [at EXCEPT ![t] = "loop"]
    /\ UNCHANGED <<agent, rows, ctl, plan, mission, stored, seen>>

\* A feasible question; two or more sub-questions become tasks.
JudgeFeasible(t) ==
    /\ at[t] = "judge"
    /\ \E S \in {{}} \cup {Q \in SUBSET SubQuestions : Cardinality(Q) >= 2} :
         LET m == RecordReachability(mission[t], TRUE)
         IN Save(t, IF S = {} THEN m ELSE SeedTasks(m, S, 0))
    /\ at' = [at EXCEPT ![t] = "loop"]
    /\ UNCHANGED <<agent, rows, ctl, plan, seen>>

\* An infeasible follow-up is recorded and the loop runs all the same.
JudgeInfeasibleFollowUp(t) ==
    /\ at[t] = "judge" /\ ctl[t].followUp
    /\ Save(t, RecordReachability(mission[t], FALSE))
    /\ at' = [at EXCEPT ![t] = "loop"]
    /\ UNCHANGED <<agent, rows, ctl, plan, seen>>

\* An infeasible first question: the templated answer is stored as a row of
\* its own, the mission finished and the request ends without a round.
JudgeInfeasible(t) ==
    /\ at[t] = "judge" /\ ~ctl[t].followUp
    /\ rows' = rows \cup Appended(t, 1)
    /\ ctl' = [ctl EXCEPT ![t].answer = "infeasible", ![t].idx = @ + 1, ![t].n = @ + 1]
    /\ Save(t, Finish(RecordReachability(mission[t], FALSE), "infeasible"))
    /\ at' = [at EXCEPT ![t] = "done"]
    /\ UNCHANGED <<agent, plan, seen>>

-----------------------------------------------------------------------------
\* Rounds

\* The mode gate of dispatchTool: the tools a thread of each type may call (with
\* USE_MISSION_ACT, USE_REFLECT and USE_RE_RECALL on).
PlanTools == {"start_analysis_plan", "verify_feature", "complete_analysis"}
Dispatches(tool) ==
    tool \in IF agent = "builder" THEN {"list", "inspect", "propose", "update", "delete"}
             ELSE {"lookup", "smartquery", "re_recall", "declare_capability_gap"} \cup PlanTools

InLoop(t) == at[t] = "loop" /\ ctl[t].round < ctl[t].maxRounds

\* k rows are written in the round.
EndRound(t, k, next) ==
    /\ rows' = rows \cup Appended(t, k)
    /\ at' = [at EXCEPT ![t] = next]

\* The locals after it: content is the text of the round's row.
RoundCtl(t, k, content) ==
    [ctl[t] EXCEPT !.idx = @ + k, !.n = @ + k, !.round = @ + 1,
                   !.answer = IF content = "" THEN @ ELSE content]

\* checkPlanToolBudget, after the result of a tool was handed to the LLM.
CheckPlanToolBudget(p, tool) ==
    CASE ~p.on \/ tool = "complete_analysis" -> p
      [] p.on /\ tool \in {"start_analysis_plan", "verify_feature"} ->
           [p EXCEPT !.calls = 0, !.nudged = FALSE]
      [] OTHER -> [p EXCEPT !.calls = @ + 1, !.nudged = @ \/ p.calls + 1 >= NudgeThreshold]

\* The LLM call fails: an error event, and straight to the deferred functions
\* (the thread ledger is not saved: see ThreadLedger).
LLMError(t) ==
    /\ InLoop(t)
    /\ at' = [at EXCEPT ![t] = "ending"]
    /\ UNCHANGED <<agent, rows, ctl, plan, mission, stored, seen>>

\* No tool call: the streamed text is the answer.
FinalAnswer(t) ==
    /\ InLoop(t)
    /\ EndRound(t, 1, "ending")
    /\ ctl' = [ctl EXCEPT ![t] = RoundCtl(t, 1, "prose")]
    /\ UNCHANGED <<agent, plan, mission, stored, seen>>

\* A tool with no effect on the mission: a lookup, re_recall, a failed
\* smartquery, a builder tool, a tool of the other mode, an unknown name.
PlainToolCall(t) ==
    /\ InLoop(t)
    /\ EndRound(t, 1, "loop")
    /\ ctl' = [ctl EXCEPT ![t] = RoundCtl(t, 1, "")]
    /\ plan' = [plan EXCEPT ![t] = CheckPlanToolBudget(@, "other")]
    /\ UNCHANGED <<agent, mission, stored, seen>>

\* smartquery asks for a missing required parameter: the question ends the turn.
Clarify(t) ==
    /\ InLoop(t) /\ Dispatches("smartquery")
    /\ EndRound(t, 1, "ending")
    /\ ctl' = [ctl EXCEPT ![t] = RoundCtl(t, 1, "clarify")]
    /\ UNCHANGED <<agent, plan, mission, stored, seen>>

\* The rows a successful smartquery writes: outside plan mode a non-empty result
\* goes through synthesize and, when required dimensions are missing, reflect,
\* and each stores a row of its own.
RowsOfQuery(t) == IF plan[t].on THEN {1} ELSE {1, 2, 3}

\* formatSynthMessage: a failed self-check is fed back SynthMaxFails times.
SynthFails(n, failed) == IF failed /\ n < SynthMaxFails THEN n + 1 ELSE n

\* A successful smartquery (its result table, kept by recordStep, is left out).
SmartQuery(t) ==
    /\ InLoop(t) /\ Dispatches("smartquery")
    /\ \E k \in RowsOfQuery(t), passed \in BOOLEAN :
         /\ EndRound(t, k, "loop")
         /\ ctl' = [ctl EXCEPT ![t] =
               [RoundCtl(t, k, "") EXCEPT !.synthFails = SynthFails(@, k > 1 /\ ~passed)]]
    /\ plan' = [plan EXCEPT ![t] = CheckPlanToolBudget(@, "smartquery")]
    /\ UNCHANGED <<agent, mission, stored, seen>>

\* start_analysis_plan: a fresh ledger replaces the plan in progress, and fresh
\* tasks the mission's; without a pattern card in the recall it is refused.
StartAnalysisPlan(t) ==
    /\ InLoop(t) /\ Dispatches("start_analysis_plan")
    /\ EndRound(t, 1, "loop")
    /\ ctl' = [ctl EXCEPT ![t] = RoundCtl(t, 1, "")]
    /\ IF ctl[t].card
       THEN /\ plan' = [plan EXCEPT ![t] = [NoPlan EXCEPT !.on = TRUE, !.ledger = NewFeatureLedger]]
            /\ Save(t, SeedTasks(mission[t], FeatureIds, RetryBudget))
       ELSE /\ plan' = [plan EXCEPT ![t] = CheckPlanToolBudget(@, "start_analysis_plan")]
            /\ UNCHANGED <<mission, stored>>
    /\ UNCHANGED <<agent, seen>>

\* verify_feature with any feature and verdict the LLM may write.
VerifyFeatureCall(t, f, verdict) ==
    /\ InLoop(t) /\ Dispatches("verify_feature")
    /\ LET l == plan[t].ledger
           outcome == IF plan[t].on THEN Outcome(l, f, verdict) ELSE ""
       IN /\ plan' = [plan EXCEPT ![t] =
                CheckPlanToolBudget(IF plan[t].on
                                    THEN [@ EXCEPT !.ledger = VerifyFeature(l, f, verdict)]
                                    ELSE @, "verify_feature")]
          /\ RecordVerifyFeature(t, f, outcome)
    /\ EndRound(t, 1, "loop")
    /\ ctl' = [ctl EXCEPT ![t] = RoundCtl(t, 1, "")]
    /\ UNCHANGED <<agent, seen>>

\* complete_analysis renders whatever the ledger holds and ends the turn; the
\* mission's status is derived afresh.
CompleteAnalysis(t) ==
    /\ InLoop(t) /\ plan[t].on
    /\ EndRound(t, 1, "ending")
    /\ ctl' = [ctl EXCEPT ![t] = RoundCtl(t, 1, "synthesis")]
    /\ LET m == mission[t]
       IN Save(t, [m EXCEPT !.output = "synthesis", !.status = DeriveStatus(m.tasks, m.root)])
    /\ UNCHANGED <<agent, plan, seen>>

\* An accepted declare_capability_gap blocks the root and ends the turn (a
\* rejected one is a plain tool call).
DeclareCapabilityGap(t) ==
    /\ InLoop(t) /\ Dispatches("declare_capability_gap")
    /\ EndRound(t, 1, "ending")
    /\ ctl' = [ctl EXCEPT ![t] = RoundCtl(t, 1, "gap")]
    /\ Save(t, [mission[t] EXCEPT !.root = TRUE, !.status = "unanswerable"])
    /\ UNCHANGED <<agent, plan, seen>>

\* Mutant: the deferred closure does not pass the answer on.
TurnEndForgets(t) ==
    /\ at[t] = "ending"
    /\ \E m \in Reconciled(mission[t], ctl[t].answer) : Save(t, Finish(m, ""))
    /\ at' = [at EXCEPT ![t] = "done"]
    /\ UNCHANGED <<agent, rows, ctl, plan, seen>>

\* Mutant: the closure waits for an answer to reconcile with.
TurnEndAnswered(t) ==
    /\ at[t] = "ending" /\ ctl[t].answer # ""
    /\ \E m \in Reconciled(mission[t], ctl[t].answer) : Save(t, Finish(m, ctl[t].answer))
    /\ at' = [at EXCEPT ![t] = "done"]
    /\ UNCHANGED <<agent, rows, ctl, plan, seen>>

\* maxRounds rounds without an answer: the loop is left and "done" is sent.
RoundsExhausted(t) ==
    /\ at[t] = "loop" /\ ctl[t].round = ctl[t].maxRounds
    /\ at' = [at EXCEPT ![t] = "ending"]
    /\ UNCHANGED <<agent, rows, ctl, plan, mission, stored, seen>>

\* The deferred closure: reconcile the tasks with the answer, then finish.
TurnEnd(t) ==
    /\ at[t] = "ending"
    /\ \E m \in Reconciled(mission[t], ctl[t].answer) : Save(t, Finish(m, ctl[t].answer))
    /\ at' = [at EXCEPT ![t] = "done"]
    /\ UNCHANGED <<agent, rows, ctl, plan, seen>>

Verdicts == {"pass", "fail", "blocked", "other"}

HandlerStep(t) ==
    \/ StartExploreTurn(t) \/ StartTurn(t) \/ SaveUserRow(t)
    \/ JudgeFailsOpen(t) \/ JudgeFeasible(t) \/ JudgeInfeasibleFollowUp(t) \/ JudgeInfeasible(t)
    \/ LLMError(t) \/ FinalAnswer(t) \/ PlainToolCall(t) \/ Clarify(t) \/ SmartQuery(t)
    \/ StartAnalysisPlan(t) \/ CompleteAnalysis(t) \/ DeclareCapabilityGap(t)
    \/ \E f \in FeatureIds \cup SubQuestions, v \in Verdicts : VerifyFeatureCall(t, f, v)
    \/ RoundsExhausted(t) \/ TurnEnd(t)

AllOver == (\A t \in Turns : at[t] \in {"unsent", "done", "rejected"}) /\ UNCHANGED turnVars

TurnsNext == (\E t \in Turns : RejectTurn(t) \/ HandlerStep(t)) \/ AllOver

TurnsSpec == TurnsInit /\ [][TurnsNext]_turnVars

\* A request keeps running whatever its client does: every LLM call has a
\* timeout, every statement returns.
TurnsFairness == \A t \in Turns : WF_turnVars(HandlerStep(t))
TurnsFairSpec == TurnsSpec /\ TurnsFairness

-----------------------------------------------------------------------------
\* Properties

TaskStates == {"pending", "active", "passing", "pending_retry", "blocked"}
Answers == {"", "infeasible", "prose", "clarify", "synthesis", "gap"}

TurnTypes ==
    /\ agent \in AgentKinds
    /\ \A r \in rows : r.turn \in Turns /\ r.n \in Nat /\ r.idx \in Nat /\ r.role \in {"user", "assistant"}
    /\ at \in [Turns -> {"unsent", "idle", "rejected", "recall", "judge", "loop", "ending", "done"}]
    /\ \A t \in Turns :
         /\ ctl[t].round \in 0..ctl[t].maxRounds /\ ctl[t].synthFails \in 0..SynthMaxFails
         /\ ctl[t].answer \in Answers
         /\ DOMAIN mission[t].tasks \subseteq FeatureIds \cup SubQuestions
         /\ \A i \in DOMAIN mission[t].tasks :
              mission[t].tasks[i] \in [status : TaskStates, budget : 0..RetryBudget]
         /\ mission[t].status \in {"active", "complete", "partial", "unanswerable"}

\* WIP=1, and a plan never stalls: whatever the LLM reports, and with a plan
\* restarted in the middle, exactly one feature is active while one is open, so
\* verify_feature always has a feature it accepts and never two.
PlanHasOneActive ==
    \A t \in Turns : plan[t].on /\ (\E f \in FeatureIds : ~IsTerminal(plan[t].ledger[f].state))
        => Cardinality({f \in FeatureIds : plan[t].ledger[f].state = "active"}) = 1

\* Until the reconciliation, the mission never claims more than the ledger: a
\* feature's task is passing only if verify_feature passed the feature.
AnsweredMeansVerified ==
    \A t \in Turns : at[t] \in {"loop", "ending"} =>
        \A f \in FeatureIds \cap DOMAIN mission[t].tasks :
            mission[t].tasks[f].status = "passing" =>
                plan[t].on /\ plan[t].ledger[f].state = "passing"

\* The two retry budgets are kept separately (RetryCount of the ledger,
\* RetryBudget of the task) and agree for every task still open.
RetryBudgetsAgree ==
    \A t \in Turns : plan[t].on => \A f \in FeatureIds :
        /\ plan[t].ledger[f].retries <= RetryBudget
        /\ f \in DOMAIN mission[t].tasks /\ ~IsTerminal(mission[t].tasks[f].status) =>
               mission[t].tasks[f].budget + plan[t].ledger[f].retries = RetryBudget

\* An accepted capability gap is final: no later step of the turn, the
\* reconciliation and the final save included, relabels the mission.
GapIsFinal ==
    \A t \in Turns : mission[t].root => mission[t].status = "unanswerable"

\* The LLM is told once per feature attempt, at the threshold, to verify.
NudgedAtThreshold ==
    \A t \in Turns : plan[t].nudged <=> plan[t].on /\ plan[t].calls >= NudgeThreshold

\* The plan the LLM works through, the mission that mirrors it and their two
\* budgets stay consistent, whatever tools the LLM calls in whatever order.
MissionIsConsistent ==
    TurnTypes /\ PlanHasOneActive /\ AnsweredMeansVerified /\ RetryBudgetsAgree
           /\ GapIsFinal /\ NudgedAtThreshold

\* What the user was answered is what the mission's synthesis keeps, on every
\* way out of the loop, and the row holds all that the turn did to the mission,
\* the steps that were not saved when they were taken included.
AnswerIsKept ==
    \A t \in Turns : at[t] = "done" /\ agent # "explore" =>
        /\ mission[t].finished /\ mission[t].output = ctl[t].answer
        /\ stored[t] = mission[t]

\* The conversation replays in order: a turn that began when another was over
\* sorts after all of its rows, and the rows of one turn keep their order.
HistoryKeepsOrder ==
    \A r, s \in rows :
        /\ r.turn = s.turn /\ r.n < s.n => r.idx < s.idx
        /\ r.turn \in seen[s.turn] => r.idx < s.idx

\* A turn that began ends: rounds are bounded and every way out reaches the
\* deferred functions.
HandlerReturns == \A t \in Turns : at[t] \in {"recall", "judge", "loop", "ending"} ~> at[t] = "done"
=============================================================================
