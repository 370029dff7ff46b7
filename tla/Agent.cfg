SPECIFICATION MCSpec
CONSTANTS
    t1 = t1  t2 = t2  t3 = t3  q1 = q1  q2 = q2  o1 = o1  o2 = o2  f1 = f1
    g1 = g1  g2 = g2
    Turns = {t1, t2}
    Legacy = {q1, q2}
    Ods = {o1, o2}
    Facts = {f1}
    RecallOds <- MCRecallOds
    RecallFacts <- MCRecallFacts
    MaxRetries = 1
    Agents = {"lakehouse", "builder"}
    Schemas = {"current", "old"}
    Features <- MCFeatures
    SubQuestions = {q1, q2}
    AgentKinds = {"lakehouse", "builder", "explore"}
    Lengths <- MCLengths
    RetryBudget = 2
    NudgeThreshold = 2
    SynthMaxFails = 1
    DbMayFail = TRUE
    LLMMayFail = TRUE
INVARIANTS
    SavedTurnsKeepTheirOds
    
    
    AnswerIsKept
    HistoryKeepsOrder
PROPERTIES
    NothingForgotten
    EveryTurnEnds
