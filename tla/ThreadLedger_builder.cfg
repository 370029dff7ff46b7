SPECIFICATION Spec
CONSTANTS
    t1 = t1  t2 = t2  t3 = t3  q1 = q1  q2 = q2  o1 = o1  o2 = o2  f1 = f1
    Turns = {t1, t2}
    Legacy = {}
    Ods = {o1, o2}
    Facts = {f1}
    RecallOds <- MCRecallOds
    RecallFacts <- MCRecallFacts
    MaxRetries = 2
    Agents = {"builder"}
    Schemas = {"current"}
    DbMayFail = FALSE
    LLMMayFail = FALSE
PROPERTY
    BuilderForgetsNothing
