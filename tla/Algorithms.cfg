INIT Init
NEXT Next
CONSTANT Null = Null
CHECK_DEADLOCK FALSE
PROPERTIES
    
    JoinPathIsUnique
    AskedIsKept
    DryRunIsSound
    
    ArrivalIsIrrelevant
    RecallIsWhole
    JudgeIsCoherent
    AnswerExists
    ReflectSettles
    
