SPECIFICATION MCSpec
CONSTANTS
  a = a
  b = b
  c = c
  hb = hb
  s1 = s1
  s2 = s2
  s3 = s3
  Null = Null
  Steps = {s1, s2, s3}
  Values = {"v1"}
  Plans <- MCPlans
  Importers = {a, b, c}
  Project <- TwoProjects
  Hash <- OneKey
  Others = {hb}
  PoolSize = 4
  Cancellable = {a}
  Mortal = {c}
  MaxStatements = 2
  Phases <- MCPhases
  FullPct = 2
  MaxUpdates = 3
CHECK_DEADLOCK FALSE
INVARIANTS RowIsWhole MutualExclusion PoolIsKept PlanOutcome
PROPERTIES EveryCallReturns
