SPECIFICATION FairSpec
CONSTANTS
  a = a
  b = b
  c = c
  hb = hb
  Importers = {a, b, c}
  Project <- TwoProjects
  Hash <- OwnKeys
  Others = {hb}
  PoolSize = 2
  Cancellable = {a}
  Mortal = {}
  MaxStatements = 2
CHECK_DEADLOCK FALSE
PROPERTIES ProjectsNeverBlockEachOther
