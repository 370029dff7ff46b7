SPECIFICATION Spec
CONSTANTS
  p1 = p1
  p2 = p2
  w1 = w1
  w2 = w2
  MaxJobs = 2
  Procs = {p1, p2}
  Workers = {w1, w2}
  ProcOf <- TwoProcs
  Kinds = {"file_upload"}
  Registered = {"file_upload"}
  BeatsMayStall = FALSE
  MaxHalts = 1
SYMMETRY Swap
CHECK_DEADLOCK FALSE
INVARIANTS TypeOK AtMostOneExecution LostMeansAbandoned
PROPERTIES RefinesLifecycle
