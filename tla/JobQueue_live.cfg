SPECIFICATION FairSpec
CONSTANTS
  p1 = p1
  p2 = p2
  w1 = w1
  w2 = w2
  MaxJobs = 2
  Procs = {p1}
  Workers = {w1}
  ProcOf <- OneWorker
  Kinds = {"file_upload", "postgres_sync"}
  Registered = {"file_upload"}
  BeatsMayStall = TRUE
  MaxHalts = 1
CHECK_DEADLOCK FALSE
PROPERTIES EveryJobEnds
