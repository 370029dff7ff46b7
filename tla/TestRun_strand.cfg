SPECIFICATION FairSpec
CONSTANTS
  r1 = r1
  c1 = c1
  c2 = c2
  c3 = c3
  p1 = p1
  p2 = p2
  q1 = q1
  q2 = q2
  Runs = {r1}
  Cases = {c1, c2}
  RunOf <- AllOfR1
  Replicas = {p1}
  Requests = {q1, q2}
  Concurrency = 2
  GlobalSlots = 1
  Worlds <- Undisturbed
CHECK_DEADLOCK FALSE
PROPERTIES QueuedRunEnds
