\* One worker, no failure but the provider's own, one retry of a settled task.
SPECIFICATION Spec
CONSTANTS
  t1 = t1  t2 = t2  w1 = w1  w2 = w2
  NoTask = NoTask
  Recovery = Recovery
  Tasks <- OneTask
  ChatTasks = {t1}
  Workers = {w1}
  Clients = {c1}
  Rank <- OneRank
  MaxAttempts = 2
  LeaseOutlivesAttempt = TRUE
  FaultySteps = {}
  MaxFaults = 0
  MaxStops = 0
  MaxRetries = 1
INVARIANT AttemptNumberFree
CHECK_DEADLOCK FALSE
