\* Attempts may outlive their lease and any statement may raise.
SPECIFICATION Spec
CONSTANTS
  t1 = t1  t2 = t2  w1 = w1  w2 = w2
  NoTask = NoTask
  Recovery = Recovery
  Tasks <- OneTask
  ChatTasks = {t1}
  Workers = {w1, w2}
  Clients = {c1}
  Rank <- OneRank
  MaxAttempts = 2
  LeaseOutlivesAttempt = FALSE
  FaultySteps = {"idle", "claimed", "read_no", "insert", "mark", "store", "complete", "mark_bad", "mark_exc", "fail_read", "fail_write", "emit", "start", "stop"}
  MaxFaults = 1
  MaxStops = 1
  MaxRetries = 0
SYMMETRY WorkersAlike
INVARIANTS TypeOK BudgetLeft SucceededHasResult OneOwnerPerAttempt
CHECK_DEADLOCK FALSE
