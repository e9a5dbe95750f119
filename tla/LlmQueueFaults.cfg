\* Leases outlive attempts; one retry, one crash or shutdown, and two statements may
\* raise, but not the event that follows a committed complete or fail.
SPECIFICATION FairSpec
CONSTANTS
  t1 = t1  t2 = t2  w1 = w1  w2 = w2
  NoTask = NoTask
  Recovery = Recovery
  Tasks <- OneTask
  ChatTasks = {t1}
  Workers = {w1, w2}
  Clients = {c1}
  Rank <- OneRank
  MaxAttempts = 2
  LeaseOutlivesAttempt = TRUE
  FaultySteps = {"idle", "claimed", "read_no", "insert", "mark", "store", "complete", "mark_bad", "mark_exc", "fail_read", "fail_write", "start", "stop"}
  MaxFaults = 2
  MaxStops = 1
  MaxRetries = 1
INVARIANTS ExclusiveExecution CallBudget LatestResultUsable OneSlotPerAttempt NoOpenAttempt
PROPERTIES ImplementsLifecycle EveryTaskSettles
CHECK_DEADLOCK FALSE
