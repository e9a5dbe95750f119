\* A worker claims a task between two reads of the search for its key.
SPECIFICATION Spec
CONSTANTS
  k = k  f = f  g = g  x = x  y = y  z = z
  Contracts = {x, y, z}
  KeyOf <- OneKey
  FingerprintOf <- Fingerprints
  ContractOf <- Wanted
  c1 = c1  c2 = c2  s1 = s1  s2 = s2
  Clients = {c1, c2}
  Calls = {s1, s2}
  Writers = {w1}
  Stopper = stopper
  Nobody = nobody
  QueueSize = 1
  BatchSize = 2
  ClaimsDuringScan = TRUE
  MaxRetries = 0
  MaxStops = 0
  MaxFaults = 0
INVARIANTS OneLiveTask
CHECK_DEADLOCK FALSE
