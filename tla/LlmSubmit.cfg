\* Two submissions and two synchronous calls of one request and of another under the
\* same key, a retry, cleanups, a record that cannot be written, and a crash or a stop.
SPECIFICATION Spec
CONSTANTS
  k = k  f = f  g = g  x = x  y = y  z = z
  Contracts = {x, y, z}
  KeyOf <- OneKey
  FingerprintOf <- Fingerprints
  ContractOf <- Wanted
  c1 = c1  c2 = c2  s1 = s1  s2 = s2
  Clients = {c1, c2}
  Calls = {s1, s2}
  Writers = {w1}
  Stopper = stopper
  Nobody = nobody
  QueueSize = 1
  BatchSize = 2
  ClaimsDuringScan = FALSE
  MaxRetries = 1
  MaxStops = 1
  MaxFaults = 1
INVARIANTS TypeOK OneLiveTask RequestKept Accounted
CHECK_DEADLOCK FALSE
