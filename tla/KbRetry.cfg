\* A run whose document was rejected is resumed.
SPECIFICATION Spec
CONSTANTS
  k1 = k1  k2 = k2  d1 = d1  d2 = d2  s1 = s1  s2 = s2  p1 = p1  p2 = p2
  Kbs = {k1, k2}
  Docs = {d1, d2}
  Snaps = {s1, s2}
  KbOf <- Apart
  Content <- Files
  Runs <- TwoRuns
  RunKb <- Neighbours
  Forced = {}
  Uploads = {}
  Purgeable = {}
  Removable = {}
  Deletions = {p1}
  DelKb <- OneDeletion
  Collecting = FALSE
  PurgeInterleaves = FALSE
  StaleResumes = FALSE
  MaxFaults = 1
  MaxCrashes = 0
  MaxResumes = 1
  NoSnap = NoSnap  Gone = Gone  NoRun = NoRun
INVARIANTS RetryRestages
CHECK_DEADLOCK FALSE
