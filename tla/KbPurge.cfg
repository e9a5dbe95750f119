\* The listing of orphaned snapshots and their deletion are the two transactions
\* they are, and the neighbour mines in between.
SPECIFICATION Spec
CONSTANTS
  k1 = k1  k2 = k2  d1 = d1  d2 = d2  s1 = s1  s2 = s2  p1 = p1  p2 = p2
  Kbs = {k1, k2}
  Docs = {d1, d2}
  Snaps = {s1, s2}
  KbOf <- Apart
  Content <- Files
  Runs <- TwoRuns
  RunKb <- Neighbours
  Forced = {}
  Uploads = {}
  Purgeable = {k1}
  Removable = {}
  Deletions = {p1}
  DelKb <- OneDeletion
  Collecting = FALSE
  PurgeInterleaves = TRUE
  StaleResumes = FALSE
  MaxFaults = 0
  MaxCrashes = 0
  MaxResumes = 0
  NoSnap = NoSnap  Gone = Gone  NoRun = NoRun
INVARIANTS ServingHasAssets
CHECK_DEADLOCK FALSE
