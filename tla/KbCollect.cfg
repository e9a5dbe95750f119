\* Two knowledge bases that share a snapshot: an upload, the deletion of one KB, a
\* failure, a crash, and the collection of superseded snapshots.
SPECIFICATION FairSpec
CONSTANTS
  k1 = k1  k2 = k2  d1 = d1  d2 = d2  s1 = s1  s2 = s2  p1 = p1  p2 = p2
  Kbs = {k1, k2}
  Docs = {d1, d2}
  Snaps = {s1, s2}
  KbOf <- Apart
  Content <- Files
  Runs <- TwoRuns
  RunKb <- Neighbours
  Forced = {}
  Uploads = {d2}
  Purgeable = {k1}
  Removable = {}
  Deletions = {p1}
  DelKb <- OneDeletion
  Collecting = TRUE
  PurgeInterleaves = FALSE
  StaleResumes = FALSE
  MaxFaults = 1
  MaxCrashes = 1
  MaxResumes = 0
  NoSnap = NoSnap  Gone = Gone  NoRun = NoRun
INVARIANTS TypeOK
PROPERTIES PurgeSettles OrphansReclaimed ImplementsServing
CHECK_DEADLOCK FALSE
