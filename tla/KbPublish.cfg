\* Three runs of one knowledge base: an edit, a failure, two crashes, two resumes and
\* two deletions of a document that may meet.
SPECIFICATION Spec
CONSTANTS
  k1 = k1  k2 = k2  d1 = d1  d2 = d2  s1 = s1  s2 = s2  p1 = p1  p2 = p2
  Kbs = {k1}
  Docs = {d1, d2}
  Snaps = {s1, s2}
  KbOf <- Together
  Content <- Files
  Runs <- ThreeRuns
  RunKb <- SameKb
  Forced = {3}
  Uploads = {}
  Purgeable = {}
  Removable = {d2}
  Deletions = {p1, p2}
  DelKb <- TwoDeletions
  Collecting = FALSE
  PurgeInterleaves = FALSE
  StaleResumes = FALSE
  MaxFaults = 1
  MaxCrashes = 2
  MaxResumes = 2
  NoSnap = NoSnap  Gone = Gone  NoRun = NoRun
SYMMETRY Alike
INVARIANTS ServingHasAssets BuildIsRecorded
PROPERTIES CompletedIsServed SkipKeepsServing
CHECK_DEADLOCK FALSE
