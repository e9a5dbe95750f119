\* Two runs of one KB, a resume, cancellations, a crash or shutdown and a faulty
\* statement; heartbeats get through.
SPECIFICATION Spec
CONSTANTS
  r1 = r1  r2 = r2  k1 = k1  k2 = k2
  Dispatcher = Dispatcher
  Resumer = Resumer
  NoRun = NoRun
  Nobody = Nobody
  Dead = Dead
  Runs <- TwoRuns
  KbOf <- OneKb
  Rank <- TwoRanks
  Cancellers = {r1, r2}
  LeasesLapse = FALSE
  ClaimsInterleave = FALSE
  MaxStops = 1
  MaxResumes = 1
  MaxUpsets = 2
  FaultySteps = {"pick", "release", "record"}
  MaxFaults = 1
INVARIANTS TypeOK SoleExecutor PublishingIsNotCancelled
PROPERTIES OwnerCompletes SettledIsFinal
CHECK_DEADLOCK FALSE
