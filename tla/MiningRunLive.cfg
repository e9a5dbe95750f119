\* Two runs of one KB and a resume or a crash or shutdown, under the fairness of the
\* threads and of the restart; claims fall anywhere and a claim may raise.
SPECIFICATION FairSpec
CONSTANTS
  r1 = r1  r2 = r2  k1 = k1  k2 = k2
  Dispatcher = Dispatcher
  Resumer = Resumer
  NoRun = NoRun
  Nobody = Nobody
  Dead = Dead
  Runs <- TwoRuns
  KbOf <- OneKb
  Rank <- TwoRanks
  Cancellers = {}
  LeasesLapse = FALSE
  ClaimsInterleave = TRUE
  MaxStops = 1
  MaxResumes = 1
  MaxUpsets = 1
  FaultySteps = {"claim"}
  MaxFaults = 1
INVARIANTS NoStrandedRun
PROPERTIES EveryRunSettles BegunRunSettles
CHECK_DEADLOCK FALSE
