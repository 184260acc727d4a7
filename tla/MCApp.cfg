CONSTANTS
  NoConf = NoConf
  Configs <- MCConfigs
  CutPoints = {8}
  MaxRuns = 2
  MaxStops = 1
  Platforms = {"desktop", "mobile", "cli"}
SPECIFICATION FairSpec
INVARIANT PortsExact
INVARIANT TornNeverOpens
INVARIANT AnsweredByLatest
INVARIANT StoppedForCause
PROPERTY StopReaches
CHECK_DEADLOCK FALSE
