SPECIFICATION FairSpec
CONSTANTS
  j1 = j1
  j2 = j2
  j3 = j3
  d = d
  s1 = s1
  Jobs = {j1, j2, j3}
  Procs = {d}
  Daemon = d
  Workers = {local}
  NoWorker = NoWorker
  NoJob = NoJob
  MaxRuns = 3
  MaxTokens = 6
  Lease = 1
  Permits = 1
  MaxStops = 1
  MaxCrashes = 0
  RetryMax <- Retry1
  MaxConc <- Conc1
  Conf <- Disabled
  Deps <- Chain
PROPERTIES EveryRunEnds StopTakesEffect
CHECK_DEADLOCK FALSE
