SPECIFICATION Spec
CONSTANTS
  j1 = j1
  j2 = j2
  j3 = j3
  d = d
  s1 = s1
  Jobs = {j1, j2, j3}
  Procs = {d, s1}
  Daemon = d
  Workers = {local}
  NoWorker = NoWorker
  NoJob = NoJob
  MaxRuns = 3
  MaxTokens = 2
  Lease = 1
  Permits = 2
  MaxStops = 0
  MaxCrashes = 1
  RetryMax <- Retry0
  MaxConc <- Conc1
  Conf <- Added
  Deps <- NoDeps
INVARIANTS ClaimsExclude Stoppable LocalInv
PROPERTY TerminalStays
CHECK_DEADLOCK FALSE
