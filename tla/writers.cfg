SPECIFICATION MCSpec
CONSTANTS
  Jobs = {j1}
  Workers = {w1, w2}
  NoWorker = NoWorker
  NoJob = NoJob
  MaxRuns = 2
  MaxTokens = 2
  Lease = 2
  Safety = 1
  StopMax = 0
  RpcMax = 0
  Grace = 0
  MaxReports = 2
  MaxConc = 1
  MaxOps = 0
  MaxFaults = 1
  MaxSched = 1
  RetryMax <- AllRetry1
  OnLost <- AllOnLostRetry
  Deps <- NoDeps
SYMMETRY Symmetry
INVARIANTS TypeOK WriterOwnsRun SingleWriter
PROPERTIES LeaseRefinement TerminalIsFinal
