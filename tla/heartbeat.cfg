SPECIFICATION MCFairSpec
CONSTANTS
  Jobs = {j1}
  Workers = {w1}
  NoWorker = NoWorker
  NoJob = NoJob
  MaxRuns = 1
  MaxTokens = 1
  Lease = 3
  Safety = 1
  StopMax = 0
  RpcMax = 0
  Grace = 1
  MaxReports = 2
  MaxConc = 1
  MaxOps = 0
  MaxFaults = 1
  MaxSched = 1
  RetryMax <- AllRetry0
  OnLost <- AllOnLostRetry
  Deps <- NoDeps
PROPERTY HeartbeatSpares
