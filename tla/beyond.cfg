SPECIFICATION MCSpecBeyond
CONSTANTS
  Jobs = {j1, j2}
  Workers = {w1}
  NoWorker = NoWorker
  NoJob = NoJob
  MaxRuns = 3
  MaxTokens = 3
  Lease = 2
  Safety = 1
  StopMax = 0
  RpcMax = 0
  Grace = 0
  MaxReports = 2
  MaxConc = 1
  MaxOps = 2
  MaxFaults = 0
  MaxSched = 2
  RetryMax <- AllRetry0
  OnLost <- FirstOnLostRetry
  Deps <- Chained
INVARIANTS AbsentJobHasNoRuns OneActivePerJob
