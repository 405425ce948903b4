SPECIFICATION MCFairSpec
CONSTANTS
  Jobs = {j1}
  Workers = {w1}
  NoWorker = NoWorker
  NoJob = NoJob
  MaxRuns = 1
  MaxTokens = 2
  Lease = 3
  Safety = 1
  StopMax = 1
  RpcMax = 1
  Grace = 0
  MaxReports = 2
  MaxConc = 2
  MaxOps = 1
  MaxFaults = 1
  MaxSched = 1
  RetryMax <- AllRetry1
  OnLost <- AllOnLostRetry
  Deps <- NoDeps
INVARIANT LeaseInv
PROPERTIES AbandonedIsReleased StopTakesEffect QueueLeavesDeadWorker
