SPECIFICATION ProvFair
CONSTANTS
  MaxGen = 2
  PayloadOf <- TwoPayload
  MetaOf <- TwoMeta
  Threads = 2
  Delete = TRUE
  MaxFaults = 3
  Kinds = {"http", "rsync", "script", "two_stage", "git", "docker"}
  MaxAttempts = 3
  PartialIsOk = TRUE
INVARIANTS ProvInv ManifestComplete
PROPERTIES NothingIsLost SuccessIsExact CancelReturns Converges
CHECK_DEADLOCK FALSE
