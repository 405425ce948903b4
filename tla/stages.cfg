SPECIFICATION RunSpec
CONSTANTS
  Components = {"git", "a", "pub"}
  Holders = {"a", "s", "roll"}
  Runs = {"a", "s"}
  Boxed = {"a"}
  Path <- TreePath
  Kind <- KindOf
  Backend = "zfs"
  Policy <- TreePolicy
  OnFail <- TreeFail
  Retention <- KeepOne
  MaxDelete = 0
  Timed = TRUE
  MaxFiles = 1
  MaxTime = 2
  MaxSuffix = 0
  DayLength = 1
  WeekLength = 2
INVARIANTS StageInv OverlapsExclude
PROPERTIES SnapshotsAreClean RetentionKeeps KeepsLocks
CHECK_DEADLOCK FALSE
