SPECIFICATION ConsoleFair
CONSTANTS
  j1 = j1
  j2 = j2
  main = main
  wconf = wconf
  Jobs = {j1, j2}
  Order <- Listed
  Files = {main, wconf}
  WorkerFile = wconf
  FileOf <- OneFile
  Resembles = {}
  Hits = {j1}
  Workers = {"w1"}
  NoJob = NoJob
  NoFile = NoFile
  Absent = Absent
  InitDisk <- OneJob
  Editable = {"retry", "options"}
  Typed <- Said
  OptionSet <- Offered
  Env <- OneVariable
  FormDocs <- Forms
  FileDocs <- Mistake
  Uses = {"commands", "forms", "files"}
  MaxActs = 1
  MaxEdits = 1
  MaxOutside = 0
INVARIANT UnsavedIsDirty
PROPERTIES SelectionSticks DetailArrives
CHECK_DEADLOCK FALSE
