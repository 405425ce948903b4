SPECIFICATION ConsoleSpec
CONSTANTS
  j1 = j1
  j2 = j2
  main = main
  wconf = wconf
  Jobs = {j1, j2}
  Order <- Listed
  Files = {main, wconf}
  WorkerFile = wconf
  FileOf <- OneFile
  Resembles = {}
  Hits = {j2}
  Workers = {"w1"}
  NoJob = NoJob
  NoFile = NoFile
  Absent = Absent
  InitDisk <- OneJob
  Editable = {"retry", "upstream", "options"}
  Typed <- Said
  OptionSet <- Offered
  Env <- OneVariable
  FormDocs <- Forms
  FileDocs <- Elsewhere
  Uses = {"editor"}
  MaxActs = 1
  MaxEdits = 1
  MaxOutside = 1
INVARIANT EditorInv
PROPERTIES EditsStay SaveKeepsBase EditorNeverBreaks
CHECK_DEADLOCK FALSE
