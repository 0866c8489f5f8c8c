CONSTANTS
  a = a
  b = b
  app = app
  keys = keys
  v1 = v1
  v2 = v2
  Files = {a, b}
  Markdown = {a}
  Settings = {app, keys}
  Contents = {v1, v2}
  Absent = Absent
  FirstVault <- BothThere
  SeededWith <- Defaults
  Remotes = {"origin", "nas"}
  MergedPaths = {a}
  Num = 1
  Den = 3
  MaxEvents = 3
SPECIFICATION FairSpec
INVARIANTS
  TypeOK
  OneLineage
  BaselineIsKept
  NoCommitIsALoss
  SuccessMeansRecorded
PROPERTIES
  UnpushedIsKept
  EditsReachOrigin
