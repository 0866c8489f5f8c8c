CONSTANTS
  a = a
  b = b
  app = app
  keys = keys
  v1 = v1
  v2 = v2
  Files = {a, b}
  Markdown = {a}
  Settings = {app, keys}
  Contents = {v1, v2}
  Absent = Absent
  FirstVault <- BothThere
  SeededWith <- Defaults
  Remotes = {"origin"}
  MergedPaths = {a}
  Num = 1
  Den = 3
  MaxEvents = 1
SPECIFICATION FairSpec
PROPERTIES
  NextRunStages
