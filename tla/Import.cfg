SPECIFICATION Spec
CONSTANTS
  a = a
  a2 = a2
  png = png
  latin = latin
  void = void
  Absent = Absent
  Paths = {1, 2, 3, 4, 5}
  Contents = {a, a2, png, latin, void}
  Foreign = {latin}
  Nul = {png}
  Vacant = {void}
  Garbled <- MCGarbled
  Links <- MCLinks
  Raw = {5}
  Unfit <- MCUnfit
  Kin <- MCKin
  Base <- MCBase
  PatchBytes <- MCPatchBytes
  MaxBytes = 4
  MaxRuns = 2
  MaxRestages = 1
  MaxFaults = 1
  Blank = Blank
  Lines = {Blank, x}
  MaxLines = 3
  Contexts = {0, 1, 3}
  NotYet = NotYet
  Refused = Refused
CHECK_DEADLOCK FALSE
INVARIANTS
  ImportTypeOK
  StagedIsWhatArrives
  ChunksAreFewAndInOrder
  PatchRebuildsTheNote
