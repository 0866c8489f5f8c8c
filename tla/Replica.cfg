CONSTANTS
  a = a
  b = b
  u1 = u1
  u2 = u2
  h1 = h1
  img = img
  Paths = {a, b}
  Notes = {u1, u2, h1}
  Binaries = {img}
  Absent = Absent
  Nothing = Nothing
  Authored = {u2, Absent}
  Typed = {h1, img, Absent}
  Seeds <- NoteAndPicture
  EditsMidCycle = FALSE
  MaxCommits = 3
  MaxTyped = 2
  MaxFaults = 1
  MaxLosses = 1
SPECIFICATION FairSpec
INVARIANTS
  TypeOK
  NothingTypedIsLost
  TagNamesWhatWasPlaced
  DriftHasACause
PROPERTIES
  DeviceCatchesUp
