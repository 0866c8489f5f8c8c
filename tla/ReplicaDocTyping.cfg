CONSTANTS
  a = a
  b = b
  u1 = u1
  u2 = u2
  h1 = h1
  img = img
  Paths = {a, b}
  Notes = {u1, u2, h1}
  Binaries = {img}
  Absent = Absent
  Nothing = Nothing
  Authored = {u2, Absent}
  Typed = {h1, Absent}
  Seeds <- BothNotes
  EditsMidCycle = TRUE
  MaxCommits = 2
  MaxTyped = 1
  MaxFaults = 0
  MaxLosses = 0
SPECIFICATION Spec
INVARIANTS
  NothingTypedIsLost
