SPECIFICATION Spec
CONSTANTS
  MaxEntries = 3
  Drains = {d1, d2}
  Stuck = {1}
  MaxMishaps = 2
  app = app
  plug = plug
  data = data
  old = old
  new = new
  Settings = {app, plug, data}
  Listed = {app, plug}
  Values = {old, new}
  Absent = Absent
  Torn = Torn
  Nowhere = Nowhere
  Nobody = Nobody
  Baselines <- MCBaselines
  Residues <- MCResidues
  MaxCommits = 1
  MaxTouches = 2
  MaxTroubles = 2
CHECK_DEADLOCK FALSE
INVARIANTS
  DeviceTypeOK
PROPERTIES
  ImplementsSpool
  EveryEntryIsDrained
  SeedIsTheCommit
  SeededOrSaidWhy
