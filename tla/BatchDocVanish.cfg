CONSTANTS
  r1 = r1
  r2 = r2
  raw = raw
  cur = cur
  free = free
  old = old
  new = new
  bad = bad
  b1 = b1
  b2 = b2
  Runs = {r1}
  Paths = {raw, cur, free}
  RawPaths = {raw}
  Curated = {cur}
  Contents = {old, new, bad}
  Inadmissible = {bad}
  Absent = Absent
  Unread = Unread
  Batches = {b1, b2}
  Publishable <- FewChunks
  Vaults <- FewVaults
  PromotionConfigured = FALSE
  MaxDeliver = 2
  MaxYields = 0
  MaxPublished = 1
  MaxFaults = 2
  MaxForeign = 0
SPECIFICATION Spec
INVARIANTS
  NothingVanishes
