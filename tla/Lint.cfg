SPECIFICATION MCSpec
CONSTANTS
  Passes = {p1, p2}
  Notes = {1, 2, 3}
  Zone <- MCZone
  Schema <- MCSchema
  Stamped = {"created"}
  Demanded = {"type"}
  word = word
  iso = iso
  loose = loose
  today = today
  upper = upper
  lower = lower
  NoValue = NoValue
  Blank = Blank
  NoItems = NoItems
  Absent = Absent
  Garbled = Garbled
  NoNote = NoNote
  Modified = today
  Scalars = {word, iso, loose, today, Blank}
  Lists = {NoItems, upper, lower}
  IsoOf <- MCIsoOf
  LowerOf <- MCLowerOf
  Originals <- MCOriginals
  Edits <- MCEdits
  Tries = 2
  MaxEdits = 1
  MaxFaults = 1
INVARIANTS
  TypeOK
  AuditTellsAll
  EditsSurvive
  FixedNotesStand
PROPERTIES
  NotesGetNormalised
