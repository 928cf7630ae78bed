\* Users add, replace and delete any files while they are synced, and downloads are cut short.
CONSTANTS
  c1 = c1
  c2 = c2
  x = x
  y = y
  Clients = {c1, c2}
  Contents <- FirstTwoContents
  Absent = Absent
  Files = {1, 2}
  BatchSize = 2
  ZipFiles = 2
  Deletable = {1, 2}
  Faults = {"busy", "unsynced", "as_before", "half_download"}
  MaxEdits = 2
  MaxFailures = 2
SPECIFICATION Spec
INVARIANTS
  TypeOK
PROPERTIES
  OnlyUserDeletionsAreUploaded
  RowsPassedAreAccountedFor
