\* Users add, replace and delete files between syncs, any request may fail, and users stop at last.
CONSTANTS
  c1 = c1
  c2 = c2
  x = x
  y = y
  Clients = {c1, c2}
  Contents <- FirstTwoContents
  Absent = Absent
  Files = {1, 2}
  BatchSize = 2
  ZipFiles = 2
  Deletable = {1}
  Faults = {}
  MaxEdits = 3
  MaxFailures = 1
SPECIFICATION Spec
INVARIANTS
  TypeOK
  FolderMatchesUpToUsn
PROPERTIES
  OnlyUserDeletionsAreUploaded
  EventuallyAgree
