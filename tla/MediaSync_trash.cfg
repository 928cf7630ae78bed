\* Both users delete the same file, and one of them another one as well.
CONSTANTS
  c1 = c1
  c2 = c2
  x = x
  y = y
  Clients = {c1, c2}
  Contents <- OneContent
  Absent = Absent
  Files = {1, 2}
  BatchSize = 2
  ZipFiles = 2
  Deletable = {1, 2}
  Faults = {}
  MaxEdits = 4
  MaxFailures = 0
SPECIFICATION Spec
INVARIANTS
  DeletedFilesAreGone
