\* A user brings a file back to what the server has while another client uploads a change.
CONSTANTS
  c1 = c1
  c2 = c2
  x = x
  y = y
  Clients = {c1, c2}
  Contents <- FirstTwoContents
  Absent = Absent
  Files = {1, 2}
  BatchSize = 2
  ZipFiles = 2
  Deletable = {1}
  Faults = {"as_before"}
  MaxEdits = 4
  MaxFailures = 1
SPECIFICATION Spec
INVARIANTS
  FolderMatchesUpToUsn
