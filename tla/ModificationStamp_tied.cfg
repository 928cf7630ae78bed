\* A stamp of the client that is the one the server's clock gave.
CONSTANTS
  k1 = k1
  k2 = k2
  v1 = v1
  v2 = v2
  Keys = {k1}
  ConfigKeys = {}
  Vals = {v1, v2}
  OpKinds = {"UpdateNote"}
  UndoLimit = 2
  MaxOps = 5
  MaxWrites = 1
  MaxClock = 4
  Skews <- ServerAhead
  TiedStamps = TRUE
SPECIFICATION StampSpec
INVARIANTS
  UnsyncedChangesAreStamped
SYMMETRY ValsSymmetry
