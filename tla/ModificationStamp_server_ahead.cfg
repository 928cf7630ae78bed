\* The check on the client alone, after a sync with a server whose clock is ahead.
CONSTANTS
  k1 = k1
  k2 = k2
  v1 = v1
  v2 = v2
  Keys = {k1}
  ConfigKeys = {}
  Vals = {v1, v2}
  OpKinds = {"UpdateNote"}
  UndoLimit = 2
  MaxOps = 5
  MaxWrites = 1
  MaxClock = 4
  Skews = {2}
  TiedStamps = FALSE
SPECIFICATION StampSpec
INVARIANTS
  OfflineStatusSeesChanges
SYMMETRY ValsSymmetry
