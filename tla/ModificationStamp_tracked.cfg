\* All changes are recorded in the undo history, or forget it; clocks differ.
CONSTANTS
  k1 = k1
  k2 = k2
  v1 = v1
  v2 = v2
  Keys = {k1}
  ConfigKeys = {}
  Vals = {v1, v2}
  OpKinds = {"UpdateNote"}
  UndoLimit = 2
  MaxOps = 5
  MaxWrites = 1
  MaxClock = 5
  Skews <- ServerAhead
  TiedStamps = FALSE
SPECIFICATION StampSpec
INVARIANTS
  UnsyncedChangesAreStamped
  UnsavedChangesAreStamped
SYMMETRY ValsSymmetry
