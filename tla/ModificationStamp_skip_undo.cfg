\* Undoing an ordinary operation after one that skips the undo history.
CONSTANTS
  k1 = k1
  k2 = k2
  v1 = v1
  v2 = v2
  Keys = {k1, k2}
  ConfigKeys = {}
  Vals = {v1, v2}
  OpKinds = {"Edit", "SkipUndo"}
  UndoLimit = 2
  MaxOps = 3
  MaxWrites = 1
  MaxClock = 4
  Skews = {0}
  TiedStamps = FALSE
SPECIFICATION StampSpec
INVARIANTS
  UnsyncedChangesAreStamped
SYMMETRY ValsSymmetry
