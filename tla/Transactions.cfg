\* Operations of several writes over an ordinary row and a config row, with
\* undo, redo, coalescing, merging, failures and a full undo history.
CONSTANTS
  k1 = k1
  k2 = k2
  v1 = v1
  v2 = v2
  Keys = {k1, k2}
  ConfigKeys = {k2}
  Vals = {v1, v2}
  OpKinds = {"UpdateNote", "SkipUndo"}
  UndoLimit = 2
  MaxOps = 4
  MaxWrites = 2
  MaxClock = 3
SPECIFICATION Spec
INVARIANTS
  TypeOK
  StepAccountsForChanges
  RevertProgress
  CountersIdentifySteps
PROPERTIES
  ImplementsHistory
SYMMETRY ValsSymmetry
