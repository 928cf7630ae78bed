\* Two devices that sync once.
CONSTANTS
  Cards = {51, 52}
  TypedNames <- TwoNames
  Fold <- FoldCase
  DefaultWord = 100
  InitialDecks <- FilteredTree
  InitialCards <- TwoCards
  Packages <- TwoPackages
  OpKinds = {"rename", "remove", "filtered", "card"}
  Syncing = TRUE
  MaxId = 30
  MaxOps = 1
  MaxSyncs = 1
SPECIFICATION Spec
INVARIANTS
  NamesUnique
  CheckRepairs
\* Nothing happens once the bounds are reached.
CHECK_DEADLOCK FALSE
