\* The first card of a new collection, whose position is 0.
CONSTANTS
  Cards = {51}
  TypedNames <- FourNames
  Fold <- FoldCase
  DefaultWord = 100
  InitialDecks <- SmallTree
  InitialCards <- FirstCard
  Packages <- TwoPackages
  OpKinds = {"filtered", "preview"}
  Syncing = FALSE
  MaxId = 30
  MaxOps = 3
  MaxSyncs = 1
SPECIFICATION Spec
INVARIANTS
  CardsReturnHome
\* Nothing happens once the bounds are reached.
CHECK_DEADLOCK FALSE
