\* One collection, every operation.
CONSTANTS
  Cards = {51, 52}
  TypedNames <- FourNames
  Fold <- FoldCase
  DefaultWord = 100
  InitialDecks <- SmallTree
  InitialCards <- TwoCards
  Packages <- TwoPackages
  OpKinds = {"add", "rename", "reparent", "remove", "filtered", "card", "preview", "import"}
  Syncing = FALSE
  MaxId = 30
  MaxOps = 3
  MaxSyncs = 1
SPECIFICATION Spec
INVARIANTS
  TypeOK
  TreeSound
  NamesUnique
  CardsReturnHome
PROPERTIES
  CardsGoWithTheirHome
\* Nothing happens once the bounds are reached.
CHECK_DEADLOCK FALSE
