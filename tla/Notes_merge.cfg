\* The same, asking whether cards stay apart when any package is merged.
CONSTANTS
  InitialNotetypes <- TwoNotetypes
  InitialNotes <- OneNote
  InitialCards <- OneCard
  OpKinds = {"templates"}
  Merging = {TRUE, FALSE}
  Conditions <- TwoConditions
  StaleReports = FALSE
  IdStep = 999
  MaxOps <- OneEach
  MaxImports = 2
  MaxItems = 3
SPECIFICATION Spec
INVARIANT
  CardOrdinalsUnique
CHECK_DEADLOCK FALSE
