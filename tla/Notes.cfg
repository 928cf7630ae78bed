\* Two collections, every operation, packages from one imported into the other.
CONSTANTS
  InitialNotetypes <- TwoNotetypes
  InitialNotes <- OneNote
  InitialCards <- OneCard
  OpKinds = {"add", "update", "remove", "check", "fields", "templates", "change", "empty"}
  Merging = {TRUE, FALSE}
  Conditions <- TwoConditions
  StaleReports = FALSE
  IdStep = 999
  MaxOps <- OneEach
  MaxImports = 2
  MaxItems = 3
SPECIFICATION Spec
INVARIANTS
  TypeOK
  NotesFollowTheirNotetype
  CheckRepairs
  EmptyCardsLoseNothing
PROPERTIES
  ReimportAddsNothing
CHECK_DEADLOCK FALSE
