\* The custom data of a card is updated between showing and answering it.
CONSTANTS
  a = a
  b = b
  c = c
  Cards = {a, b}
  NoteOf <- Unrelated
  BuryPreset <- BuryNone
  PreviewCards = {}
  CardsAtStart <- AllNew
  NewSorted = FALSE
  MergeTargets = {}
  OpKinds = {"PersistAttempt"}
  OpCards = {}
  LearnAhead = 1
  Delays = {1}
  MaxFuzz = 0
  DayLength = 4
  MaxTime = 2
  MaxOps = 3
  MaxMerged = 0
  UndoLimit = 4
SPECIFICATION Spec
INVARIANTS
  EntriesFresh
