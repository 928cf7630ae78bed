\* Siblings whose home decks have different burying options.
CONSTANTS
  a = a
  b = b
  c = c
  Cards = {a, b}
  NoteOf <- Siblings
  BuryPreset <- BuryFromB
  PreviewCards = {}
  CardsAtStart <- AllNew
  NewSorted = TRUE
  MergeTargets = {}
  OpKinds = {}
  OpCards = {}
  LearnAhead = 3
  Delays = {2}
  MaxFuzz = 1
  DayLength = 4
  MaxTime = 4
  MaxOps = 2
  MaxMerged = 0
  UndoLimit = 4
SPECIFICATION Spec
INVARIANTS
  EntriesFresh
