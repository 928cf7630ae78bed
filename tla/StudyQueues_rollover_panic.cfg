\* An answer is undone after the day has changed.
CONSTANTS
  a = a
  b = b
  c = c
  Cards = {a}
  NoteOf <- Unrelated
  BuryPreset <- BuryNone
  PreviewCards = {}
  CardsAtStart <- AllReview
  NewSorted = FALSE
  MergeTargets = {}
  OpKinds = {}
  OpCards = {}
  LearnAhead = 3
  Delays = {2}
  MaxFuzz = 1
  DayLength = 4
  MaxTime = 4
  MaxOps = 2
  MaxMerged = 0
  UndoLimit = 4
SPECIFICATION Spec
INVARIANTS
  NoPanic
