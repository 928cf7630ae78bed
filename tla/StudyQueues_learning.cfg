\* Two learning cards and a previewed one are answered, undone and redone while
\* time passes and the day changes, and attempts throw the queues away.
CONSTANTS
  a = a
  b = b
  c = c
  Cards = {a, b, c}
  NoteOf <- Unrelated
  BuryPreset <- BuryNone
  PreviewCards = {c}
  CardsAtStart <- TwoLearnOneReview
  NewSorted = FALSE
  MergeTargets = {}
  OpKinds = {"DeckTree", "PersistAttempt"}
  OpCards = {c}
  LearnAhead = 3
  Delays = {1}
  MaxFuzz = 1
  DayLength = 3
  MaxTime = 3
  MaxOps = 4
  MaxMerged = 0
  UndoLimit = 3
SPECIFICATION Spec
INVARIANTS
  CountsMatchEntries
  NoDuplicateEntries
PROPERTIES
  UndoShowsCardAgain
  RequeuedBehindNext
