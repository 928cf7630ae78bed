\* Sibling burying with one preset, undo and redo, burying, flags and grouping.
CONSTANTS
  a = a
  b = b
  c = c
  Cards = {a, b, c}
  NoteOf <- Siblings
  BuryPreset <- BuryAll
  PreviewCards = {}
  CardsAtStart <- TwoNewOneReview
  NewSorted = TRUE
  MergeTargets = {"Bury"}
  OpKinds = {"Bury", "SetFlag", "UnburyUnsuspend", "Suspend"}
  OpCards = {b}
  LearnAhead = 1
  Delays = {1}
  MaxFuzz = 1
  DayLength = 3
  MaxTime = 3
  MaxOps = 3
  MaxMerged = 3
  UndoLimit = 3
SPECIFICATION Spec
INVARIANTS
  EntriesFresh
  LearningCardsQueued
