\* Two clients with a card, a note, a deck and a configuration; any step of a sync may fail.
CONSTANTS
  c1 = c1
  c2 = c2
  s = s
  Clients = {c1, c2}
  Server = s
  Cards = {101}
  Notes = {201}
  Decks = {301}
  Initial = {101, 201, 301}
  ChunkSize = 1
  SecondLength = 2
  OpKinds = {"edit", "delete", "config"}
  Overlap = FALSE
  TiedEdits = FALSE
  MaxClock = 5
SPECIFICATION Spec
INVARIANTS
  AgreeAtSanity
  SeenUpToUsn
  DeletedStaysDeleted
PROPERTIES
  NewestWins
SYMMETRY ClientsSymmetry
\* Everyone may be idle once the clock has reached its bound.
CHECK_DEADLOCK FALSE
