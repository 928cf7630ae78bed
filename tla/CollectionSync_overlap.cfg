\* Another sync may finish between a meta and its start.
CONSTANTS
  c1 = c1
  c2 = c2
  s = s
  Clients = {c1, c2}
  Server = s
  Cards = {101}
  Notes = {}
  Decks = {}
  Initial = {101}
  ChunkSize = 1
  SecondLength = 2
  OpKinds = {"edit"}
  Overlap = TRUE
  TiedEdits = FALSE
  MaxClock = 5
SPECIFICATION Spec
INVARIANTS
  SeenUpToUsn
\* Everyone may be idle once the clock has reached its bound.
CHECK_DEADLOCK FALSE
