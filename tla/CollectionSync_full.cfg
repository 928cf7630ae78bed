\* Reviews in one second, a note that is new, and full syncs.
CONSTANTS
  c1 = c1
  c2 = c2
  s = s
  Clients = {c1, c2}
  Server = s
  Cards = {101}
  Notes = {201}
  Decks = {}
  Initial = {101}
  ChunkSize = 1
  SecondLength = 3
  OpKinds = {"review", "add", "schema"}
  Overlap = FALSE
  TiedEdits = TRUE
  MaxClock = 5
SPECIFICATION Spec
INVARIANTS
  TypeOK
PROPERTIES
  SyncEnds
\* Everyone may be idle once the clock has reached its bound.
CHECK_DEADLOCK FALSE
