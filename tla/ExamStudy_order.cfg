\* Cards whose order of weakness is not that of their notes.
CONSTANTS
  Cards = {1, 2, 3}
  Tags <- TwoTopics
  HomeOf <- TwoHomes
  CanonicalTopics <- Official
  ExamConfigs <- Configs
  Length <- Characters
  Outcomes <- OnlyGood
  HeldCards = {1}
  OpKinds = {"hold", "forget", "config", "ethics", "empty"}
  FetchLimit = 2
  MinGraded = 2
  DayLength = 2
  FirstDay = 2
  MaxTime = 5
SPECIFICATION Spec
INVARIANTS
  ExamDeckKeepsPriority
CHECK_DEADLOCK FALSE
