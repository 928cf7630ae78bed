\* The desktop moves a card into a study deck after the phone has answered it.
CONSTANTS
  Cards = {1, 2, 3}
  Tags <- TwoTopics
  HomeOf <- TwoHomes
  CanonicalTopics <- Official
  ExamConfigs <- Configs
  Length <- Characters
  Outcomes <- OnlyGood
  HeldCards = {1}
  OpKinds = {"hold", "forget", "config", "ethics", "empty"}
  FetchLimit = 2
  MinGraded = 2
  DayLength = 2
  FirstDay = 2
  MaxTime = 5
SPECIFICATION Spec
INVARIANTS
  LatestReviewWins
CHECK_DEADLOCK FALSE
