\* Three cards of two topics, answered on two devices over three days.
CONSTANTS
  Cards = {1, 2, 3}
  Tags <- TwoTopics
  HomeOf <- TwoHomes
  CanonicalTopics <- Official
  ExamConfigs <- Configs
  Length <- Characters
  Outcomes <- AgainOnDesktop
  HeldCards = {1}
  OpKinds = {"hold", "forget", "config", "ethics", "empty"}
  FetchLimit = 2
  MinGraded = 2
  DayLength = 2
  FirstDay = 2
  MaxTime = 5
SPECIFICATION Spec
INVARIANTS
  TypeOK
  EvidenceCountedOnce
  ReviewIsReached
  DueKeepHalf
  StudyDecksKeepScores
\* Nothing happens once the bounds are reached.
CHECK_DEADLOCK FALSE
