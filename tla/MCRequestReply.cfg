SPECIFICATION FairSpec
CONSTANTS
  Requests = {r1, r2}
  Topics = {updated, rejected}
  Ids = {id}
  NoId = NoId
  NoAnswer = NoAnswer
INVARIANTS
  AnswersTheCommand
  WaitersUnsubscribe
PROPERTIES
  FirstOneDecides
  EveryRequestSettles
CHECK_DEADLOCK FALSE
