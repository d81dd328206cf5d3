SPECIFICATION Spec
CONSTANTS
  Processes <- SomeProcesses
  Requests <- SomeRequests
  Outside = {"a", "b", "x"}
  MaxOutside = 3
CHECK_DEADLOCK FALSE
INVARIANTS
  OutcomeAsMeant
  EffectsAsMeant
  ReplyIsOnItsWay
