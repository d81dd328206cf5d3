SPECIFICATION Spec
CONSTANTS
  Requests = {r1, r2}
  Callers = {r1}
  securedMessages = TRUE
  MaxErrors = 2
  MaxCalls = 2
  MaxLogs = 4
  batchLimit = 2
INVARIANTS
  SecuredAnswers
  ErrorsLoggedRaw
  LogsHandedOver
  EveryLogOnce
  WrittenInOrder
  CloseEmptiesQueue
PROPERTIES
  EveryLogLeaves
  CloseStopsLoop
  EveryRequestAnswered
CHECK_DEADLOCK FALSE
