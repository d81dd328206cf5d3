SPECIFICATION Spec
CONSTANTS
  Connections = {c1, c2}
  TwoArguments = {c2}
  Root = Root
  MaxCalls = 2
INVARIANTS
  SpansLastAsTheirSockets
  OneTrace
CHECK_DEADLOCK FALSE
