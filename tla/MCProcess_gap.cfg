\* SQL Server: a clear between the load and the append leaves a version gap.
SPECIFICATION FairSpec
CONSTANTS
  Backend = "mssql"
  a = a
  b = b
  neither = neither
  hasA = hasA
  hasB = hasB
  succeeded = succeeded
  c1 = c1
  c2 = c2
  c3 = c3
  n1 = n1
  n2 = n2
  Events = {a}
  States <- MCStates
  Terminal <- MCTerminal
  Move <- TwiceMove
  Initial = neither
  Ignored = Ignored
  Broken = Broken
  Calls = {c1, c2, c3}
  NoCall = NoCall
  Nodes = {n1}
  Home <- OneNode
  NoEvent = NoEvent
  MaxClears = 1
  MaxFaults = 0
PROPERTIES
  EveryCallSettles
