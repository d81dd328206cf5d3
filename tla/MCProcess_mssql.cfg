\* SQL Server, two nodes, a crash or a failed request; never cleared.
SPECIFICATION FairSpec
CONSTANTS
  Backend = "mssql"
  a = a
  b = b
  neither = neither
  hasA = hasA
  hasB = hasB
  succeeded = succeeded
  c1 = c1
  c2 = c2
  c3 = c3
  n1 = n1
  n2 = n2
  Events <- MCEvents
  States <- MCStates
  Terminal <- MCTerminal
  Move <- MCMove
  Initial = neither
  Ignored = Ignored
  Broken = Broken
  Calls = {c1, c2, c3}
  NoCall = NoCall
  Nodes = {n1, n2}
  Home <- TwoNodes
  NoEvent = NoEvent
  MaxClears = 0
  MaxFaults = 1
INVARIANTS
  HistoryReplays
PROPERTIES
  MovesAsTheProcess
  HandlesAtomically
  EveryCallSettles
