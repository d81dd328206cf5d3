\* In-memory store: a clear between the load and the append of a call.
SPECIFICATION Spec
CONSTANTS
  Backend = "in-memory"
  a = a
  b = b
  neither = neither
  hasA = hasA
  hasB = hasB
  succeeded = succeeded
  c1 = c1
  c2 = c2
  c3 = c3
  n1 = n1
  n2 = n2
  Events = {a}
  States <- MCStates
  Terminal <- MCTerminal
  Move <- TwiceMove
  Initial = neither
  Ignored = Ignored
  Broken = Broken
  Calls = {c1, c2, c3}
  NoCall = NoCall
  Nodes = {n1}
  Home <- OneNode
  NoEvent = NoEvent
  MaxClears = 1
  MaxFaults = 0
INVARIANTS
  StreamStartsWithStarted
