SPECIFICATION Spec
CONSTANTS
  Tasks = {main, t1}
  Main = main
  Ids = {id1, id2}
  Spans = {s1}
  MaxDepth = 2
  Nothing = Nothing
INVARIANT
  CorrelationPropagated
CHECK_DEADLOCK FALSE
