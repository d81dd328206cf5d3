SPECIFICATION Spec
CONSTANTS
  Tasks = {main, t1, t2}
  Main = main
  Ids = {id}
  Spans = {s1, s2, s3}
  MaxDepth = 3
  Nothing = Nothing
INVARIANTS
  SpansBalanced
  SpansIsolated
CHECK_DEADLOCK FALSE
