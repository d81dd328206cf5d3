-------------------------- MODULE MCProcessRuntime --------------------------
(* Small instances of ProcessRuntime.  The process is the `both` of two    *)
(* waits: for the events a and b, in either order.                         *)
EXTENDS ProcessRefinement

CONSTANTS a, b, neither, hasA, hasB, succeeded

MCEvents == {a, b}
MCStates == {neither, hasA, hasB, succeeded}
MCTerminal == {succeeded}
MCMove ==
  [m \in MCStates \X MCEvents |->
     CASE m = <<neither, a>> -> hasA
       [] m = <<neither, b>> -> hasB
       [] m \in {<<hasA, b>>, <<hasB, a>>} -> succeeded
       [] m[1] = succeeded -> neither    \* must never be looked at
       [] OTHER -> Ignored]

(* One event twice in a row: a bind of two waits, for runs with a clear.   *)
TwiceMove ==
  [m \in MCStates \X {a} |->
     IF m[1] = neither THEN hasA ELSE IF m[1] = hasA THEN succeeded ELSE neither]

OneNode == [c \in Calls |-> CHOOSE n \in Nodes : TRUE]

CONSTANTS c1, c2, c3, n1, n2
TwoNodes == [c \in Calls |-> IF c = c1 THEN n1 ELSE n2]
============================================================================
