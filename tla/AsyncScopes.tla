---------------------------- MODULE AsyncScopes ----------------------------
(***************************************************************************)
(* The scopes that follow a task through its awaits: the correlation id of *)
(* correlationManager.ts (tenantContextAccessor.ts is the same code for    *)
(* the tenant context) and the spans of spanManager.ts.  Both are built on *)
(* AsyncLocalStorage: `run` gives a store to a callback and to whatever it *)
(* awaits or starts, and takes it back when the callback ends.  The        *)
(* correlation manager passes every scope the one Map of its module; the   *)
(* span manager passes every useSpanManager an array of its own, on which  *)
(* withScope pushes a span and from which it pops one.                     *)
(*                                                                         *)
(* Tasks interleave at their awaits.  A task started by another inherits   *)
(* the stores of the scopes it was started in and outlives them if it is   *)
(* not awaited.  Scopes nest: frames[t] is what task t is inside of.       *)
(* Bounds: Tasks, Spans, Ids, and MaxDepth frames of a task.               *)
(***************************************************************************)
EXTENDS Integers, Sequences, SequencesExt, FiniteSets, FiniteSetsExt

CONSTANTS Tasks, Ids, Spans, Main, MaxDepth, Nothing

ASSUME ScopeAssumption ==
  /\ Main \in Tasks
  /\ MaxDepth \in Nat
  /\ Nothing \notin Ids \cup Spans

VARIABLES
  started,   \* the tasks running
  frames,    \* the scopes each task is in, the innermost last
  inherited, \* how many of them it was started in
  store,     \* what the module's Map holds
  arrays     \* the array of each useSpanManager, by its root span

vars == <<started, frames, inherited, store, arrays>>

Init ==
  /\ started = {Main}
  /\ frames = [t \in Tasks |-> << >>]
  /\ inherited = [t \in Tasks |-> 0]
  /\ store = Nothing
  /\ arrays = [s \in Spans |-> << >>]

Enter(t, frame) ==
  /\ t \in started
  /\ Len(frames[t]) < MaxDepth
  /\ frames' = [frames EXCEPT ![t] = Append(@, frame)]

(* The value of the innermost of some frames that is of one of the kinds.  *)
Innermost(scopes, kinds) ==
  LET at == {i \in DOMAIN scopes : scopes[i].kind \in kinds}
  IN  IF at = {} THEN Nothing ELSE scopes[Max(at)].value

(* Outside of every scope getStore() is undefined.                         *)
getCorrelationId(t) == IF Innermost(frames[t], {"id"}) = Nothing THEN Nothing ELSE store

(* The array that getStore() returns to t.                                 *)
Context(t) == Innermost(frames[t], {"root"})
getActiveSpan(t) ==
  IF Context(t) = Nothing \/ arrays[Context(t)] = << >> THEN Nothing
  ELSE Last(arrays[Context(t)])

useCorrelationId(t, id) ==
  /\ Enter(t, [kind |-> "id", value |-> id])
  /\ store' = id
  /\ UNCHANGED <<started, inherited, arrays>>

Unused(s) == \A t \in Tasks : \A i \in DOMAIN frames[t] : frames[t][i].value # s

\* Mutant: as in the other managers, one array for all.
useSpanManagerShared(t, root) ==
  /\ Unused(root)
  /\ Enter(t, [kind |-> "root", value |-> root])
  /\ arrays' = [s \in Spans |-> <<root>>]
  /\ UNCHANGED <<started, inherited, store>>

useSpanManager(t, root) ==
  /\ Unused(root) /\ arrays[root] = << >>
  /\ Enter(t, [kind |-> "root", value |-> root])
  /\ arrays' = [arrays EXCEPT ![root] = <<root>>]
  /\ UNCHANGED <<started, inherited, store>>

(* beginScope: outside of useSpanManager there is nothing to push on.      *)
withScope(t, span) ==
  /\ Unused(span) /\ arrays[span] = << >>
  /\ Enter(t, [kind |-> "span", value |-> span])
  /\ arrays' = IF Context(t) = Nothing THEN arrays
               ELSE [arrays EXCEPT ![Context(t)] = Append(@, span)]
  /\ UNCHANGED <<started, inherited, store>>

\* Mutant: endScope is skipped (when the action throws).
LeaveUnpopped(t) ==
  /\ Len(frames[t]) > inherited[t]
  /\ frames' = [frames EXCEPT ![t] = Front(@)]
  /\ UNCHANGED <<started, inherited, store, arrays>>

(* The innermost callback of t ends, or throws: its scope ends, and only a *)
(* scope of withScope has something to undo (endScope).                    *)
Leave(t) ==
  /\ Len(frames[t]) > inherited[t]
  /\ frames' = [frames EXCEPT ![t] = Front(@)]
  /\ arrays' = IF Last(frames[t]).kind = "span" /\ Context(t) # Nothing
                  /\ arrays[Context(t)] # << >>
               THEN [arrays EXCEPT ![Context(t)] = Front(@)]
               ELSE arrays
  /\ UNCHANGED <<started, inherited, store>>

Start(t, new) ==
  /\ t \in started /\ new \notin started
  /\ started' = started \cup {new}
  /\ frames' = [frames EXCEPT ![new] = frames[t]]
  /\ inherited' = [inherited EXCEPT ![new] = Len(frames[t])]
  /\ UNCHANGED <<store, arrays>>

Next ==
  \E t \in Tasks :
    \/ \E id \in Ids : useCorrelationId(t, id)
    \/ \E s \in Spans : useSpanManager(t, s) \/ withScope(t, s)
    \/ Leave(t)
    \/ \E new \in Tasks : Start(t, new)

Spec == Init /\ [][Next]_vars

----------------------------------------------------------------------------
Own(t, i) == i > inherited[t]

(* The scopes of withScope that are open under a root span.                *)
OpenUnder(root) ==
  {scope \in Tasks \X (1 .. MaxDepth) :
     LET u == scope[1]
         i == scope[2]
     IN  /\ i \in DOMAIN frames[u] /\ Own(u, i)
         /\ frames[u][i].kind = "span"
         /\ Innermost(SubSeq(frames[u], 1, i), {"root"}) = root}

(* The spans pushed on the array of a root are popped one for one, however *)
(* the scopes of the tasks that share it interleave (withScope).           *)
SpansBalanced ==
  \A t \in Tasks : Context(t) # Nothing =>
    Len(arrays[Context(t)]) = 1 + Cardinality(OpenUnder(Context(t)))

(* The scope of t's root span is its own, and no task was started in it.   *)
Alone(t) ==
  LET root == [kind |-> "root", value |-> Context(t)]
  IN  /\ \E i \in DOMAIN frames[t] : Own(t, i) /\ frames[t][i] = root
      /\ \A u \in Tasks \ {t} : \A i \in DOMAIN frames[u] : frames[u][i] # root

(* A task that shares its root span with nobody sees the span of its own   *)
(* innermost scope, whatever other tasks do (useSpanManager).              *)
SpansIsolated ==
  \A t \in Tasks : Context(t) # Nothing /\ Alone(t) =>
    getActiveSpan(t) = Innermost(frames[t], {"root", "span"})

(* "opening a correlation scope that is propagated across async/await      *)
(* calls": inside a scope, the id it was opened with is the current one.   *)
CorrelationPropagated ==
  \A t \in Tasks : Innermost(frames[t], {"id"}) # Nothing =>
    getCorrelationId(t) = Innermost(frames[t], {"id"})
============================================================================
