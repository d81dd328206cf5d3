------------------------- MODULE ProcessRefinement -------------------------
(***************************************************************************)
(* ProcessRuntime seen as AtomicProcess: what stands in each state of the  *)
(* runtime for the log, the phases and the effects of the abstract         *)
(* process.                                                                *)
(***************************************************************************)
EXTENDS ProcessRuntime

(* A record without its version, which its place in the log gives.         *)
LogOf(s) ==
  [i \in DOMAIN s |-> [type |-> s[i].type, event |-> s[i].event, by |-> s[i].by]]

(* A call that has loaded a history of its own in which its event is not   *)
(* awaited has been dropped when it loaded it.                             *)
Dropped(c) ==
  /\ pc[c] = "decide"
  /\ c \notin live
  /\ ~Accepts(applyHistory(view[c]), event[c])

AbstractPhase(c) ==
  CASE pc[c] \in {"idle", "done"} -> pc[c]
    [] pc[c] \in {"failed", "crashed"} -> "failed"
    [] Dropped(c) -> "dropped"
    [] pc[c] \in {"recorded", "effect"} -> "recorded"
    [] OTHER -> "waiting"

abstractPhase == [c \in Calls |-> AbstractPhase(c)]

effectsBegun == {effects[i].version : i \in DOMAIN effects}

Atomic == INSTANCE AtomicProcess WITH
  log <- LogOf(stream), phase <- abstractPhase, begun <- effectsBegun

(* While its stream is not cleared, the runtime handles each event at one  *)
(* instant between the call and its return, though it spends many awaits   *)
(* on it and other calls run in between (handleEvent).                     *)
HandlesAtomically == Atomic!Spec
============================================================================
