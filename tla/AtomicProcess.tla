--------------------------- MODULE AtomicProcess ---------------------------
(***************************************************************************)
(* What the runtime promises of a process whose stream is never cleared:   *)
(* an event is handled at one instant.  At that instant either the process *)
(* is waiting for it and it is recorded, or it is not and is dropped; and  *)
(* for each record the one effect of its transition is begun at most once, *)
(* after the record.                                                       *)
(***************************************************************************)
EXTENDS ProcessDefinition

CONSTANTS Calls, NoEvent

VARIABLES
  log,     \* the records: who wrote what
  phase,   \* idle, waiting, recorded or dropped (handled), done, failed
  event,   \* the event of each call
  begun    \* the positions of the log whose effect has begun

vars == <<log, phase, event, begun>>

Init ==
  /\ log = << >>
  /\ phase = [c \in Calls |-> "idle"]
  /\ event = [c \in Calls |-> NoEvent]
  /\ begun = {}

Submit(c, e) ==
  /\ phase[c] = "idle"
  /\ phase' = [phase EXCEPT ![c] = "waiting"]
  /\ event' = [event EXCEPT ![c] = e]
  /\ UNCHANGED <<log, begun>>

PhaseTo(c, p) == phase' = [phase EXCEPT ![c] = p]

(* A waiting call starts the process.  The caller may never learn of it.   *)
Start(c) ==
  /\ phase[c] = "waiting"
  /\ log = << >>
  /\ log' = <<[type |-> "ProcessStarted", event |-> NoEvent, by |-> c]>>
  /\ UNCHANGED phase \/ PhaseTo(c, "failed")
  /\ UNCHANGED <<event, begun>>

Record(c) ==
  /\ phase[c] = "waiting"
  /\ log # << >>
  /\ Accepts(applyHistory(log), event[c])
  /\ log' = Append(log, [type |-> "EventReceived", event |-> event[c], by |-> c])
  /\ PhaseTo(c, "recorded") \/ PhaseTo(c, "failed")
  /\ UNCHANGED <<event, begun>>

(* Only an event that the process is not waiting for may be dropped.       *)
Drop(c) ==
  /\ phase[c] = "waiting"
  /\ log # << >>
  /\ ~Accepts(applyHistory(log), event[c])
  /\ PhaseTo(c, "dropped") \/ PhaseTo(c, "done")
  /\ UNCHANGED <<log, event, begun>>

(* The call that wrote position i begins its effect, before it settles.    *)
BeginEffect(c, i) ==
  /\ phase[c] \in {"waiting", "recorded"}
  /\ i \in DOMAIN log \ begun
  /\ log[i].by = c
  /\ i > 1 => phase[c] = "recorded"
  /\ begun' = begun \cup {i}
  /\ UNCHANGED <<log, phase, event>>

(* A call succeeds once its event is handled and its effects have begun.   *)
Return(c) ==
  /\ phase[c] \in {"recorded", "dropped"}
  /\ \A i \in DOMAIN log : log[i].by = c => i \in begun
  /\ PhaseTo(c, "done")
  /\ UNCHANGED <<log, event, begun>>

(* Calls are cut short: a request or an effect failed, a node went down.   *)
Abort ==
  /\ \E dead \in SUBSET {c \in Calls : phase[c] \in {"waiting", "recorded", "dropped"}} :
       phase' = [c \in Calls |-> IF c \in dead THEN "failed" ELSE phase[c]]
  /\ UNCHANGED <<log, event, begun>>

Next ==
  \/ \E c \in Calls : \/ Start(c) \/ Record(c) \/ Drop(c) \/ Return(c)
                      \/ \E e \in Events : Submit(c, e)
                      \/ \E i \in DOMAIN log : BeginEffect(c, i)
  \/ Abort

Spec == Init /\ [][Next]_vars
============================================================================
