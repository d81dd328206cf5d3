----------------------------- MODULE ProcessRun -----------------------------
(***************************************************************************)
(* A composed process at work.  Every event from outside is a call of the  *)
(* runtime of its own; the calls run side by side.  A call executes the    *)
(* effects of its event in order, and what an effect enqueues is handled   *)
(* inside it, before the rest.  Any effect, and any call of the runtime,   *)
(* may throw: then the rest of the whole call is never executed.           *)
(* Handling one event is a step here: ProcessRefinement is about that.     *)
(***************************************************************************)
EXTENDS ProcessMeaning

CONSTANTS
  Processes,   \* terms
  Outside,     \* the events that come from outside
  MaxOutside,  \* how many of them
  Requests     \* the requests some process makes, with the two replies

VARIABLES
  process,
  history,   \* the events it took
  calls,     \* how many events have come from outside
  work,      \* for each call that is under way, what it has still to do
  dropped,   \* requests that get no answer, because something before threw
  offered,   \* every event offered, taken or not
  came       \* what came of the start and of each event

vars == <<process, history, calls, work, dropped, offered, came>>

(* Mediator.send of the enqueueEvent command: an item of work, like an effect. *)
Send(ev) == [name |-> "enqueueEvent", event |-> ev]

(* The runtime keeps no process: it starts the function anew and replays   *)
(* the events it took, with generators of its own.                         *)
Rebuilt ==
  FoldLeft(LAMBDA r, ev : next(r.ps, ev, r.G), proc(process, {}, << >>), history)

now == Rebuilt.ps

(* The first call finds no stream: it executes the initial effect before   *)
(* it applies its event.                                                   *)
Init ==
  /\ process \in Processes
  /\ history = << >> /\ offered = << >> /\ dropped = {} /\ calls = 1
  /\ LET eff == proc(process, {}, << >>).eff IN
       /\ \E ev \in Outside : work = <<Append(eff, Send(ev))>>
       /\ came = <<[took |-> FALSE, eff |-> eff]>>

(* A later call finds the stream.                                          *)
ComesFromOutside ==
  /\ calls < MaxOutside
  /\ calls' = calls + 1
  /\ \E ev \in Outside : work' = Append(work, <<Send(ev)>>)
  /\ UNCHANGED <<process, history, dropped, offered, came>>

(* The next item of a call is replaced by what comes of it.                *)
Does(c, items) ==
  LET rest == items \o Tail(work[c]) IN
  work' = IF rest = << >> THEN RemoveAt(work, c) ELSE [work EXCEPT ![c] = rest]

Applies(c) ==
  /\ Head(work[c]).name = "enqueueEvent"
  /\ LET ev == Head(work[c]).event
         is == Rebuilt
         r == IF is.ps.kind = "InProgress" THEN next(is.ps, ev, is.G) ELSE Null(is.G) IN
       /\ offered' = Append(offered, ev)
       /\ history' = IF r.took THEN Append(history, ev) ELSE history
       /\ came' = Append(came, [took |-> r.took, eff |-> IF r.took THEN r.eff ELSE << >>])
       /\ Does(c, came'[Len(came')].eff)
  /\ UNCHANGED <<process, calls, dropped>>

Executes(c) ==
  /\ Head(work[c]).name # "enqueueEvent"
  /\ \E evs \in Head(work[c]).gives :
       Does(c, [i \in DOMAIN evs |-> Send(evs[i])])
  /\ UNCHANGED <<process, history, calls, dropped, offered, came>>

(* A call has still to make the request, or to hand in the reply to it.    *)
Answers(items, req) ==
  \E i \in DOMAIN items :
    items[i].name = req.name \/ items[i] \in {Send(req.ok), Send(req.err)}

(* Nothing between an effect and the call from outside catches an error    *)
(* other than ConcurrencyError.                                            *)
Throws(c) ==
  /\ dropped' = dropped \cup {req \in Requests : Answers(work[c], req)}
  /\ work' = RemoveAt(work, c)
  /\ UNCHANGED <<process, history, calls, offered, came>>

Next ==
  \/ ComesFromOutside
  \/ \E c \in DOMAIN work : Applies(c) \/ Executes(c) \/ Throws(c)

Spec == Init /\ [][Next]_vars

-----------------------------------------------------------------------------
Meant == Meaning(process, {}, offered)

(* Whatever events come, in whatever order, a composed process ends as its *)
(* parts, run each on its own, say it must: in the same state, with the    *)
(* same value or error, after taking the same events.  (both tells the two *)
(* sides apart by null, replaces one side at a time and merges the states  *)
(* of sides that are at different points.)                                 *)
OutcomeAsMeant ==
  LET meant == Meant
      is == now
  IN /\ is.kind = meant.kind /\ is.state = meant.state
     /\ is.kind # "InProgress" => is.value = meant.value
     /\ \A i \in DOMAIN offered : came[i + 1].took = (i \in meant.took)

(* Every effect of every part is given to the runtime to execute, once,    *)
(* with the event it came of, and in the order of the parts.               *)
EffectsAsMeant ==
  LET meant == Meant IN \A i \in DOMAIN came : came[i].eff = meant.eff[i - 1]

(* A process waits for a reply that will not come only if something threw: *)
(* as long as it would take the reply to a request, some call has still to *)
(* make the request or to hand in its reply, or never will, because an     *)
(* effect before it in the same call threw.  (fromEffect waits after the   *)
(* effect, not in it, while other calls move the process on; the request   *)
(* and the reply wait behind the effects of other parts, and behind all    *)
(* that the events handled inside these lead to.)                          *)
ReplyIsOnItsWay ==
  LET is == Rebuilt IN
  is.ps.kind = "InProgress" =>
    \A req \in Requests : next(is.ps, req.ok, is.G).took =>
      req \in dropped \/ \E c \in DOMAIN work : Answers(work[c], req)

=============================================================================
