--------------------------- MODULE ProcessRuntime ---------------------------
(***************************************************************************)
(* The process runtime of process-runtime.ts over one stream.  Calls of    *)
(* handleEvent run concurrently, on the event loops of one or more nodes;  *)
(* each await is a point where the others may run, so every store          *)
(* operation and every effect is a step of its own.  The pc of a call:     *)
(*                                                                         *)
(*   idle     not made yet                                                 *)
(*   exists   awaits streamExists          start   awaits the append of    *)
(*   load     awaits loadEvents                    ProcessStarted          *)
(*   decide   has the history, about to    append  awaits the append of    *)
(*            replay it                            EventReceived           *)
(*   started, recorded  the append has succeeded, the effect is next       *)
(*   initial, effect    the effect runs (user code, or an event enqueued   *)
(*                      through the Mediator and handled before it ends)   *)
(*   done, failed       the promise resolved, rejected                     *)
(*   crashed            its node went down                                 *)
(*                                                                         *)
(* Bounds: the set Calls, MaxClears and MaxFaults.                         *)
(***************************************************************************)
EXTENDS ProcessDefinition, EventStore, FiniteSets

CONSTANTS
  Calls,       \* the calls of handleEvent, nested ones included
  NoCall,      \* the parent of a call that no effect made
  Nodes,       \* the operating-system processes
  Home,        \* the node each call runs on
  NoEvent,     \* what a ProcessStarted record carries
  MaxClears,   \* bound on the calls of clearProcessState
  MaxFaults    \* bound on crashes and failed database requests

ASSUME RuntimeAssumption ==
  /\ NoCall \notin Calls
  /\ NoEvent \notin Events
  /\ Home \in [Calls -> Nodes]
  /\ Backend = "in-memory" => \A c, d \in Calls : Home[c] = Home[d]
  /\ MaxClears \in Nat
  /\ MaxFaults \in Nat

VARIABLES
  stream,   \* the records of the stream, in version order
  pc,       \* where each call is
  event,    \* the event each call was made with
  parent,   \* the call whose effect enqueued it
  view,     \* the history each call has loaded
  live,     \* the calls whose history is the store's own array
  effects,  \* history variable: the effects begun, in order
  clears,   \* calls of clearProcessState so far
  faults    \* crashes and failed requests so far

vars == <<stream, pc, event, parent, view, live, effects, clears, faults>>

Settled == {"done", "failed", "crashed"}
Working == {"exists", "start", "started", "initial", "load", "decide",
            "append", "recorded", "effect"}

Records ==
  [version : Nat \ {0}, type : {"ProcessStarted"}, event : {NoEvent}, by : Calls]
  \cup
  [version : Nat \ {0}, type : {"EventReceived"}, event : Events, by : Calls]

EffectRuns == [type : {"ProcessStarted", "EventReceived"}, version : Nat \ {0},
               by : Calls, from : States \cup {Broken}]

Init ==
  /\ stream = << >>
  /\ pc = [c \in Calls |-> "idle"]
  /\ event = [c \in Calls |-> NoEvent]
  /\ parent = [c \in Calls |-> NoCall]
  /\ view = [c \in Calls |-> << >>]
  /\ live = {}
  /\ effects = << >>
  /\ clears = 0
  /\ faults = 0

GoTo(c, label) == pc' = [pc EXCEPT ![c] = label]

(* handleEvent is called, by the application or (p # NoCall) by an effect. *)
Call(c, e, p) ==
  /\ pc[c] = "idle"
  /\ GoTo(c, "exists")
  /\ event' = [event EXCEPT ![c] = e]
  /\ parent' = [parent EXCEPT ![c] = p]

HandleEvent(c, e) ==
  /\ Call(c, e, NoCall)
  /\ UNCHANGED <<stream, view, live, effects, clears, faults>>

StreamExists(c) ==
  /\ pc[c] = "exists"
  /\ GoTo(c, IF streamExists(stream) THEN "load" ELSE "start")
  /\ UNCHANGED <<stream, event, parent, view, live, effects, clears, faults>>

(* The store has written r; the calls that hold the store's own array see  *)
(* it grow.                                                                *)
Push(expected, r) ==
  /\ stream' = Written(stream, expected, r)
  /\ view' = [d \in Calls |-> IF d \in live THEN stream' ELSE view[d]]

StartedBy(c) ==
  [version |-> 0, type |-> "ProcessStarted", event |-> NoEvent, by |-> c]
ReceivedBy(c) ==
  [version |-> 0, type |-> "EventReceived", event |-> event[c], by |-> c]

(* startProcess.  On ConcurrencyError catchError calls handleEvent anew.   *)
AppendStarted(c) ==
  /\ pc[c] = "start"
  /\ ~Conflicts(stream, 0)
  /\ Push(0, StartedBy(c))
  /\ GoTo(c, "started")
  /\ UNCHANGED <<event, parent, live, effects, clears, faults>>

\* Mutant: the loser of the race to start runs the initial effect as well.
RetryStartAsStarted(c) ==
  /\ pc[c] = "start"
  /\ Conflicts(stream, 0)
  /\ GoTo(c, "started")
  /\ UNCHANGED <<stream, event, parent, view, live, effects, clears, faults>>

RetryStart(c) ==
  /\ pc[c] = "start"
  /\ Conflicts(stream, 0)
  /\ GoTo(c, "exists")
  /\ UNCHANGED <<stream, event, parent, view, live, effects, clears, faults>>

RunInitialEffect(c) ==
  /\ pc[c] = "started"
  /\ effects' = Append(effects, [type |-> "ProcessStarted", version |-> 1,
                                 by |-> c, from |-> Initial])
  /\ GoTo(c, "initial")
  /\ UNCHANGED <<stream, event, parent, view, live, clears, faults>>

LoadEvents(c) ==
  /\ pc[c] = "load"
  /\ view' = [view EXCEPT ![c] = stream]
  /\ live' = IF LoadsLiveArray(stream) THEN live \cup {c} ELSE live
  /\ GoTo(c, "decide")
  /\ UNCHANGED <<stream, event, parent, effects, clears, faults>>

(* applyNewEvent once the history is there: replay it, offer the event.    *)
ApplyNewEvent(c) ==
  LET state == applyHistory(view[c])
  IN  /\ pc[c] = "decide"
      /\ GoTo(c, IF state = Broken THEN "failed"
                 ELSE IF Accepts(state, event[c]) THEN "append" ELSE "done")
      /\ live' = live \ {c}
      /\ UNCHANGED <<stream, event, parent, view, effects, clears, faults>>

AppendReceived(c) ==
  LET expected == Len(view[c])
  IN  /\ pc[c] = "append"
      /\ ~Conflicts(stream, expected)
      /\ Push(expected, ReceivedBy(c))
      /\ GoTo(c, "recorded")
      /\ UNCHANGED <<event, parent, live, effects, clears, faults>>

\* Mutants: a conflict drops the event; it repeats the append as it was.
RetryReceivedNever(c) ==
  /\ pc[c] = "append"
  /\ Conflicts(stream, Len(view[c]))
  /\ GoTo(c, "done")
  /\ UNCHANGED <<stream, event, parent, view, live, effects, clears, faults>>

RetryReceivedStale(c) ==
  /\ pc[c] = "append"
  /\ Conflicts(stream, Len(view[c]))
  /\ UNCHANGED vars

RetryReceived(c) ==
  /\ pc[c] = "append"
  /\ Conflicts(stream, Len(view[c]))
  /\ GoTo(c, "exists")
  /\ UNCHANGED <<stream, event, parent, view, live, effects, clears, faults>>

\* Mutant: the effect does not wait for the append.
RunEffectUnrecorded(c) ==
  /\ pc[c] \in {"append", "recorded"}
  /\ effects' = Append(effects, [type |-> "EventReceived",
                                 version |-> Len(view[c]) + 1,
                                 by |-> c, from |-> applyHistory(view[c])])
  /\ GoTo(c, "effect")
  /\ UNCHANGED <<stream, event, parent, view, live, clears, faults>>

RunEffect(c) ==
  /\ pc[c] = "recorded"
  /\ effects' = Append(effects, [type |-> "EventReceived",
                                 version |-> Len(view[c]) + 1,
                                 by |-> c, from |-> applyHistory(view[c])])
  /\ GoTo(c, "effect")
  /\ UNCHANGED <<stream, event, parent, view, live, clears, faults>>

InEffect(c) == pc[c] \in {"initial", "effect"}

(* The effect awaits the handling of the event it enqueued.                *)
Waiting(c) == \E d \in Calls : parent[d] = c /\ pc[d] \notin Settled

EffectReturns(c) ==
  /\ InEffect(c)
  /\ ~Waiting(c)
  /\ GoTo(c, IF pc[c] = "initial" THEN "load" ELSE "done")
  /\ UNCHANGED <<stream, event, parent, view, live, effects, clears, faults>>

(* Thrown by the effect, or by the handling of an event it enqueued.       *)
EffectThrows(c) ==
  /\ InEffect(c)
  /\ ~Waiting(c)
  /\ GoTo(c, "failed")
  /\ UNCHANGED <<stream, event, parent, view, live, effects, clears, faults>>

(* Mediator.send of an enqueueEvent command, to a registered handler.      *)
EffectEnqueues(c, d, e) ==
  /\ InEffect(c)
  /\ ~Waiting(c)
  /\ Home[d] = Home[c]
  /\ Call(d, e, c)
  /\ UNCHANGED <<stream, view, live, effects, clears, faults>>

(* clearProcessState: deleteStream.  Arrays already handed out stay as     *)
(* they are, no longer the store's.                                        *)
ClearProcessState ==
  /\ clears < MaxClears
  /\ stream' = << >>
  /\ live' = {}
  /\ clears' = clears + 1
  /\ UNCHANGED <<pc, event, parent, view, effects, faults>>

(* A database request fails with something other than a unique-index       *)
(* violation: handleEvent rethrows.  An insert may have been committed     *)
(* before its answer was lost.                                             *)
RequestFails(c) ==
  /\ Backend = "mssql"
  /\ faults < MaxFaults
  /\ faults' = faults + 1
  /\ \/ /\ pc[c] \in {"exists", "start", "load", "append"}
        /\ UNCHANGED <<stream, view>>
     \/ /\ pc[c] = "start"
        /\ ~Conflicts(stream, 0)
        /\ Push(0, StartedBy(c))
     \/ /\ pc[c] = "append"
        /\ ~Conflicts(stream, Len(view[c]))
        /\ Push(Len(view[c]), ReceivedBy(c))
  /\ GoTo(c, "failed")
  /\ UNCHANGED <<event, parent, live, effects, clears>>

(* A node goes down with the calls it runs; the database stays.  (The      *)
(* in-memory store goes down with its only node: back to Init.)            *)
Crash(n) ==
  /\ Backend = "mssql"
  /\ faults < MaxFaults
  /\ faults' = faults + 1
  /\ \E c \in Calls : Home[c] = n /\ pc[c] \in Working
  /\ pc' = [c \in Calls |-> IF Home[c] = n /\ pc[c] \in Working
                            THEN "crashed" ELSE pc[c]]
  /\ UNCHANGED <<stream, event, parent, view, live, effects, clears>>

(* What the event loop does for a call once it was made.                   *)
Step(c) ==
  \/ StreamExists(c)
  \/ AppendStarted(c) \/ RetryStart(c) \/ RunInitialEffect(c)
  \/ LoadEvents(c) \/ ApplyNewEvent(c)
  \/ AppendReceived(c) \/ RetryReceived(c) \/ RunEffect(c)
  \/ EffectReturns(c) \/ EffectThrows(c)
  \/ \E d \in Calls, e \in Events : EffectEnqueues(c, d, e)

(* Every call that was made has settled.                                   *)
Quiescent ==
  /\ \A c \in Calls : pc[c] \notin Working
  /\ UNCHANGED vars

Next ==
  \/ \E c \in Calls : Step(c) \/ RequestFails(c)
  \/ \E c \in Calls, e \in Events : HandleEvent(c, e)
  \/ ClearProcessState
  \/ \E n \in Nodes : Crash(n)
  \/ Quiescent

Spec == Init /\ [][Next]_vars

(* The event loop runs every continuation, a request is answered, and an   *)
(* effect ends.                                                            *)
Fairness == \A c \in Calls : WF_vars(Step(c))
FairSpec == Spec /\ Fairness

----------------------------------------------------------------------------
(* Types.                                                                  *)
TypeOK ==
  /\ stream \in Seq(Records)
  /\ pc \in [Calls -> Working \cup Settled \cup {"idle"}]
  /\ event \in [Calls -> Events \cup {NoEvent}]
  /\ parent \in [Calls -> Calls \cup {NoCall}]
  /\ view \in [Calls -> Seq(Records)]
  /\ live \subseteq Calls
  /\ effects \in Seq(EffectRuns)
  /\ clears \in 0 .. MaxClears
  /\ faults \in 0 .. MaxFaults

(* Prevents lost updates: while nobody clears the stream, it replays.  No  *)
(* event is recorded that the process was not waiting for in the state the *)
(* records before it lead to, whatever was appended between the load the   *)
(* decision was based on and the append (applyNewEvent).                   *)
HistoryReplays == clears = 0 => Replays(stream)

(* Every effect that has begun belongs to one record of the stream, was    *)
(* begun by the call that wrote it, is the effect of the transition that   *)
(* the replay of the records before it makes, and no other effect began    *)
(* for that record: losing a version conflict never runs an effect, and    *)
(* the retry never runs one again (handleEvent, startProcess).             *)
EffectsMatchHistory ==
  clears = 0 =>
    /\ \A i, j \in DOMAIN effects :
         effects[i].version = effects[j].version => i = j
    /\ \A i \in DOMAIN effects :
         /\ effects[i].version \in DOMAIN stream
         /\ LET v == effects[i].version
            IN  /\ stream[v].by = effects[i].by
                /\ stream[v].type = effects[i].type
                /\ v > 1 => effects[i].from = applyHistory(Prefix(stream, v - 1))

(* The initial effect runs at most once in each life of the stream, also   *)
(* when calls race with clearProcessState (startProcess).                  *)
InitialEffectOncePerLife ==
  Cardinality({i \in DOMAIN effects : effects[i].type = "ProcessStarted"}) <= clears + 1

(* Until it is cleared, what getProcessState answers moves as the process  *)
(* does: a step leaves the stream alone, or starts it in the initial       *)
(* state, or moves the state once, along the event of the one call that    *)
(* was about to append, which the process was waiting for.  So two calls   *)
(* never move it together, and a process that has succeeded or failed      *)
(* stays as it is (applyNewEvent, getProcessState).                        *)
MovesAsTheProcess ==
  [][clears' = 0 =>
       \/ stream' = stream
       \/ stream = << >> /\ getProcessState(stream') = Initial
       \/ \E c \in Calls :
            LET state == getProcessState(stream)
            IN  /\ pc[c] = "append" /\ pc'[c] # "append"
                /\ InProgress(state) /\ Move[<<state, event[c]>>] # Ignored
                /\ getProcessState(stream') = Move[<<state, event[c]>>]]_vars

(* What applyHistory expects of every stream it is given.                  *)
StreamStartsWithStarted ==
  stream # << >> => stream[1].type = "ProcessStarted"

(* Every call of handleEvent settles: the retries end, an effect that      *)
(* waits for the event it enqueued is not waited for by it (catchError,    *)
(* Mediator.send).                                                         *)
EveryCallSettles == \A c \in Calls : pc[c] = "exists" ~> pc[c] \in Settled
============================================================================
