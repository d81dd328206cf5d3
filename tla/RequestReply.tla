---------------------------- MODULE RequestReply ----------------------------
(***************************************************************************)
(* Request/response over the message bus: sendCommandAndReceiveEvent of    *)
(* messageBus.ts.  A call subscribes to the events that may answer its     *)
(* command, publishes the command, and then waits for the first event with *)
(* its correlation id or for a timer.  Every transport operation is        *)
(* awaited, so calls interleave, and events arrive at any time from the    *)
(* moment a subscription is open.  The pc of a call:                       *)
(*                                                                         *)
(*   idle         not made yet         waiting    resolver and timer armed *)
(*   subscribing  awaits Promise.all   answered   resolved with an event   *)
(*   publishing   awaits publish       timedOut, failed      rejected      *)
(*                                                                         *)
(* The broker and the service that handles the commands are external: an   *)
(* RPC subscription is at-most-once and has no queue group, so an event    *)
(* goes to any of the subscriptions open when it is published; a command   *)
(* may be handled more than once.                                          *)
(***************************************************************************)
EXTENDS FiniteSets

CONSTANTS
  Requests,   \* the calls of sendCommandAndReceiveEvent
  Topics,     \* the event topics each of them names
  Ids,        \* correlation ids a caller's context may carry
  NoId,       \* a context without one
  NoAnswer

ASSUME RequestAssumption ==
  /\ Topics # {}
  /\ NoId \notin Ids
  /\ Ids \cap Requests = {}
  /\ NoAnswer \notin [to : Requests, topic : Topics, answers : Requests]

VARIABLES
  pc,        \* where each call is
  ctx,       \* the correlation id in the caller's context
  subs,      \* its subscription to each topic
  commands,  \* the calls whose command has reached the broker
  network,   \* the events on their way to a subscription
  timers,    \* the calls whose timer is set
  result     \* the event each call was resolved with

vars == <<pc, ctx, subs, commands, network, timers, result>>

Settled == {"answered", "timedOut", "failed"}
InFlight == [to : Requests, topic : Topics, answers : Requests]

(* The correlation id of the command of r: the caller's, or else a new     *)
(* uuid, which is as good as the call's own name.                          *)
correlationId(r) == IF ctx[r] = NoId THEN r ELSE ctx[r]

Init ==
  /\ pc = [r \in Requests |-> "idle"]
  /\ ctx = [r \in Requests |-> NoId]
  /\ subs = [r \in Requests |-> [t \in Topics |-> "none"]]
  /\ commands = {}
  /\ network = {}
  /\ timers = {}
  /\ result = [r \in Requests |-> NoAnswer]

Send(r, id) ==
  /\ pc[r] = "idle"
  /\ pc' = [pc EXCEPT ![r] = "subscribing"]
  /\ ctx' = [ctx EXCEPT ![r] = id]
  /\ subs' = [subs EXCEPT ![r] = [t \in Topics |-> "asked"]]
  /\ UNCHANGED <<commands, network, timers, result>>

(* A subscription that opens after Promise.all was rejected stays open:    *)
(* nothing holds it any more.                                              *)
SubscriptionOpens(r, t) ==
  /\ subs[r][t] = "asked"
  /\ subs' = [subs EXCEPT ![r][t] = "open"]
  /\ UNCHANGED <<pc, ctx, commands, network, timers, result>>

SubscriptionRefused(r, t) ==
  /\ subs[r][t] = "asked"
  /\ subs' = [subs EXCEPT ![r][t] = "refused"]
  /\ pc' = [pc EXCEPT ![r] = "failed"]
  /\ UNCHANGED <<ctx, commands, network, timers, result>>

Publish(r) ==
  /\ pc[r] = "subscribing"
  /\ \A t \in Topics : subs[r][t] = "open"
  /\ pc' = [pc EXCEPT ![r] = "publishing"]
  /\ UNCHANGED <<ctx, subs, commands, network, timers, result>>

CommandArrives(r) ==
  /\ pc[r] = "publishing"
  /\ commands' = commands \cup {r}
  /\ UNCHANGED <<pc, ctx, subs, network, timers, result>>

(* publish returns: publishedMsg and the resolver are set, the timer runs. *)
PublishReturns(r) ==
  /\ pc[r] = "publishing"
  /\ r \in commands
  /\ pc' = [pc EXCEPT ![r] = "waiting"]
  /\ timers' = timers \cup {r}
  /\ UNCHANGED <<ctx, subs, commands, network, result>>

(* publish throws, whether the command has arrived or not; this is before  *)
(* the try, so no subscription is given back.                              *)
PublishThrows(r) ==
  /\ pc[r] = "publishing"
  /\ pc' = [pc EXCEPT ![r] = "failed"]
  /\ UNCHANGED <<ctx, subs, commands, network, timers, result>>

(* External: the service handles the command of r and publishes an event   *)
(* with its correlation id on t.  It reaches the subscriptions in got; the *)
(* unsubscribe of a released one is not awaited, and may fail.             *)
EventPublished(r, t) ==
  /\ r \in commands
  /\ \E got \in SUBSET {q \in Requests : subs[q][t] \in {"open", "released"}} :
       network' = network \cup {[to |-> q, topic |-> t, answers |-> r] : q \in got}
  /\ UNCHANGED <<pc, ctx, subs, commands, timers, result>>

\* Mutants: only an answer gives the subscriptions back; every event answers.
SettleUnlessTimeout(r, how) ==
  /\ pc' = [pc EXCEPT ![r] = how]
  /\ subs' = IF how = "answered" THEN [subs EXCEPT ![r] = [t \in Topics |-> "released"]]
                                 ELSE subs
AnyEventMatches(m) == pc[m.to] = "waiting"

(* The promise settles, and the finally block unsubscribes from all,       *)
(* without waiting for it.                                                 *)
Settle(r, how) ==
  /\ pc' = [pc EXCEPT ![r] = how]
  /\ subs' = [subs EXCEPT ![r] = [t \in Topics |-> "released"]]

(* The handler ignores events until publish has returned; after the        *)
(* promise has settled its resolver does nothing.                          *)
Matches(m) ==
  /\ pc[m.to] = "waiting"
  /\ correlationId(m.answers) = correlationId(m.to)

EventHandled(m) ==
  /\ network' = network \ {m}
  /\ IF Matches(m)
     THEN /\ Settle(m.to, "answered")
          /\ result' = [result EXCEPT ![m.to] = m]
     ELSE UNCHANGED <<pc, subs, result>>
  /\ UNCHANGED <<ctx, commands, timers>>

\* Mutants: the timer rejects a settled call as well; it never rejects.
TimerFiresAnyway(r) ==
  /\ r \in timers
  /\ timers' = timers \ {r}
  /\ Settle(r, "timedOut")
  /\ UNCHANGED <<ctx, commands, network, result>>
TimerFiresInVain(r) ==
  /\ r \in timers
  /\ timers' = timers \ {r}
  /\ UNCHANGED <<pc, ctx, subs, commands, network, result>>

(* The timer is never cleared; it rejects only a promise still pending.    *)
TimerFires(r) ==
  /\ r \in timers
  /\ timers' = timers \ {r}
  /\ IF pc[r] = "waiting" THEN Settle(r, "timedOut") ELSE UNCHANGED <<pc, subs>>
  /\ UNCHANGED <<ctx, commands, network, result>>

(* The transport answers every subscribe, and every publish; the process   *)
(* runs its callbacks and timers.                                          *)
Answered(r) ==
  \/ \E t \in Topics : SubscriptionOpens(r, t) \/ SubscriptionRefused(r, t)
  \/ Publish(r)
  \/ PublishReturns(r) \/ PublishThrows(r)
  \/ TimerFires(r)

Next ==
  \/ \E r \in Requests :
       \/ \E id \in Ids \cup {NoId} : Send(r, id)
       \/ CommandArrives(r)
       \/ Answered(r)
       \/ \E t \in Topics : EventPublished(r, t)
  \/ \E m \in network : EventHandled(m)

Spec == Init /\ [][Next]_vars
FairSpec == Spec /\ \A r \in Requests : WF_vars(Answered(r))

----------------------------------------------------------------------------
TypeOK ==
  /\ pc \in [Requests -> {"idle", "subscribing", "publishing", "waiting"} \cup Settled]
  /\ ctx \in [Requests -> Ids \cup {NoId}]
  /\ subs \in [Requests -> [Topics -> {"none", "asked", "open", "refused", "released"}]]
  /\ commands \subseteq Requests
  /\ network \subseteq [to : Requests, topic : Topics, answers : commands]
  /\ timers \subseteq commands
  /\ result \in [Requests -> InFlight \cup {NoAnswer}]

(* A call resolves with an event that answers a command which had arrived  *)
(* and carries its correlation id: its own command, unless another call    *)
(* was made with the same id (the handler in sendCommandAndReceiveEvent).  *)
AnswersTheCommand ==
  \A r \in Requests : pc[r] = "answered" =>
    /\ result[r].answers \in commands
    /\ correlationId(result[r].answers) = correlationId(r)
    /\ (\A q \in Requests \ {r} : ctx[q] = NoId \/ ctx[q] # ctx[r])
         => result[r].answers = r

(* The timer and the answers race, and answers may come twice: whichever   *)
(* comes first decides the call, and nothing decides it again.             *)
FirstOneDecides ==
  [][\A r \in Requests : pc[r] \in Settled =>
       pc'[r] = pc[r] /\ result'[r] = result[r]]_vars

(* A call that waited for its answer has released all its subscriptions,   *)
(* and its command had arrived before it waited (the finally block).       *)
WaitersUnsubscribe ==
  \A r \in Requests : pc[r] \in {"answered", "timedOut"} =>
    /\ r \in commands
    /\ \A t \in Topics : subs[r][t] = "released"

(* Every call of sendCommandAndReceiveEvent settles, answered or not.      *)
EveryRequestSettles ==
  \A r \in Requests : pc[r] = "subscribing" ~> pc[r] \in Settled
============================================================================
