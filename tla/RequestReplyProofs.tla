------------------------- MODULE RequestReplyProofs -------------------------
(***************************************************************************)
(* Theorems about RequestReply, for any number of calls, topics and ids.   *)
(***************************************************************************)
EXTENDS RequestReply, TLAPS

(* What each call knows of itself: an idle one has sent nothing, one that  *)
(* subscribes has nothing on the way, one that waits or was answered has a *)
(* command at the broker.                                                  *)
CallFacts ==
  \A r \in Requests :
    /\ pc[r] = "idle" =>
         /\ ctx[r] = NoId /\ r \notin commands
         /\ \A t \in Topics : subs[r][t] = "none"
    /\ pc[r] = "subscribing" => r \notin commands
    /\ (\E t \in Topics : subs[r][t] = "asked") => pc[r] \in {"subscribing", "failed"}
    /\ pc[r] \in {"waiting", "answered", "timedOut"} => r \in commands

(* Why an answer is the right one: it was sent in reply to a command that  *)
(* had arrived, and it carries the id of the call it resolved.             *)
ResultFacts ==
  \A r \in Requests : pc[r] = "answered" =>
    /\ result[r] \in InFlight
    /\ result[r].answers \in commands
    /\ correlationId(result[r].answers) = correlationId(r)

Closed ==
  \A r \in Requests : pc[r] \in {"answered", "timedOut"} =>
    \A t \in Topics : subs[r][t] = "released"

RequestInv == TypeOK /\ CallFacts /\ ResultFacts /\ Closed

LEMMA InitRequestInv == Init => RequestInv
  BY DEF Init, RequestInv, TypeOK, CallFacts, ResultFacts, Closed

(* Ids given by callers are not those made up for calls without one, so    *)
(* two calls have the same id only if their callers gave them the same.    *)
LEMMA SharedIdsAreGiven ==
  ASSUME RequestAssumption, TypeOK, NEW r \in Requests, NEW q \in Requests,
         correlationId(q) = correlationId(r), q # r
  PROVE  ctx[q] # NoId /\ ctx[q] = ctx[r]
  BY DEF RequestAssumption, TypeOK, correlationId

LEMMA TypeStep ==
  ASSUME RequestInv, [Next]_vars
  PROVE  TypeOK'
<1> USE DEF RequestInv, TypeOK, InFlight, Settled
<1>1. ASSUME NEW r \in Requests, NEW id \in Ids \cup {NoId}, Send(r, id)
      PROVE  TypeOK'
  BY <1>1 DEF Send
<1>2. ASSUME NEW r \in Requests, NEW t \in Topics, SubscriptionOpens(r, t)
      PROVE  TypeOK'
  BY <1>2 DEF SubscriptionOpens
<1>3. ASSUME NEW r \in Requests, NEW t \in Topics, SubscriptionRefused(r, t)
      PROVE  TypeOK'
  BY <1>3 DEF SubscriptionRefused
<1>4. ASSUME NEW r \in Requests, Publish(r)
      PROVE  TypeOK'
  BY <1>4 DEF Publish
<1>5. ASSUME NEW r \in Requests, CommandArrives(r)
      PROVE  TypeOK'
  BY <1>5 DEF CommandArrives
<1>6. ASSUME NEW r \in Requests, PublishReturns(r)
      PROVE  TypeOK'
  BY <1>6 DEF PublishReturns
<1>7. ASSUME NEW r \in Requests, PublishThrows(r)
      PROVE  TypeOK'
  BY <1>7 DEF PublishThrows
<1>8. ASSUME NEW r \in Requests, NEW t \in Topics, EventPublished(r, t)
      PROVE  TypeOK'
  BY <1>8 DEF EventPublished
<1>9. ASSUME NEW m \in network, EventHandled(m)
      PROVE  TypeOK'
  <2>1. m \in InFlight /\ m.to \in Requests
    OBVIOUS
  <2>2. CASE Matches(m)
    BY <1>9, <2>1, <2>2 DEF EventHandled, Settle
  <2>3. CASE ~Matches(m)
    BY <1>9, <2>3 DEF EventHandled
  <2> QED
    BY <2>2, <2>3
<1>10. ASSUME NEW r \in Requests, TimerFires(r)
       PROVE  TypeOK'
  <2>1. CASE pc[r] = "waiting"
    <3>1. /\ pc' = [pc EXCEPT ![r] = "timedOut"]
          /\ subs' = [subs EXCEPT ![r] = [t \in Topics |-> "released"]]
          /\ timers' = timers \ {r}
          /\ UNCHANGED <<ctx, commands, network, result>>
      BY <1>10, <2>1 DEF TimerFires, Settle
    <3>2. pc' \in [Requests -> {"idle", "subscribing", "publishing", "waiting"} \cup Settled]
      BY <3>1
    <3>3. subs' \in [Requests ->
                      [Topics -> {"none", "asked", "open", "refused", "released"}]]
      BY <3>1
    <3> QED
      BY <3>1, <3>2, <3>3
  <2>2. CASE pc[r] # "waiting"
    BY <1>10, <2>2 DEF TimerFires
  <2> QED
    BY <2>1, <2>2
<1>11. CASE UNCHANGED vars
  BY <1>11 DEF vars
<1> QED
  BY <1>1, <1>2, <1>3, <1>4, <1>5, <1>6, <1>7, <1>8, <1>9, <1>10, <1>11
  DEF Next, Answered

LEMMA CallStep ==
  ASSUME RequestInv, [Next]_vars
  PROVE  CallFacts' /\ Closed'
<1> USE DEF RequestInv, TypeOK, CallFacts, Closed, InFlight, Settled
<1>1. ASSUME NEW r \in Requests, NEW id \in Ids \cup {NoId}, Send(r, id)
      PROVE  CallFacts' /\ Closed'
  BY <1>1 DEF Send
<1>2. ASSUME NEW r \in Requests, NEW t \in Topics, SubscriptionOpens(r, t)
      PROVE  CallFacts' /\ Closed'
  BY <1>2 DEF SubscriptionOpens
<1>3. ASSUME NEW r \in Requests, NEW t \in Topics, SubscriptionRefused(r, t)
      PROVE  CallFacts' /\ Closed'
  BY <1>3 DEF SubscriptionRefused
<1>4. ASSUME NEW r \in Requests, Publish(r)
      PROVE  CallFacts' /\ Closed'
  BY <1>4 DEF Publish
<1>5. ASSUME NEW r \in Requests, CommandArrives(r)
      PROVE  CallFacts' /\ Closed'
  BY <1>5 DEF CommandArrives
<1>6. ASSUME NEW r \in Requests, PublishReturns(r)
      PROVE  CallFacts' /\ Closed'
  BY <1>6 DEF PublishReturns
<1>7. ASSUME NEW r \in Requests, PublishThrows(r)
      PROVE  CallFacts' /\ Closed'
  BY <1>7 DEF PublishThrows
<1>8. ASSUME NEW r \in Requests, NEW t \in Topics, EventPublished(r, t)
      PROVE  CallFacts' /\ Closed'
  BY <1>8 DEF EventPublished
<1>9. ASSUME NEW m \in network, EventHandled(m)
      PROVE  CallFacts' /\ Closed'
  <2>1. m.to \in Requests
    OBVIOUS
  <2>2. CASE Matches(m)
    BY <1>9, <2>1, <2>2 DEF EventHandled, Settle, Matches
  <2>3. CASE ~Matches(m)
    BY <1>9, <2>3 DEF EventHandled
  <2> QED
    BY <2>2, <2>3
<1>10. ASSUME NEW r \in Requests, TimerFires(r)
       PROVE  CallFacts' /\ Closed'
  <2>1. CASE pc[r] = "waiting"
    BY <1>10, <2>1 DEF TimerFires, Settle
  <2>2. CASE pc[r] # "waiting"
    BY <1>10, <2>2 DEF TimerFires
  <2> QED
    BY <2>1, <2>2
<1>11. CASE UNCHANGED vars
  BY <1>11 DEF vars
<1> QED
  BY <1>1, <1>2, <1>3, <1>4, <1>5, <1>6, <1>7, <1>8, <1>9, <1>10, <1>11
  DEF Next, Answered

(* What a settled call has is not touched by any step.                     *)
LEMMA SettledStep ==
  ASSUME RequestInv, [Next]_vars, NEW q \in Requests, pc[q] \in Settled
  PROVE  pc'[q] = pc[q] /\ result'[q] = result[q]
<1> USE DEF RequestInv, TypeOK, CallFacts, InFlight, Settled
<1>1. ASSUME NEW r \in Requests, NEW id \in Ids \cup {NoId}, Send(r, id)
      PROVE  pc'[q] = pc[q] /\ result'[q] = result[q]
  BY <1>1 DEF Send
<1>2. ASSUME NEW r \in Requests, NEW t \in Topics, SubscriptionRefused(r, t)
      PROVE  pc'[q] = pc[q] /\ result'[q] = result[q]
  <2>1. pc[r] \in {"subscribing", "failed"}
    BY <1>2 DEF SubscriptionRefused
  <2> QED
    BY <1>2, <2>1 DEF SubscriptionRefused
<1>3. ASSUME NEW r \in Requests,
             Publish(r) \/ PublishReturns(r) \/ PublishThrows(r)
      PROVE  pc'[q] = pc[q] /\ result'[q] = result[q]
  BY <1>3 DEF Publish, PublishReturns, PublishThrows
<1>4. ASSUME NEW m \in network, EventHandled(m)
      PROVE  pc'[q] = pc[q] /\ result'[q] = result[q]
  BY <1>4 DEF EventHandled, Settle, Matches
<1>5. ASSUME NEW r \in Requests, TimerFires(r)
      PROVE  pc'[q] = pc[q] /\ result'[q] = result[q]
  BY <1>5 DEF TimerFires, Settle
<1>6. ASSUME UNCHANGED <<pc, result>>
      PROVE  pc'[q] = pc[q] /\ result'[q] = result[q]
  BY <1>6
<1> QED
  BY <1>1, <1>2, <1>3, <1>4, <1>5, <1>6
  DEF Next, Answered, SubscriptionOpens, CommandArrives, EventPublished, vars

(* A call that is no longer idle keeps its id, and its command, once it    *)
(* has arrived, stays arrived.                                             *)
LEMMA IdsStay ==
  ASSUME RequestInv, [Next]_vars
  PROVE  /\ commands \subseteq commands'
         /\ \A q \in Requests : pc[q] # "idle" => ctx'[q] = ctx[q]
  BY DEF RequestInv, TypeOK, Next, Answered, vars, Send, SubscriptionOpens,
         SubscriptionRefused, Publish, CommandArrives, PublishReturns,
         PublishThrows, EventPublished, EventHandled, TimerFires, Settle

(* Only the handling of a matching event makes a call answered.            *)
LEMMA AnsweredStep ==
  ASSUME RequestInv, [Next]_vars, NEW q \in Requests,
         pc[q] # "answered", pc'[q] = "answered"
  PROVE  \E m \in network : /\ m.to = q /\ Matches(m)
                            /\ result'[q] = m
  BY DEF RequestInv, TypeOK, InFlight, Settled, Next, Answered, vars, Send,
         SubscriptionOpens, SubscriptionRefused, Publish, CommandArrives,
         PublishReturns, PublishThrows, EventPublished, EventHandled,
         TimerFires, Settle

LEMMA ResultStep ==
  ASSUME RequestInv, [Next]_vars
  PROVE  ResultFacts'
<1> USE DEF RequestInv
<1> SUFFICES ASSUME NEW q \in Requests, pc'[q] = "answered"
             PROVE  /\ result'[q] \in InFlight
                    /\ result'[q].answers \in commands'
                    /\ correlationId(result[q].answers)' = correlationId(q)'
  BY DEF ResultFacts
<1>1. ASSUME NEW p \in commands
      PROVE  p \in Requests /\ pc[p] # "idle" /\ ctx'[p] = ctx[p] /\ p \in commands'
  BY <1>1, IdsStay DEF TypeOK, CallFacts
<1>2. CASE pc[q] = "answered"
  <2>1. result'[q] = result[q] /\ ctx'[q] = ctx[q]
    BY <1>2, SettledStep, IdsStay DEF Settled
  <2>2. /\ result[q] \in InFlight
        /\ result[q].answers \in commands
        /\ correlationId(result[q].answers) = correlationId(q)
    BY <1>2 DEF ResultFacts
  <2> QED
    BY <1>1, <2>1, <2>2 DEF correlationId
<1>3. CASE pc[q] # "answered"
  <2>1. PICK m \in network : m.to = q /\ Matches(m) /\ result'[q] = m
    BY <1>3, AnsweredStep
  <2>2. m \in InFlight /\ m.answers \in commands
    BY DEF TypeOK, InFlight
  <2>3. correlationId(m.answers) = correlationId(q) /\ pc[q] = "waiting"
    BY <2>1 DEF Matches
  <2>4. ctx'[q] = ctx[q]
    BY <2>3, IdsStay
  <2> QED
    BY <1>1, <2>1, <2>2, <2>3, <2>4 DEF correlationId
<1> QED
  BY <1>2, <1>3

THEOREM RequestsSound == Spec => []RequestInv
<1>1. Init => RequestInv
  BY InitRequestInv
<1>2. RequestInv /\ [Next]_vars => RequestInv'
  BY TypeStep, CallStep, ResultStep DEF RequestInv
<1> QED
  BY <1>1, <1>2, PTL DEF Spec

(* Every variable keeps its type; in particular timers run and events are  *)
(* on their way only for commands that have arrived.                       *)
THEOREM RequestTypes == Spec => []TypeOK
<1>1. RequestInv => TypeOK
  BY DEF RequestInv
<1> QED
  BY <1>1, RequestsSound, PTL

(* A call resolves with the answer to its own command, unless another call *)
(* was given the same correlation id (the handler of                       *)
(* sendCommandAndReceiveEvent).                                            *)
THEOREM AnswersAreRight == Spec => []AnswersTheCommand
<1>1. RequestInv => AnswersTheCommand
  <2> SUFFICES ASSUME RequestInv, NEW r \in Requests, pc[r] = "answered"
               PROVE  /\ result[r].answers \in commands
                      /\ correlationId(result[r].answers) = correlationId(r)
                      /\ (\A q \in Requests \ {r} : ctx[q] = NoId \/ ctx[q] # ctx[r])
                           => result[r].answers = r
    BY DEF AnswersTheCommand
  <2>1. /\ result[r].answers \in commands
        /\ correlationId(result[r].answers) = correlationId(r)
    BY DEF RequestInv, ResultFacts
  <2>2. result[r].answers \in Requests
    BY <2>1 DEF RequestInv, TypeOK
  <2>3. result[r].answers # r =>
          ctx[result[r].answers] # NoId /\ ctx[result[r].answers] = ctx[r]
    BY <2>1, <2>2, SharedIdsAreGiven, RequestAssumption DEF RequestInv
  <2> QED
    BY <2>1, <2>2, <2>3
<1> QED
  BY <1>1, RequestsSound, PTL

(* A call that has waited leaves no subscription open, and its command had *)
(* arrived (the finally block).                                            *)
THEOREM WaitersLeaveNothing == Spec => []WaitersUnsubscribe
<1>1. RequestInv => WaitersUnsubscribe
  BY DEF RequestInv, CallFacts, Closed, WaitersUnsubscribe
<1> QED
  BY <1>1, RequestsSound, PTL

(* The first of answer, timer and failure decides a call for good.         *)
THEOREM DecidedOnce == Spec => FirstOneDecides
<1>1. RequestInv /\ [Next]_vars =>
        [\A r \in Requests : pc[r] \in Settled =>
           pc'[r] = pc[r] /\ result'[r] = result[r]]_vars
  BY SettledStep
<1> QED
  BY <1>1, RequestsSound, PTL DEF Spec, FirstOneDecides
============================================================================
