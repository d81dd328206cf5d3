---------------------------- MODULE MessagingNode ----------------------------
(***************************************************************************)
(* A Node.js process that subscribes to a topic, with the parts of the     *)
(* toolkit it is built from: the connection of the transport, the          *)
(* subscription made with it, the encoding of the messages, and graceful   *)
(* shutdown.  They meet                                                    *)
(*   - in the subscribing call, whose connection the subscription uses;    *)
(*   - in the connection: disconnect, and a lost connection, silence the   *)
(*     subscription and drop its acknowledgements;                         *)
(*   - in a handler that throws: its rejection is unhandled, which shuts   *)
(*     the process down;                                                   *)
(*   - in an open connection, which keeps the process alive after          *)
(*     onShutdown, until the timer ends it.                                *)
(* A process that has ended is started again, at most MaxLives - 1 times.  *)
(***************************************************************************)
EXTENDS Subscription, GracefulShutdown, RusiEncoding

CONSTANTS
  Subscriber,   \* the call of subscribe among the Users
  Text,         \* what each message says
  MaxLives

ASSUME NodeAssumption == Subscriber \in Users /\ MaxLives \in Nat \ {0}
ASSUME TextAssumption == \A m \in Messages : Text[m] \in Seq(Unit) /\ WellFormed(Text[m])

VARIABLE lives

vars == <<connectionVars, subscriptionVars, shutdownVars, lives>>

Init ==
  /\ ConnectionInit /\ SubscriptionInit /\ ShutdownInit
  /\ lives = 1

-----------------------------------------------------------------------------
(* The subscribing call goes on with the connection it was given.          *)
Elsewhere ==
  /\ on' = IF pc'[Subscriber] = "done" /\ pc[Subscriber] # "done" THEN connection' ELSE on
  /\ UNCHANGED <<transport, kind, sub, buffer, running, slots, brokerVars, historyVars>>
  /\ UNCHANGED <<shutdownVars, lives>>

Asks == up /\ (CallBegins \/ ConnectionLost) /\ Elsewhere
Answers == up /\ CallGoesOn /\ Elsewhere

Aside == UNCHANGED <<connectionVars, shutdownVars, lives>>

Subscribes ==
  up /\ (SubscribeOpens \/ SubscribeRefused \/ StreamEnds \/ Unsubscribe) /\ Aside
Unsubscribes == up /\ (Unsubscribed \/ UnsubscribeTimesOut) /\ Aside

Delivers(m) == up /\ (Deliver(m) \/ Fetch(m)) /\ Aside
Starts == up /\ HandlerStarts /\ Aside
Handles(m) == up /\ HandlerReturns(m) /\ Aside

HandlerRejects ==
  /\ \E m \in Messages : HandlerThrows(m)
  /\ Event
  /\ UNCHANGED <<connectionVars, lives>>

Publishes == \E m \in Messages : (Publish(m) \/ RepeatsEarly(m)) /\ Aside
Repeats(m) == AckWaitEnds(m) /\ Aside

ShutdownBegins ==
  /\ \/ Event
     \/ \E r \in 1..Registrations : Manual(r) \/ HookReturns(r)
  /\ UNCHANGED <<connectionVars, subscriptionVars, lives>>

(* What the process held is gone; what the broker holds stays.             *)
ProcessGone ==
  /\ pc' = [c \in Calls |-> "idle"]
  /\ mutex' = << >> /\ connection' = None /\ open' = {} /\ made' = 0
  /\ sub' = "none" /\ on' = None /\ buffer' = << >>
  /\ running' = [m \in Messages |-> 0]
  /\ slots' = MaxConcurrent
  /\ settled' = Missed
  /\ UNCHANGED <<transport, kind, published, pending, historyVars, lives>>

KeepsProcessBusy ==
  \/ open # {}
  \/ \E m \in Messages : running[m] > 0
  \/ \E c \in Calls : pc[c] \in {"opening", "closing"}

HookFails == (\E r \in 1..Registrations : HookThrows(r)) /\ ProcessGone
Exits == (TimerFires \/ Drains(~KeepsProcessBusy)) /\ ProcessGone

Restart ==
  /\ ~up /\ lives < MaxLives
  /\ lives' = lives + 1
  /\ up' = TRUE /\ isShuttingDown' = FALSE /\ timer' = FALSE
  /\ hook' = [r \in 1..Registrations |-> "idle"]
  /\ UNCHANGED <<connectionVars, subscriptionVars>>

Next ==
  \/ Asks \/ Answers
  \/ Subscribes \/ Unsubscribes
  \/ \E m \in Messages : Delivers(m) \/ Handles(m) \/ Repeats(m)
  \/ Starts \/ HandlerRejects \/ Publishes
  \/ ShutdownBegins \/ HookFails \/ Exits \/ Restart

(* The transport answers what it is asked, the broker delivers and does    *)
(* not wait for acknowledgements longer than configured, handlers end,     *)
(* timers fire.  Nothing makes anyone call, publish or send a signal;      *)
(* onShutdown may hang, connections and streams may be lost.               *)
Fairness ==
  /\ WF_vars(Answers) /\ WF_vars(Unsubscribes) /\ WF_vars(Starts) /\ WF_vars(Exits)
  /\ \A m \in Messages : WF_vars(Delivers(m)) /\ WF_vars(Handles(m)) /\ WF_vars(Repeats(m))

Spec == Init /\ [][Next]_vars /\ Fairness

-----------------------------------------------------------------------------
(* At least once: a message on a STREAM_PROCESSOR topic is handled, also   *)
(* when handlers throw and the process that was handling it dies, as long  *)
(* as a node goes on listening.                                            *)
EveryMessageHandled ==
  \A m \in Messages :
    Durable /\ m \in published ~> m \in handled \/ ~(Listening /\ up)

(* The bus hands the handler the very text that was published.             *)
DeliveredIntact ==
  \A m \in started :
    transport = "rusi" => fromUTF8Array(toUTF8Array(Text[m])) = Text[m]
=============================================================================
