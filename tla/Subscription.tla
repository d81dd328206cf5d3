---------------------------- MODULE Subscription ----------------------------
(***************************************************************************)
(* One subscription of a transport and the messages that come to it: the   *)
(* subscribe and unsubscribe of the nats, jetstream and rusi transports.   *)
(* A message is handed to the handler, which is asynchronous and may       *)
(* throw; who acknowledges it, when, and how many handlers may run at once *)
(* depends on the transport and on the kind of subscription.               *)
(*                                                                         *)
(* The broker is external.  It delivers a message that is not settled, and *)
(* delivers it again when no acknowledgement came in time.  A message it   *)
(* will not deliver (again) is settled: acknowledged, or sent to a         *)
(* subscription without acknowledgement, or missed by one that only gets   *)
(* new messages.  Queue groups, which choose one of several nodes, are the *)
(* broker's too.                                                           *)
(*                                                                         *)
(* The subscription uses connection `on` of TransportConnection.  Bounds:  *)
(* Messages, MaxConcurrent handlers, and MaxFaults handlers that throw or  *)
(* deliveries that are repeated though the first is still being handled.   *)
(***************************************************************************)
EXTENDS TransportConnection, SequencesExt

CONSTANTS Messages, Kinds, MaxConcurrent, MaxFaults

ASSUME SubscriptionAssumption ==
  /\ Kinds \subseteq {"STREAM_PROCESSOR", "PUB_SUB", "RPC"}
  /\ MaxConcurrent \in Nat \ {0} /\ MaxFaults \in Nat

VARIABLES
  kind,       \* the SubscriptionOptions
  sub,        \* "none", "open", "refused", "closing" or "closed"
  on,         \* the connection it was made with
  published,  \* what others have published to the topic
  settled,    \* what the broker will not deliver (again)
  pending,    \* delivered, and the broker waits for an acknowledgement
  buffer,     \* jetstream: delivered, waiting for a slot
  running,    \* how many handlers are running on each message
  slots,      \* jetstream: the semaphore
  started,    \* the messages a handler was ever called with
  handled,    \* those of which a handler has returned
  faults

nodeVars == <<sub, on, buffer, running, slots>>
brokerVars == <<published, settled, pending>>
historyVars == <<started, handled, faults>>
subscriptionVars == <<kind, nodeVars, brokerVars, historyVars>>

SubscriptionInit ==
  /\ kind \in Kinds
  /\ sub = "none" /\ on = None /\ buffer = << >>
  /\ running = [m \in Messages |-> 0]
  /\ slots = MaxConcurrent
  /\ published = {} /\ settled = {} /\ pending = {}
  /\ started = {} /\ handled = {}
  /\ faults = 0

-----------------------------------------------------------------------------
(* Which subscriptions are durable and get every message there is, and     *)
(* which only those published while they are there.                        *)
Durable == kind = "STREAM_PROCESSOR"

(* setManualAckMode; the other kinds are acknowledged by the library.      *)
NatsAcks == kind = "STREAM_PROCESSOR"

(* AckPolicy.Explicit; the other kinds leave the policy at the server's    *)
(* default, which is not to ask for acknowledgements.                      *)
JetstreamAcks == kind = "STREAM_PROCESSOR"

(* Mutant: rusi's habit of acknowledging every kind, without a condition.  *)
AcksAfterHandlerAlways == TRUE

(* Whether the transport acknowledges when the handler has returned.       *)
AcksAfterHandler ==
  CASE transport = "nats" -> NatsAcks
    [] transport = "jetstream" -> JetstreamAcks
    [] transport = "rusi" -> TRUE

Listening == sub = "open" /\ on \in open

SubscribeOpens ==
  /\ sub = "none" /\ on \in open
  /\ sub' = "open"
  /\ slots' = MaxConcurrent
  /\ UNCHANGED <<kind, on, buffer, running, brokerVars, historyVars>>

SubscribeRefused ==
  /\ sub = "none" /\ on # None
  /\ sub' = "refused"
  /\ UNCHANGED <<kind, on, buffer, running, slots, brokerVars, historyVars>>

Publish(m) ==
  /\ m \notin published
  /\ published' = published \cup {m}
  /\ settled' = IF Durable \/ Listening THEN settled ELSE settled \cup {m}
  /\ UNCHANGED <<kind, nodeVars, pending, historyVars>>

Undelivered(m) == Listening /\ m \in published \ (settled \cup pending)

AtBroker(m) ==
  IF AcksAfterHandler THEN /\ pending' = pending \cup {m}
                           /\ UNCHANGED <<published, settled>>
                      ELSE /\ settled' = settled \cup {m}
                           /\ UNCHANGED <<published, pending>>

(* nats and rusi call the handler as a message comes; the broker keeps to  *)
(* the limit it was given (MaxInFlight, maxConcurrentMessages).            *)
Deliver(m) ==
  /\ transport # "jetstream"
  /\ Undelivered(m)
  /\ Cardinality(pending) < MaxConcurrent
  /\ AtBroker(m)
  /\ running' = [running EXCEPT ![m] = @ + 1]
  /\ started' = started \cup {m}
  /\ UNCHANGED <<kind, sub, on, buffer, slots, handled, faults>>

(* jetstream's iterator fetches up to max_messages ...                     *)
Fetch(m) ==
  /\ transport = "jetstream"
  /\ Undelivered(m)
  /\ Len(buffer) < MaxConcurrent
  /\ AtBroker(m)
  /\ buffer' = Append(buffer, m)
  /\ UNCHANGED <<kind, sub, on, running, slots, historyVars>>

(* Mutant: the loop does not wait for a slot.                              *)
HandlerStartsUnlimited ==
  /\ buffer # << >>
  /\ buffer' = Tail(buffer)
  /\ running' = [running EXCEPT ![Head(buffer)] = @ + 1]
  /\ started' = started \cup {Head(buffer)}
  /\ UNCHANGED <<kind, sub, on, slots, brokerVars, handled, faults>>

(* ... and the loop takes the next one as soon as it has a slot for it.    *)
HandlerStarts ==
  /\ buffer # << >> /\ slots > 0
  /\ buffer' = Tail(buffer)
  /\ slots' = slots - 1
  /\ running' = [running EXCEPT ![Head(buffer)] = @ + 1]
  /\ started' = started \cup {Head(buffer)}
  /\ UNCHANGED <<kind, sub, on, brokerVars, handled, faults>>

Ends(m) ==
  /\ running[m] > 0
  /\ running' = [running EXCEPT ![m] = @ - 1]
  /\ slots' = IF transport = "jetstream" THEN slots + 1 ELSE slots

(* An acknowledgement goes out on the subscription's connection; rusi's on *)
(* the subscription's own stream.                                          *)
AckArrives == on \in open /\ (transport = "rusi" => sub = "open")

Acknowledge(m) ==
  IF AcksAfterHandler /\ AckArrives
    THEN settled' = settled \cup {m} /\ pending' = pending \ {m}
    ELSE UNCHANGED <<settled, pending>>

HandlerReturns(m) ==
  /\ faults' = faults
  /\ Ends(m)
  /\ handled' = handled \cup {m}
  /\ Acknowledge(m)
  /\ UNCHANGED <<kind, sub, on, buffer, published, started>>

(* Mutant: the acknowledgement in a finally.                               *)
HandlerThrowsAcked(m) ==
  /\ faults < MaxFaults /\ faults' = faults + 1
  /\ Ends(m)
  /\ Acknowledge(m)
  /\ UNCHANGED <<kind, sub, on, buffer, published, started, handled>>

(* Nothing awaits the handler's promise: its rejection is unhandled.       *)
HandlerThrows(m) ==
  /\ faults < MaxFaults /\ faults' = faults + 1
  /\ Ends(m)
  /\ UNCHANGED <<kind, sub, on, buffer, brokerVars, started, handled>>

(* No acknowledgement came in time, nor will one.                          *)
AckWaitEnds(m) ==
  /\ m \in pending /\ running[m] = 0 /\ ~Contains(buffer, m)
  /\ pending' = pending \ {m}
  /\ UNCHANGED <<kind, nodeVars, published, settled, historyVars>>

(* It did not come in time, but the message is still being handled.        *)
RepeatsEarly(m) ==
  /\ m \in pending /\ (running[m] > 0 \/ Contains(buffer, m))
  /\ faults < MaxFaults /\ faults' = faults + 1
  /\ pending' = pending \ {m}
  /\ UNCHANGED <<kind, nodeVars, published, settled, started, handled>>

(* rusi's stream ends; nobody subscribes again.                            *)
StreamEnds ==
  /\ transport = "rusi" /\ sub = "open"
  /\ sub' = "closed"
  /\ UNCHANGED <<kind, on, buffer, running, slots, brokerVars, historyVars>>

Unsubscribe ==
  /\ sub = "open"
  /\ sub' = IF transport = "rusi" THEN "closed" ELSE "closing"
  /\ UNCHANGED <<kind, on, buffer, running, slots, brokerVars, historyVars>>

(* messages.close() of jetstream, the closed event of nats.                *)
Unsubscribed ==
  /\ sub = "closing" /\ (transport = "nats" => on \in open)
  /\ sub' = "closed"
  /\ UNCHANGED <<kind, on, buffer, running, slots, brokerVars, historyVars>>

(* nats gives up waiting after five seconds, and resolves all the same.    *)
UnsubscribeTimesOut ==
  /\ transport = "nats" /\ sub = "closing"
  /\ sub' = "closed"
  /\ UNCHANGED <<kind, on, buffer, running, slots, brokerVars, historyVars>>

(* What the broker does when the node is gone.                             *)
Missed == IF Durable THEN settled ELSE published

-----------------------------------------------------------------------------
(* With a STREAM_PROCESSOR, a message is not forgotten before a handler    *)
(* has returned: not when handlers throw, run twice on one message, or     *)
(* outlive the subscription or the process.  (Other subscriptions do       *)
(* without the messages that come while nobody listens, over rusi too.)    *)
AckedMeansHandled == Durable => settled \subseteq handled

(* PUB_SUB and RPC over nats and jetstream: no message is handled twice.   *)
AtMostOnce ==
  [][~Durable /\ transport # "rusi" =>
       \A m \in started : running'[m] <= running[m]]_<<kind, transport, running, started>>

(* The handlers that run: the first, second, ... on each message.          *)
Handlers == UNION {{m} \X (1 .. running[m]) : m \in Messages}

(* jetstream: whatever is delivered again, and whether handlers return or  *)
(* throw, a slot is taken for each handler that runs, and for no other.    *)
SlotsMatchHandlers ==
  transport = "jetstream" => slots + Cardinality(Handlers) = MaxConcurrent
=============================================================================
