------------------------ MODULE MessagingNodeProofs ------------------------
(***************************************************************************)
(* Theorems about MessagingNode and the modules it is made of, for any     *)
(* number of calls, messages, handlers, registrations and restarts, every  *)
(* transport and every kind of subscription: TransportConnection on its    *)
(* own, the same connection in a node, Subscription and GracefulShutdown   *)
(* in a node, and the characters of RusiEncoding.                          *)
(***************************************************************************)
EXTENDS MessagingNode, FiniteSetTheorems, SequenceTheorems, TLAPS

-----------------------------------------------------------------------------
(* TransportConnection: for any number of calls and any of the three       *)
(* transports, never two open connections.                                 *)

(* The calls that are inside the mutex's protection hold it ...            *)
Protected ==
  \A c \in Calls : pc[c] \in {"opening", "closing"} => mutex # << >> /\ Head(mutex) = c

(* ... one that opens a connection has seen that none is open, one that    *)
(* closes it has seen to that, and nobody else can open one meanwhile.     *)
NoneOpenInside == \A c \in Calls : pc[c] \in {"opening", "closing"} => open = {}

ConnectionInv ==
  /\ ConnectionTypeOK
  /\ Protected
  /\ NoneOpenInside
  /\ AtMostOneConnection

-----------------------------------------------------------------------------
(* What the mutex holds after a call has left it, or has come to it.       *)
LEMMA MutexAfterRelease ==
  ASSUME mutex \in Seq(Calls), mutex # << >>
  PROVE  Tail(mutex) \in Seq(Calls)
  OBVIOUS

LEMMA MutexAfterAcquire ==
  ASSUME mutex \in Seq(Calls), NEW c \in Calls
  PROVE  /\ Append(mutex, c) \in Seq(Calls)
         /\ Append(mutex, c) # << >>
         /\ mutex # << >> => Head(Append(mutex, c)) = Head(mutex)
<1>1. Len(Append(mutex, c)) = Len(mutex) + 1 /\ Len(mutex) \in Nat
  OBVIOUS
<1>2. Append(mutex, c) \in Seq(Calls) /\ Append(mutex, c) # << >>
  BY <1>1
<1>3. ASSUME mutex # << >>
      PROVE  Head(Append(mutex, c)) = Head(mutex)
  BY <1>3, <1>1
<1> QED
  BY <1>2, <1>3

(* Every step of every call keeps the invariant.                           *)
LEMMA InvKept ==
  ASSUME ConnectionInv, [ConnectionNext]_connectionVars
  PROVE  ConnectionInv'
<1> USE DEF ConnectionInv, ConnectionTypeOK, Protected, NoneOpenInside,
            AtMostOneConnection, None, Transports, Becomes, Release
<1>1. ASSUME NEW c \in Calls, pc[c] = "idle", Becomes(c, "acquire"),
             mutex' = Append(mutex, c), UNCHANGED <<transport, connection, open, made>>
      PROVE  ConnectionInv'
  BY <1>1, MutexAfterAcquire
<1>2. ASSUME NEW c \in Calls, pc[c] = "idle", Becomes(c, "done"),
             UNCHANGED <<transport, mutex, connection, open, made>>
      PROVE  ConnectionInv'
  BY <1>2
<1>3. ASSUME NEW c \in Calls, ItsTurn(c), Becomes(c, "done"), Release,
             UNCHANGED <<transport, connection, open, made>>
      PROVE  ConnectionInv'
  BY <1>3, MutexAfterRelease DEF ItsTurn
<1>4. ASSUME NEW c \in Users, ConnectOpens(c), UNCHANGED transport
      PROVE  ConnectionInv'
  <2>1. c \in Calls /\ open = {}
    BY <1>4 DEF ConnectOpens, ItsTurn, Usable, Calls
  <2> QED
    BY <1>4, <2>1 DEF ConnectOpens, ItsTurn
<1>5. ASSUME NEW c \in Users, Opened(c), UNCHANGED transport
      PROVE  ConnectionInv'
  <2>1. c \in Calls /\ open = {} /\ mutex # << >> /\ Head(mutex) = c
    BY <1>5 DEF Opened, Calls
  <2>2. \A d \in Calls : pc'[d] \notin {"opening", "closing"}
    BY <1>5, <2>1 DEF Opened
  <2>3. ConnectionTypeOK'
    BY <1>5, <2>1, MutexAfterRelease DEF Opened
  <2> QED
    BY <1>5, <2>1, <2>2, <2>3 DEF Opened
<1>6. ASSUME NEW c \in Users, OpenFails(c), UNCHANGED transport
      PROVE  ConnectionInv'
  BY <1>6, MutexAfterRelease DEF OpenFails, Calls
<1>7. ASSUME NEW c \in Closers, Disconnects(c), UNCHANGED transport
      PROVE  ConnectionInv'
  BY <1>7, MutexAfterRelease DEF Disconnects, ItsTurn, Calls
<1>8. ASSUME NEW c \in Closers, BeginsClose(c), UNCHANGED transport
      PROVE  ConnectionInv'
  BY <1>8 DEF BeginsClose, ItsTurn, Calls
<1>9. ASSUME NEW c \in Closers, EndsClose(c), UNCHANGED transport
      PROVE  ConnectionInv'
  <2>1. c \in Calls /\ open = {} /\ mutex # << >> /\ Head(mutex) = c
    BY <1>9 DEF EndsClose, Calls
  <2> QED
    BY <1>9, <2>1, MutexAfterRelease DEF EndsClose
<1>10. CASE ConnectionLost /\ UNCHANGED transport
  BY <1>10 DEF ConnectionLost
<1>11. CASE UNCHANGED connectionVars
  BY <1>11 DEF connectionVars
<1>12. CASE CallBegins /\ UNCHANGED transport
  BY <1>12, <1>1, <1>2 DEF CallBegins, ConnectBegins, DisconnectBegins, ConnectFast,
     ConnectAcquires, DisconnectFast, DisconnectAcquires, Calls
<1>13. CASE CallGoesOn /\ UNCHANGED transport
  BY <1>13, <1>3, <1>4, <1>5, <1>6, <1>7, <1>8, <1>9 DEF CallGoesOn, ConnectGoesOn,
     DisconnectGoesOn, ConnectRechecks, DisconnectRechecks, Calls
<1> QED
  BY <1>10, <1>11, <1>12, <1>13 DEF ConnectionNext

(* However many calls of connect, publish, subscribe and disconnect race,  *)
(* and whenever connections are lost, at most one connection is open, and  *)
(* it is the one the module keeps.                                         *)
THEOREM OneConnection == ConnectionSpec => []AtMostOneConnection
<1>1. ConnectionInit => ConnectionInv
  BY DEF ConnectionInit, ConnectionInv, ConnectionTypeOK, Protected, NoneOpenInside,
         AtMostOneConnection, None
<1>2. ConnectionInv /\ [ConnectionNext]_connectionVars => ConnectionInv'
  BY InvKept
<1>3. ConnectionInv => AtMostOneConnection
  BY DEF ConnectionInv
<1> QED
  BY <1>1, <1>2, <1>3, PTL DEF ConnectionSpec

-----------------------------------------------------------------------------
(* The connection in a node, with lost connections and restarts.           *)

(* A gRPC channel is not lost: what rusi keeps is open.                    *)
KeptIsOpen == transport = "rusi" /\ connection # None => connection \in open

LEMMA KeptIsOpenStep ==
  ASSUME ConnectionTypeOK, KeptIsOpen, [ConnectionNext]_connectionVars
  PROVE  KeptIsOpen'
<1> USE DEF KeptIsOpen, ConnectionTypeOK, None
<1>1. CASE CallBegins /\ UNCHANGED transport
  BY <1>1 DEF CallBegins, ConnectBegins, DisconnectBegins, ConnectFast,
     ConnectAcquires, DisconnectFast, DisconnectAcquires
<1>2. CASE CallGoesOn /\ UNCHANGED transport
  BY <1>2 DEF CallGoesOn, ConnectGoesOn, DisconnectGoesOn, ConnectRechecks, ConnectOpens,
     Opened, OpenFails, DisconnectRechecks, Disconnects, BeginsClose, EndsClose
<1>3. CASE ConnectionLost /\ UNCHANGED transport
  BY <1>3 DEF ConnectionLost
<1>4. CASE UNCHANGED connectionVars
  BY <1>4 DEF connectionVars
<1> QED
  BY <1>1, <1>2, <1>3, <1>4 DEF ConnectionNext

(* What the other parts of the process do to the connection: nothing, or   *)
(* they end the process.                                                   *)
LEMMA NodeStepForConnection ==
  ASSUME [Next]_vars
  PROVE  \/ ConnectionNext
         \/ UNCHANGED connectionVars
         \/ ProcessGone
BY DEF Next, vars, ConnectionNext, Asks, Answers, Elsewhere, Subscribes, Unsubscribes,
       Delivers, Starts, Handles, HandlerRejects, Publishes, Repeats, ShutdownBegins,
       HookFails, Exits, Restart, Aside, connectionVars

NodeConnectionInv == ConnectionInv /\ KeptIsOpen

LEMMA NodeConnectionInit == Init => NodeConnectionInv
BY DEF Init, ConnectionInit, NodeConnectionInv, ConnectionInv, ConnectionTypeOK,
       Protected, NoneOpenInside, AtMostOneConnection, KeptIsOpen, None

LEMMA NodeConnectionStep == NodeConnectionInv /\ [Next]_vars => NodeConnectionInv'
<1> SUFFICES ASSUME NodeConnectionInv, [Next]_vars
             PROVE  NodeConnectionInv'
  OBVIOUS
<1>1. CASE ConnectionNext \/ UNCHANGED connectionVars
  BY <1>1, InvKept, KeptIsOpenStep DEF NodeConnectionInv, ConnectionInv
<1>2. CASE ProcessGone
  BY <1>2
     DEF ProcessGone, NodeConnectionInv, ConnectionInv, ConnectionTypeOK, Protected,
         NoneOpenInside, AtMostOneConnection, KeptIsOpen, None
<1> QED
  BY <1>1, <1>2, NodeStepForConnection

(* What the process as a whole does keeps the invariant of the connection: *)
(* a new life starts with none and with the mutex free.                    *)
THEOREM NodeConnection == Spec => []NodeConnectionInv
BY NodeConnectionInit, NodeConnectionStep, PTL DEF Spec

(* However uses, disconnects and lost connections interleave with messages,*)
(* handlers that throw, shutdowns and restarts, the process never has two  *)
(* open connections.                                                       *)
THEOREM NodeHasOneConnection == Spec => []AtMostOneConnection
<1>1. NodeConnectionInv => AtMostOneConnection
  BY DEF NodeConnectionInv, ConnectionInv
<1> QED
  BY <1>1, NodeConnection, PTL

(* No caller is given a connection that disconnect has closed; by          *)
(* jetstream and rusi none that is closed at all.                          *)
THEOREM NodeGivesLiveConnections == Spec => LiveConnectionGiven
<1>1. ASSUME NodeConnectionInv, [Next]_vars, NEW c \in Users, pc[c] # "done", pc'[c] = "done"
      PROVE  connection' # None /\ (transport # "nats" => connection' \in open')
  <2>1. c \in Calls /\ c \notin Closers
    BY CallsAssumption DEF Calls
  <2>2. /\ pc \in [Calls -> {"idle", "acquire", "opening", "closing", "done", "failed"}]
        /\ made \in Nat /\ transport \in Transports
    BY <1>1 DEF NodeConnectionInv, ConnectionInv, ConnectionTypeOK
  <2>3. ~UNCHANGED connectionVars /\ ~ProcessGone
    BY <1>1, <2>1 DEF connectionVars, ProcessGone
  <2>4. ConnectionNext
    BY <1>1, <2>3, NodeStepForConnection
  <2>5. ~ConnectionLost
    BY <1>1 DEF ConnectionLost
  <2>6. ASSUME NEW d \in Closers, DisconnectBegins(d) \/ DisconnectGoesOn(d)
        PROVE  FALSE
    BY <1>1, <2>1, <2>2, <2>6
       DEF DisconnectBegins, DisconnectFast, DisconnectAcquires, DisconnectGoesOn,
           DisconnectRechecks, Disconnects, BeginsClose, EndsClose, Becomes
  <2>7. PICK d \in Users : ConnectBegins(d) \/ ConnectGoesOn(d)
    BY <2>4, <2>5, <2>6 DEF ConnectionNext, CallBegins, CallGoesOn
  <2>8. transport' = transport
    BY <2>4 DEF ConnectionNext
  <2>9. CASE Usable(connection) /\ UNCHANGED <<connection, open>>
    BY <1>1, <2>2, <2>9 DEF Usable, NodeConnectionInv, KeptIsOpen, Transports
  <2>10. CASE Opened(d)
    BY <2>2, <2>10 DEF Opened, None
  <2>11. ASSUME ConnectAcquires(d) \/ ConnectOpens(d) \/ OpenFails(d)
         PROVE  FALSE
    BY <1>1, <2>1, <2>2, <2>11 DEF ConnectAcquires, ConnectOpens, OpenFails, Becomes
  <2> QED
    BY <2>7, <2>9, <2>10, <2>11
       DEF ConnectBegins, ConnectGoesOn, ConnectFast, ConnectRechecks
<1>2. NodeConnectionInv /\ [Next]_vars =>
        [\A c \in Users : pc[c] # "done" /\ pc'[c] = "done" =>
           /\ connection' # None
           /\ transport # "nats" => connection' \in open']_connectionVars
  BY <1>1
<1> QED
  BY <1>2, NodeConnection, PTL DEF Spec, LiveConnectionGiven

-----------------------------------------------------------------------------
(* The subscription.                                                       *)

SubscriptionTypeOK ==
  /\ kind \in Kinds
  /\ buffer \in Seq(Messages)
  /\ running \in [Messages -> Nat]
  /\ slots \in Nat
  /\ published \subseteq Messages

(* Without a subscription nothing is handled: it may open with all slots.  *)
IdleUnlessSubscribed ==
  sub = "none" => buffer = << >> /\ \A m \in Messages : running[m] = 0

(* What needs no acknowledgement is settled when it is sent, and so is on  *)
(* its way to one handler, or was handed to one.                           *)
NeedsNoAck == ~Durable /\ transport # "rusi"

OnceOnItsWay ==
  NeedsNoAck =>
    /\ started \subseteq settled /\ settled \subseteq published
    /\ \A i \in DOMAIN buffer : buffer[i] \in settled \ started
    /\ \A i, j \in DOMAIN buffer : buffer[i] = buffer[j] => i = j

SlotsInv == IsFiniteSet(Handlers) /\ SlotsMatchHandlers

SubscriptionInv ==
  /\ transport \in Transports
  /\ SubscriptionTypeOK /\ IdleUnlessSubscribed /\ OnceOnItsWay
  /\ SlotsInv /\ AckedMeansHandled

(* The set of running handlers.                                            *)
LEMMA HandlersAre ==
  ASSUME NEW t
  PROVE  t \in Handlers <=> \E m \in Messages : \E k \in 1 .. running[m] : t = <<m, k>>
BY DEF Handlers

LEMMA HandlerAdded ==
  ASSUME running \in [Messages -> Nat], IsFiniteSet(Handlers), NEW m \in Messages,
         running' = [running EXCEPT ![m] = @ + 1]
  PROVE  /\ IsFiniteSet(Handlers')
         /\ Cardinality(Handlers') = Cardinality(Handlers) + 1
<1> DEFINE new == <<m, running[m] + 1>>
<1>1. new \notin Handlers
  BY HandlersAre
<1>2. \A t : t \in Handlers' <=> \E n \in Messages : \E k \in 1 .. running'[n] : t = <<n, k>>
  BY DEF Handlers
<1>3. Handlers' = Handlers \cup {new}
  <2>1. ASSUME NEW t \in Handlers'
        PROVE  t \in Handlers \cup {new}
    <3>0. PICK n \in Messages : \E k \in 1 .. running'[n] : t = <<n, k>>
      BY <1>2
    <3>1. PICK k \in 1 .. running'[n] : t = <<n, k>>
      BY <3>0
    <3>2. k \in 1 .. running[n] \/ (n = m /\ k = running[m] + 1)
      OBVIOUS
    <3> QED
      BY <3>1, <3>2, HandlersAre
  <2>2. ASSUME NEW t \in Handlers
        PROVE  t \in Handlers'
    <3>0. PICK n \in Messages : \E k \in 1 .. running[n] : t = <<n, k>>
      BY HandlersAre
    <3>1. PICK k \in 1 .. running[n] : t = <<n, k>>
      BY <3>0
    <3>2. k \in 1 .. running'[n]
      OBVIOUS
    <3> QED
      BY <1>2, <3>1, <3>2
  <2>3. new \in Handlers'
    <3>1. running[m] + 1 \in 1 .. running'[m]
      OBVIOUS
    <3> QED
      BY <1>2, <3>1
  <2> QED
    BY <2>1, <2>2, <2>3
<1> HIDE DEF new
<1> QED
  BY <1>1, <1>3, FS_AddElement

LEMMA HandlerRemoved ==
  ASSUME running \in [Messages -> Nat], IsFiniteSet(Handlers), NEW m \in Messages,
         running[m] > 0, running' = [running EXCEPT ![m] = @ - 1]
  PROVE  /\ IsFiniteSet(Handlers')
         /\ Cardinality(Handlers') = Cardinality(Handlers) - 1
<1> DEFINE old == <<m, running[m]>>
<1>1. old \in Handlers
  <2>1. running[m] \in 1 .. running[m]
    OBVIOUS
  <2> QED
    BY <2>1, HandlersAre
<1>2. \A t : t \in Handlers' <=> \E n \in Messages : \E k \in 1 .. running'[n] : t = <<n, k>>
  BY DEF Handlers
<1>3. Handlers' = Handlers \ {old}
  <2>1. ASSUME NEW t \in Handlers'
        PROVE  t \in Handlers \ {old}
    <3>0. PICK n \in Messages : \E k \in 1 .. running'[n] : t = <<n, k>>
      BY <1>2
    <3>1. PICK k \in 1 .. running'[n] : t = <<n, k>>
      BY <3>0
    <3>2. k \in 1 .. running[n] /\ ~(n = m /\ k = running[m])
      OBVIOUS
    <3> QED
      BY <3>1, <3>2, HandlersAre
  <2>2. ASSUME NEW t \in Handlers, t # old
        PROVE  t \in Handlers'
    <3>0. PICK n \in Messages : \E k \in 1 .. running[n] : t = <<n, k>>
      BY HandlersAre
    <3>1. PICK k \in 1 .. running[n] : t = <<n, k>>
      BY <3>0
    <3>2. k \in 1 .. running'[n]
      BY <2>2, <3>1
    <3> QED
      BY <1>2, <3>1, <3>2
  <2> QED
    BY <2>1, <2>2
<1> HIDE DEF old
<1> QED
  BY <1>1, <1>3, FS_RemoveElement

(* Nothing runs: all slots are free.                                       *)
LEMMA NoHandlers ==
  ASSUME \A m \in Messages : running[m] = 0
  PROVE  Handlers = {} /\ IsFiniteSet(Handlers) /\ Cardinality(Handlers) = 0
<1>1. Handlers = {}
  BY HandlersAre
<1> QED
  BY <1>1, FS_EmptySet

(* A step of the broker, of a call of subscribe or unsubscribe, or of      *)
(* another part of the process.                                            *)
LEMMA QuietForHandlers ==
  ASSUME SubscriptionInv,
         UNCHANGED <<transport, kind, buffer, running, slots, started, handled>>,
         sub' = sub \/ sub' # "none",
         published \subseteq published', published' \subseteq Messages,
         settled \subseteq settled', settled' \subseteq settled \cup published',
         Durable => settled' = settled
  PROVE  SubscriptionInv'
<1>1. SubscriptionTypeOK' /\ IdleUnlessSubscribed' /\ AckedMeansHandled'
  BY DEF SubscriptionInv, SubscriptionTypeOK, IdleUnlessSubscribed, AckedMeansHandled, Durable
<1>2. OnceOnItsWay'
  BY DEF SubscriptionInv, OnceOnItsWay, NeedsNoAck, Durable
<1>3. SlotsInv'
  BY DEF SubscriptionInv, SlotsInv, Handlers, SlotsMatchHandlers
<1> QED
  BY <1>1, <1>2, <1>3 DEF SubscriptionInv

LEMMA OpensWithAllSlots ==
  ASSUME SubscriptionInv, SubscribeOpens, UNCHANGED transport
  PROVE  SubscriptionInv'
<1> USE DEF SubscribeOpens, brokerVars, historyVars
<1>1. SubscriptionTypeOK' /\ IdleUnlessSubscribed' /\ AckedMeansHandled'
  BY SubscriptionAssumption
     DEF SubscriptionInv, SubscriptionTypeOK, IdleUnlessSubscribed, AckedMeansHandled, Durable
<1>2. OnceOnItsWay'
  BY DEF SubscriptionInv, OnceOnItsWay, NeedsNoAck, Durable
<1>3. \A m \in Messages : running[m] = 0
  BY DEF SubscriptionInv, IdleUnlessSubscribed
<1>4. Handlers' = Handlers
  BY DEF Handlers
<1>5. SlotsInv'
  BY <1>3, <1>4, NoHandlers, SubscriptionAssumption DEF SlotsInv, SlotsMatchHandlers
<1> QED
  BY <1>1, <1>2, <1>5 DEF SubscriptionInv

LEMMA DeliverStep ==
  ASSUME SubscriptionInv, NEW m \in Messages, Deliver(m), UNCHANGED transport
  PROVE  SubscriptionInv'
<1> USE DEF Deliver, Undelivered, Listening
<1>1. /\ running \in [Messages -> Nat] /\ transport \in Transports
      /\ running' = [running EXCEPT ![m] = @ + 1] /\ sub = "open" /\ sub' = sub
  BY DEF SubscriptionInv, SubscriptionTypeOK
<1>2. SubscriptionTypeOK' /\ IdleUnlessSubscribed'
  BY <1>1 DEF SubscriptionInv, SubscriptionTypeOK, IdleUnlessSubscribed, AtBroker
<1>3. SlotsInv'
  BY <1>1, HandlerAdded DEF SubscriptionInv, SlotsInv, SlotsMatchHandlers
<1>4. AckedMeansHandled'
  BY <1>1 DEF SubscriptionInv, AckedMeansHandled, AtBroker, AcksAfterHandler, NatsAcks,
              JetstreamAcks, Durable, Transports
<1>5. OnceOnItsWay'
  <2> SUFFICES ASSUME NeedsNoAck
               PROVE  OnceOnItsWay'
    BY DEF OnceOnItsWay, NeedsNoAck, Durable
  <2>1. settled' = settled \cup {m} /\ UNCHANGED published
    BY <1>1 DEF AtBroker, AcksAfterHandler, NatsAcks, NeedsNoAck, Durable, Transports
  <2>2. started' = started \cup {m} /\ m \notin settled /\ m \in published /\ buffer' = buffer
    OBVIOUS
  <2> QED
    BY <2>1, <2>2 DEF SubscriptionInv, OnceOnItsWay
<1> QED
  BY <1>1, <1>2, <1>3, <1>4, <1>5 DEF SubscriptionInv

LEMMA FetchStep ==
  ASSUME SubscriptionInv, NEW m \in Messages, Fetch(m), UNCHANGED transport
  PROVE  SubscriptionInv'
<1> USE DEF Fetch, Undelivered, Listening, historyVars
<1>1. /\ buffer \in Seq(Messages) /\ transport \in Transports
      /\ buffer' = Append(buffer, m) /\ sub = "open" /\ sub' = sub
  BY DEF SubscriptionInv, SubscriptionTypeOK
<1>2. SubscriptionTypeOK' /\ IdleUnlessSubscribed'
  BY <1>1 DEF SubscriptionInv, SubscriptionTypeOK, IdleUnlessSubscribed, AtBroker
<1>3. SlotsInv'
  BY DEF SubscriptionInv, SlotsInv, SlotsMatchHandlers, Handlers
<1>4. AckedMeansHandled'
  BY <1>1 DEF SubscriptionInv, AckedMeansHandled, AtBroker, AcksAfterHandler, NatsAcks,
              JetstreamAcks, Durable, Transports
<1>5. OnceOnItsWay'
  <2> SUFFICES ASSUME NeedsNoAck
               PROVE  OnceOnItsWay'
    BY DEF OnceOnItsWay, NeedsNoAck, Durable
  <2>1. settled' = settled \cup {m} /\ UNCHANGED published
    BY <1>1 DEF AtBroker, AcksAfterHandler, JetstreamAcks, NeedsNoAck, Durable, Transports
  <2>2. started' = started /\ m \notin settled /\ m \in published
    OBVIOUS
  <2>3. /\ DOMAIN buffer = 1 .. Len(buffer) /\ Len(buffer) \in Nat
        /\ DOMAIN buffer' = 1 .. Len(buffer) + 1
        /\ buffer'[Len(buffer) + 1] = m
        /\ \A i \in 1 .. Len(buffer) : buffer'[i] = buffer[i]
    BY <1>1, LenProperties
  <2> QED
    BY <2>1, <2>2, <2>3 DEF SubscriptionInv, OnceOnItsWay
<1> QED
  BY <1>1, <1>2, <1>3, <1>4, <1>5 DEF SubscriptionInv

(* The loop takes the message at the head of the buffer: nobody was handed *)
(* it before, if it needs no acknowledgement.                              *)
LEMMA HandlerStartsStep ==
  ASSUME SubscriptionInv, HandlerStarts, UNCHANGED transport
  PROVE  /\ SubscriptionInv'
         /\ NeedsNoAck => \A m \in started : running'[m] = running[m]
<1> DEFINE m == Head(buffer)
<1> USE DEF HandlerStarts, brokerVars
<1>1. /\ buffer \in Seq(Messages) /\ buffer # << >> /\ slots \in Nat \ {0}
      /\ running \in [Messages -> Nat]
  BY DEF SubscriptionInv, SubscriptionTypeOK
<1>2. /\ m \in Messages /\ m = buffer[1] /\ Len(buffer) \in Nat \ {0}
      /\ DOMAIN buffer = 1 .. Len(buffer) /\ buffer' = Tail(buffer)
      /\ buffer' \in Seq(Messages) /\ DOMAIN buffer' = 1 .. Len(buffer) - 1
      /\ \A i \in 1 .. Len(buffer) - 1 : buffer'[i] = buffer[i + 1]
  BY <1>1, HeadTailProperties, EmptySeq, LenProperties
<1>3. running' = [running EXCEPT ![m] = @ + 1] /\ started' = started \cup {m}
  OBVIOUS
<1> HIDE DEF m
<1>4. sub # "none" /\ sub' = sub
  BY <1>1 DEF SubscriptionInv, IdleUnlessSubscribed
<1>5. SubscriptionTypeOK' /\ IdleUnlessSubscribed' /\ AckedMeansHandled'
  BY <1>1, <1>2, <1>3, <1>4
     DEF SubscriptionInv, SubscriptionTypeOK, IdleUnlessSubscribed, AckedMeansHandled, Durable
<1>6. SlotsInv'
  <2>1. Cardinality(Handlers) \in Nat
    BY FS_CardinalityType DEF SubscriptionInv, SlotsInv
  <2>2. /\ IsFiniteSet(Handlers')
        /\ Cardinality(Handlers') = Cardinality(Handlers) + 1
    BY <1>1, <1>2, <1>3, HandlerAdded DEF SubscriptionInv, SlotsInv
  <2>3. transport = "jetstream" => /\ slots + Cardinality(Handlers) = MaxConcurrent
                                  /\ slots' = slots - 1
    BY <1>1 DEF SubscriptionInv, SlotsInv, SlotsMatchHandlers
  <2> QED
    BY <1>1, <2>1, <2>2, <2>3 DEF SlotsInv, SlotsMatchHandlers
<1>7. ASSUME NeedsNoAck
      PROVE  OnceOnItsWay' /\ \A n \in started : running'[n] = running[n]
  <2>1. 1 \in DOMAIN buffer /\ m \in settled \ started
    BY <1>2, <1>7 DEF SubscriptionInv, OnceOnItsWay
  <2>2. \A i \in DOMAIN buffer' : i + 1 \in DOMAIN buffer /\ i + 1 # 1
    BY <1>2
  <2>3. \A i \in DOMAIN buffer' : buffer'[i] \in settled \ started /\ buffer'[i] # m
    BY <1>2, <1>7, <2>1, <2>2 DEF SubscriptionInv, OnceOnItsWay
  <2>4. \A i, j \in DOMAIN buffer' : buffer'[i] = buffer'[j] => i = j
    <3> SUFFICES ASSUME NEW i \in DOMAIN buffer', NEW j \in DOMAIN buffer',
                        buffer'[i] = buffer'[j]
                 PROVE  i = j
      OBVIOUS
    <3>1. i + 1 = j + 1
      BY <1>2, <1>7, <2>2 DEF SubscriptionInv, OnceOnItsWay
    <3> QED
      BY <1>2, <3>1
  <2>5. OnceOnItsWay'
    BY <1>3, <1>7, <2>1, <2>3, <2>4 DEF SubscriptionInv, OnceOnItsWay
  <2> QED
    BY <1>1, <1>3, <2>1, <2>5
<1>8. OnceOnItsWay'
  BY <1>7 DEF OnceOnItsWay, NeedsNoAck, Durable
<1> QED
  BY <1>5, <1>6, <1>7, <1>8 DEF SubscriptionInv

(* A handler ends, by returning or by throwing: one slot back.             *)
LEMMA HandlerEndsStep ==
  ASSUME SubscriptionInv, NEW m \in Messages, HandlerReturns(m) \/ HandlerThrows(m),
         UNCHANGED transport
  PROVE  SubscriptionInv'
<1>1. /\ running \in [Messages -> Nat] /\ slots \in Nat /\ transport \in Transports
      /\ running[m] > 0 /\ running' = [running EXCEPT ![m] = @ - 1]
      /\ slots' = IF transport = "jetstream" THEN slots + 1 ELSE slots
      /\ UNCHANGED <<kind, sub, buffer, published, started>>
  BY DEF SubscriptionInv, SubscriptionTypeOK, HandlerReturns, HandlerThrows, Ends, brokerVars
<1>2. SubscriptionTypeOK' /\ IdleUnlessSubscribed'
  BY <1>1 DEF SubscriptionInv, SubscriptionTypeOK, IdleUnlessSubscribed
<1>3. SlotsInv'
  <2>1. Cardinality(Handlers) \in Nat
    BY FS_CardinalityType DEF SubscriptionInv, SlotsInv
  <2>2. /\ IsFiniteSet(Handlers')
        /\ Cardinality(Handlers') = Cardinality(Handlers) - 1
    BY <1>1, HandlerRemoved DEF SubscriptionInv, SlotsInv
  <2>3. transport = "jetstream" => /\ slots + Cardinality(Handlers) = MaxConcurrent
                                  /\ slots' = slots + 1
    BY <1>1 DEF SubscriptionInv, SlotsInv, SlotsMatchHandlers
  <2> QED
    BY <1>1, <2>1, <2>2, <2>3 DEF SlotsInv, SlotsMatchHandlers
<1>4. AckedMeansHandled'
  BY <1>1 DEF SubscriptionInv, AckedMeansHandled, HandlerReturns, HandlerThrows,
              Acknowledge, Durable, brokerVars
<1>5. OnceOnItsWay'
  <2>1. NeedsNoAck => settled' = settled
    BY <1>1 DEF NeedsNoAck, HandlerReturns, HandlerThrows, Acknowledge, AcksAfterHandler,
                NatsAcks, JetstreamAcks, Durable, Transports, brokerVars
  <2> QED
    BY <1>1, <2>1 DEF SubscriptionInv, OnceOnItsWay, NeedsNoAck, Durable
<1> QED
  BY <1>1, <1>2, <1>3, <1>4, <1>5 DEF SubscriptionInv

(* The process ends.  The broker keeps what a durable subscription has not *)
(* acknowledged, and has nothing for one that only gets new messages.      *)
LEMMA ProcessGoneStep ==
  ASSUME SubscriptionInv, ProcessGone
  PROVE  SubscriptionInv' /\ \A m \in Messages : running'[m] <= running[m]
<1>1. /\ running \in [Messages -> Nat] /\ \A m \in Messages : running'[m] = 0
      /\ running' \in [Messages -> Nat] /\ buffer' = << >> /\ slots' = MaxConcurrent
      /\ settled' = Missed /\ UNCHANGED <<transport, kind, published, started, handled>>
  BY DEF SubscriptionInv, SubscriptionTypeOK, ProcessGone, historyVars
<1>2. SubscriptionTypeOK' /\ IdleUnlessSubscribed' /\ AckedMeansHandled'
  BY <1>1, SubscriptionAssumption
     DEF SubscriptionInv, SubscriptionTypeOK, IdleUnlessSubscribed, AckedMeansHandled,
         Missed, Durable
<1>3. OnceOnItsWay'
  BY <1>1 DEF SubscriptionInv, OnceOnItsWay, NeedsNoAck, Missed, Durable
<1>4. Handlers' = {}
  <2>1. \A t : t \in Handlers' <=> \E n \in Messages : \E k \in 1 .. running'[n] : t = <<n, k>>
    BY DEF Handlers
  <2> QED
    BY <1>1, <2>1
<1>5. SlotsInv'
  BY <1>1, <1>4, FS_EmptySet, SubscriptionAssumption DEF SlotsInv, SlotsMatchHandlers
<1> QED
  BY <1>1, <1>2, <1>3, <1>5 DEF SubscriptionInv

LEMMA SubscriptionInvInit == Init => SubscriptionInv
<1> SUFFICES ASSUME Init
             PROVE  SubscriptionInv
  OBVIOUS
<1>1. /\ transport \in Transports /\ kind \in Kinds /\ buffer = << >>
      /\ running = [m \in Messages |-> 0] /\ slots = MaxConcurrent
      /\ published = {} /\ settled = {} /\ started = {}
  BY DEF Init, ConnectionInit, SubscriptionInit
<1>2. SubscriptionTypeOK /\ IdleUnlessSubscribed /\ AckedMeansHandled /\ OnceOnItsWay
  BY <1>1, SubscriptionAssumption
     DEF SubscriptionTypeOK, IdleUnlessSubscribed, AckedMeansHandled, OnceOnItsWay
<1>3. SlotsInv
  BY <1>1, NoHandlers, SubscriptionAssumption DEF SlotsInv, SlotsMatchHandlers
<1> QED
  BY <1>1, <1>2, <1>3 DEF SubscriptionInv

LEMMA SubscriptionStep ==
  ASSUME SubscriptionInv, [Next]_vars
  PROVE  /\ SubscriptionInv'
         /\ NeedsNoAck => \A m \in started : running'[m] <= running[m]
<1>t. /\ running \in [Messages -> Nat] /\ transport \in Transports
      /\ published \subseteq Messages
      /\ NeedsNoAck => started \subseteq settled /\ settled \subseteq published
  BY DEF SubscriptionInv, SubscriptionTypeOK, OnceOnItsWay
<1> DEFINE Kept == /\ SubscriptionInv'
                   /\ NeedsNoAck => \A m \in started : running'[m] <= running[m]
<1>1. ASSUME UNCHANGED <<transport, kind, buffer, running, slots, started, handled>>,
             sub' = sub \/ sub' # "none",
             published \subseteq published', published' \subseteq Messages,
             settled \subseteq settled', settled' \subseteq settled \cup published',
             Durable => settled' = settled
      PROVE  Kept
  BY <1>t, <1>1, QuietForHandlers
<1>2. CASE Asks \/ Answers
  BY <1>t, <1>1, <1>2 DEF Asks, Answers, Elsewhere, brokerVars, historyVars
<1>3. CASE Subscribes
  <2>1. CASE SubscribeOpens
    <3>1. UNCHANGED <<transport, running>>
      BY <1>3, <2>1 DEF Subscribes, Aside, connectionVars, SubscribeOpens
    <3> QED
      BY <1>t, <2>1, <3>1, OpensWithAllSlots
  <2>2. CASE SubscribeRefused \/ StreamEnds \/ Unsubscribe
    BY <1>t, <1>1, <1>3, <2>2
       DEF Subscribes, Aside, connectionVars, SubscribeRefused, StreamEnds, Unsubscribe,
           brokerVars, historyVars
  <2> QED
    BY <1>3, <2>1, <2>2 DEF Subscribes
<1>4. CASE Unsubscribes
  BY <1>t, <1>1, <1>4
     DEF Unsubscribes, Aside, connectionVars, Unsubscribed, UnsubscribeTimesOut,
         brokerVars, historyVars
<1>5. ASSUME NEW m \in Messages, Delivers(m)
      PROVE  Kept
  <2>1. UNCHANGED transport
    BY <1>5 DEF Delivers, Aside, connectionVars
  <2>2. CASE Deliver(m)
    <3>1. SubscriptionInv'
      BY <2>1, <2>2, DeliverStep
    <3>2. NeedsNoAck => m \notin started
      BY <1>t, <2>2 DEF Deliver, Undelivered
    <3> QED
      BY <1>t, <2>2, <3>1, <3>2 DEF Deliver
  <2>3. CASE Fetch(m)
    <3>1. SubscriptionInv' /\ running' = running
      BY <2>1, <2>3, FetchStep DEF Fetch
    <3> QED
      BY <1>t, <3>1
  <2> QED
    BY <1>5, <2>2, <2>3 DEF Delivers
<1>6. CASE Starts
  BY <1>t, <1>6, HandlerStartsStep DEF Starts, Aside, connectionVars
<1>7. ASSUME NEW m \in Messages, HandlerReturns(m) \/ HandlerThrows(m), UNCHANGED transport
      PROVE  Kept
  <2>1. SubscriptionInv'
    BY <1>7, HandlerEndsStep
  <2>2. running' = [running EXCEPT ![m] = @ - 1]
    BY <1>7 DEF HandlerReturns, HandlerThrows, Ends
  <2> QED
    BY <1>t, <2>1, <2>2
<1>8. ASSUME NEW m \in Messages, Handles(m)
      PROVE  Kept
  BY <1>7, <1>8 DEF Handles, Aside, connectionVars
<1>9. CASE HandlerRejects
  BY <1>7, <1>9 DEF HandlerRejects, connectionVars
<1>10. CASE Publishes
  <2>1. PICK m \in Messages : Publish(m) \/ RepeatsEarly(m)
    BY <1>10 DEF Publishes
  <2>2. UNCHANGED transport
    BY <1>10 DEF Publishes, Aside, connectionVars
  <2> QED
    BY <1>t, <1>1, <2>1, <2>2
       DEF Publish, RepeatsEarly, nodeVars, historyVars
<1>11. ASSUME NEW m \in Messages, Repeats(m)
       PROVE  Kept
  BY <1>t, <1>1, <1>11 DEF Repeats, AckWaitEnds, Aside, connectionVars, nodeVars, historyVars
<1>12. CASE ShutdownBegins \/ Restart
  BY <1>t, <1>1, <1>12
     DEF ShutdownBegins, Restart, connectionVars, subscriptionVars, nodeVars, brokerVars,
         historyVars
<1>13. CASE HookFails \/ Exits
  <2>1. started \subseteq Messages \/ ~NeedsNoAck
    BY <1>t
  <2> QED
    BY <1>13, <2>1, ProcessGoneStep DEF HookFails, Exits
<1>14. CASE UNCHANGED vars
  BY <1>t, <1>1, <1>14
     DEF vars, connectionVars, subscriptionVars, nodeVars, brokerVars, historyVars
<1> QED
  BY <1>2, <1>3, <1>4, <1>5, <1>6, <1>8, <1>9, <1>10, <1>11, <1>12, <1>13, <1>14 DEF Next

(* The invariant of the subscription holds through every delivery, failed  *)
(* handler, lost acknowledgement, unsubscribe and restart.                 *)
THEOREM SubscriptionInvariant == Spec => []SubscriptionInv
<1>1. SubscriptionInv /\ [Next]_vars => SubscriptionInv'
  BY SubscriptionStep
<1> QED
  BY SubscriptionInvInit, <1>1, PTL DEF Spec

(* Nothing durable is forgotten before a handler has returned: through     *)
(* handlers that throw or run twice on one message, lost connections,      *)
(* unsubscribing, and the end of the process.                              *)
THEOREM AckOnlyAfterHandler == Spec => []AckedMeansHandled
<1>1. SubscriptionInv => AckedMeansHandled
  BY DEF SubscriptionInv
<1> QED
  BY <1>1, SubscriptionInvariant, PTL

(* jetstream's semaphore is exact: a slot for each handler that runs, and  *)
(* for no other, however often messages are delivered again.               *)
THEOREM SlotsAreExact == Spec => []SlotsMatchHandlers
<1>1. SubscriptionInv => SlotsMatchHandlers
  BY DEF SubscriptionInv, SlotsInv
<1> QED
  BY <1>1, SubscriptionInvariant, PTL

(* PUB_SUB and RPC over nats and jetstream: no message is handed to a      *)
(* handler twice, not by a process that was started again either.          *)
THEOREM HandledAtMostOnce == Spec => AtMostOnce
<1>1. SubscriptionInv /\ [Next]_vars =>
        [~Durable /\ transport # "rusi" =>
           \A m \in started : running'[m] <= running[m]]_<<kind, transport, running, started>>
  BY SubscriptionStep DEF NeedsNoAck
<1> QED
  BY <1>1, SubscriptionInvariant, PTL DEF Spec, AtMostOnce

-----------------------------------------------------------------------------
(* Graceful shutdown: whatever races to begin it, one onShutdown runs.     *)
THEOREM OneShutdown == Spec => ShutsDownOnce
<1>1. ASSUME [Next]_vars, isShuttingDown, isShuttingDown',
             NEW r \in 1 .. Registrations, hook'[r] = "running"
      PROVE  hook[r] = "running"
  <2>1. CASE UNCHANGED shutdownVars
    BY <1>1, <2>1 DEF shutdownVars
  <2>2. CASE HookFails \/ Exits
    BY <1>1, <2>2 DEF HookFails, Exits, HookThrows, TimerFires, Drains
  <2>3. CASE ShutdownBegins
    <3>1. ASSUME NEW q \in 1 .. Registrations, HookReturns(q)
          PROVE  hook[r] = "running"
      BY <1>1, <3>1 DEF HookReturns
    <3>2. CASE Event \/ \E q \in 1 .. Registrations : Manual(q)
      BY <1>1, <3>2 DEF Event, Manual, shutDown, shutdownVars
    <3> QED
      BY <2>3, <3>1, <3>2 DEF ShutdownBegins
  <2>4. CASE HandlerRejects
    BY <1>1, <2>4 DEF HandlerRejects, Event, shutDown, shutdownVars
  <2>5. ~Restart
    BY <1>1 DEF Restart
  <2> QED
    BY <1>1, <2>1, <2>2, <2>3, <2>4, <2>5
       DEF Next, vars, Asks, Answers, Elsewhere, Subscribes, Unsubscribes, Delivers,
           Starts, Handles, Publishes, Repeats, Aside
<1>2. [Next]_vars =>
        [isShuttingDown /\ isShuttingDown' =>
           \A r \in 1 .. Registrations : hook'[r] = "running" => hook[r] = "running"]_shutdownVars
  BY <1>1
<1> QED
  BY <1>2, PTL DEF Spec, ShutsDownOnce

-----------------------------------------------------------------------------
(* RusiEncoding: what fromUTF8Array reads is what toUTF8Array wrote,       *)
(* character by character: for every code unit and every surrogate pair,   *)
(* wherever its bytes stand in the data, the decoder takes as many bytes   *)
(* as the encoder wrote and returns the same code units.                   *)

IsUnit(u) == u \in Nat /\ u < 65536

(* The bytes of a character stand in the data from position i on.          *)
StandsAt(bytes, data, i) ==
  \A k \in 1..Len(bytes) : i + k - 1 \in DOMAIN data /\ data[i + k - 1] = bytes[k]

(* A mask undoes the marker bits of a trailing byte.                       *)
LEMMA Tail6Masked ==
  ASSUME NEW n \in Nat
  PROVE  Tail6(n) % 64 = n % 64 /\ 128 <= Tail6(n) /\ Tail6(n) < 192
  BY SMT DEF Tail6

(* The bits that a trailing byte carries.                                  *)
LEMMA BitsOfTail ==
  ASSUME NEW n \in Nat, NEW data, NEW j, j \in DOMAIN data, data[j] = Tail6(n)
  PROVE  Bits6(data, j) = n % 64
<1>1. At(data, j) = Tail6(n)
  BY Zenon DEF At
<1> QED
  BY <1>1, Tail6Masked, Zenon DEF Bits6

(* A number is cut in groups of six bits and put together again.           *)
LEMMA Cut ==
  ASSUME NEW n \in Nat
  PROVE  /\ n \div 64 \in Nat /\ n % 64 \in Nat /\ n % 64 < 64
         /\ n = ((n \div 64) * 64) + (n % 64)
         /\ (n \div 64) \div 64 = n \div 4096
         /\ (n \div 4096) \div 64 = n \div 262144
  BY SMT

LEMMA Groups3 ==
  ASSUME NEW n \in Nat, n < 65536
  PROVE  /\ n \div 4096 \in Nat /\ n \div 4096 < 16 /\ n \div 64 \in Nat
         /\ n = ((n \div 4096) * 4096) + (((n \div 64) % 64) * 64) + (n % 64)
<1>1. n \div 4096 \in Nat /\ n \div 4096 < 16
  BY SMT
<1>2. n \div 64 \in Nat /\ n = ((n \div 64) * 64) + (n % 64)
  BY Cut, SMT
<1>3. n \div 64 = ((n \div 4096) * 64) + ((n \div 64) % 64) /\ (n \div 64) % 64 \in Nat
  BY <1>2, Cut, SMT
<1> QED
  BY <1>1, <1>2, <1>3, SMT

LEMMA Groups4 ==
  ASSUME NEW n \in Nat, n < 1114112
  PROVE  /\ n \div 262144 \in Nat /\ n \div 262144 < 5 /\ n \div 4096 \in Nat /\ n \div 64 \in Nat
         /\ n = ((n \div 262144) * 262144) + (((n \div 4096) % 64) * 4096)
                  + (((n \div 64) % 64) * 64) + (n % 64)
<1>1. n \div 262144 \in Nat /\ n \div 262144 < 5
  BY SMT
<1>2. n \div 64 \in Nat /\ n = ((n \div 64) * 64) + (n % 64)
  BY Cut, SMT
<1>3. /\ n \div 4096 \in Nat /\ (n \div 64) % 64 \in Nat
      /\ n \div 64 = ((n \div 4096) * 64) + ((n \div 64) % 64)
  BY <1>2, Cut, SMT
<1>4. /\ (n \div 4096) % 64 \in Nat
      /\ n \div 4096 = ((n \div 262144) * 64) + ((n \div 4096) % 64)
  BY <1>3, Cut, SMT
<1> QED
  BY <1>1, <1>2, <1>3, <1>4, SMT

(* Every code unit that is not a surrogate arrives as it was sent.         *)
THEOREM UnitArrives ==
  ASSUME NEW u, IsUnit(u), ~IsSurrogate(u),
         NEW data \in Seq(Nat), NEW i \in Nat \ {0}, StandsAt(UnitBytes(u), data, i)
  PROVE  /\ Width(data[i]) = Len(UnitBytes(u))
         /\ UnitsAt(data, i) = <<u>>
<1>1. CASE u < 128
  <2>1. UnitBytes(u) = <<u>>
    BY <1>1, SMT DEF UnitBytes
  <2>2. data[i] = u
    BY <2>1, SMT DEF StandsAt
  <2>3. Width(data[i]) = 1
    BY <1>1, <2>2, SMT DEF Width
  <2> QED
    BY <2>1, <2>2, <2>3, SMT DEF UnitsAt
<1>2. CASE 128 <= u /\ u < 2048
  <2>1. UnitBytes(u) = <<192 + (u \div 64), Tail6(u)>>
    BY <1>2, SMT DEF UnitBytes, IsUnit
  <2>2. /\ data[i] = 192 + (u \div 64)
        /\ i + 1 \in DOMAIN data /\ data[i + 1] = Tail6(u)
    BY <2>1, SMT DEF StandsAt
  <2>3. u \in Nat /\ u \div 64 \in Nat /\ 2 <= u \div 64 /\ u \div 64 < 32 /\ u = ((u \div 64) * 64) + (u % 64)
    BY <1>2, SMT DEF IsUnit
  <2>4. Width(data[i]) = 2 /\ data[i] % 32 = u \div 64
    BY <2>2, <2>3, SMT DEF Width
  <2>5. Bits6(data, i + 1) = u % 64
    BY <2>2, <2>3, BitsOfTail
  <2>6. UnitsAt(data, i) = <<((u \div 64) * 64) + (u % 64)>>
    BY <2>4, <2>5, SMT DEF UnitsAt
  <2> QED
    BY <2>1, <2>3, <2>4, <2>6, SMT
<1>3. CASE 2048 <= u
  <2>1. UnitBytes(u) = <<224 + (u \div 4096), Tail6(u \div 64), Tail6(u)>>
    BY <1>3, SMT DEF UnitBytes, IsUnit
  <2>2. /\ data[i] = 224 + (u \div 4096)
        /\ i + 1 \in DOMAIN data /\ data[i + 1] = Tail6(u \div 64)
        /\ i + 2 \in DOMAIN data /\ data[i + 2] = Tail6(u)
    BY <2>1, SMT DEF StandsAt
  <2>3. /\ u \in Nat /\ u \div 4096 \in Nat /\ u \div 4096 < 16 /\ u \div 64 \in Nat
        /\ u = ((u \div 4096) * 4096) + (((u \div 64) % 64) * 64) + (u % 64)
    BY <1>3, Groups3, SMT DEF IsUnit
  <2>4. Bits6(data, i + 1) = (u \div 64) % 64
    <3>1. u \div 64 \in Nat /\ i + 1 \in DOMAIN data /\ data[i + 1] = Tail6(u \div 64)
      BY <2>2, <2>3
    <3> QED
      BY <3>1, BitsOfTail, Zenon
  <2>5. Bits6(data, i + 2) = u % 64
    <3>1. u \in Nat /\ i + 2 \in DOMAIN data /\ data[i + 2] = Tail6(u)
      BY <2>2, <2>3
    <3> QED
      BY <3>1, BitsOfTail, Zenon
  <2>6. PICK q \in Nat, x \in Nat, y \in Nat :
          q = u \div 4096 /\ x = (u \div 64) % 64 /\ y = u % 64
    <3>1. (u \div 64) % 64 \in Nat /\ u % 64 \in Nat
      BY <2>3, SMT
    <3> QED
      BY <2>3, <3>1
  <2>7. q < 16 /\ data[i] = 224 + q /\ u = (q * 4096) + (x * 64) + y
    BY <2>2, <2>3, <2>6, SMT
  <2>8. Bits6(data, i + 1) = x /\ Bits6(data, i + 2) = y
    BY <2>4, <2>5, <2>6
  <2>9. Width(data[i]) = 3 /\ data[i] % 16 = q
    BY <2>7, SMT DEF Width
  <2>10. UnitsAt(data, i) = <<u>>
    BY <2>7, <2>8, <2>9, SMT DEF UnitsAt
  <2> QED
    BY <2>1, <2>9, <2>10, SMT
<1> QED
  BY <1>1, <1>2, <1>3, SMT DEF IsUnit

(* Every surrogate pair, that is every code point beyond 65535, arrives as *)
(* it was sent.                                                            *)
THEOREM PairArrives ==
  ASSUME NEW hi \in Nat, NEW lo \in Nat, IsHigh(hi), IsLow(lo),
         NEW data \in Seq(Nat), NEW i \in Nat \ {0}, StandsAt(PairBytes(hi, lo), data, i)
  PROVE  /\ Width(data[i]) = 4
         /\ UnitsAt(data, i) = <<hi, lo>>
<1>1. PICK c \in Nat : /\ c = CodePoint(hi, lo) /\ 65536 <= c /\ c < 1114112
                      /\ c - 65536 = ((hi - 55296) * 1024) + (lo - 56320)
  <2>1. /\ hi \in Nat /\ 55296 <= hi /\ hi < 56320
        /\ lo \in Nat /\ 56320 <= lo /\ lo < 57344
    BY SMT DEF IsHigh, IsLow
  <2> QED
    BY <2>1, SMT DEF CodePoint
<1>2. PairBytes(hi, lo) =
        <<240 + (c \div 262144), Tail6(c \div 4096), Tail6(c \div 64), Tail6(c)>>
  BY <1>1, SMT DEF PairBytes
<1>3. PICK g3 \in Nat, g2 \in Nat, g1 \in Nat :
        /\ g3 = c \div 262144 /\ g2 = c \div 4096 /\ g1 = c \div 64 /\ g3 < 5
        /\ c = (g3 * 262144) + ((g2 % 64) * 4096) + ((g1 % 64) * 64) + (c % 64)
  <2>1. c \in Nat /\ c < 1114112
    BY <1>1, SMT
  <2> QED
    BY <2>1, Groups4, SMT
<1>4. /\ data[i] = 240 + g3
      /\ i + 1 \in DOMAIN data /\ data[i + 1] = Tail6(g2)
      /\ i + 2 \in DOMAIN data /\ data[i + 2] = Tail6(g1)
      /\ i + 3 \in DOMAIN data /\ data[i + 3] = Tail6(c)
  BY <1>2, <1>3, SMT DEF StandsAt
<1>5. Bits6(data, i + 1) = g2 % 64
  BY <1>4, BitsOfTail, Zenon
<1>6. Bits6(data, i + 2) = g1 % 64
  BY <1>4, BitsOfTail, Zenon
<1>7. Bits6(data, i + 3) = c % 64
  BY <1>4, BitsOfTail, Zenon
<1> DEFINE x == g2 % 64
           y == g1 % 64
           z == c % 64
<1>8. /\ x \in Nat /\ y \in Nat /\ z \in Nat
      /\ c = (g3 * 262144) + (x * 4096) + (y * 64) + z
      /\ Bits6(data, i + 1) = x /\ Bits6(data, i + 2) = y /\ Bits6(data, i + 3) = z
  <2>1. x \in Nat /\ y \in Nat /\ z \in Nat
    BY SMT
  <2>2. c = (g3 * 262144) + (x * 4096) + (y * 64) + z
    BY <1>3, SMT
  <2>3. Bits6(data, i + 1) = x /\ Bits6(data, i + 2) = y /\ Bits6(data, i + 3) = z
    BY <1>5, <1>6, <1>7, Zenon
  <2> QED
    BY <2>1, <2>2, <2>3, SMT
<1> HIDE DEF x, y, z
<1>9. g3 < 5 /\ data[i] = 240 + g3
  BY <1>3, <1>4, SMT
<1>10. Width(data[i]) = 4 /\ data[i] % 8 = g3
  BY <1>9, SMT DEF Width
<1>11. PICK h \in Nat, l \in Nat : l < 1024 /\ h = hi - 55296 /\ l = lo - 56320
  BY SMT DEF IsHigh, IsLow
<1>12. c - 65536 = (h * 1024) + l
  BY <1>1, <1>11, SMT
<1>13. (c - 65536) \div 1024 = h /\ (c - 65536) % 1024 = l
  <2>1. l < 1024
    BY <1>11, SMT
  <2>2. ((h * 1024) + l) \div 1024 = h /\ ((h * 1024) + l) % 1024 = l
    BY <2>1, SMT
  <2> QED
    BY <1>12, <2>2, SMT
<1>14. UnitsAt(data, i) = <<55296 + h, 56320 + l>>
  <2>1. data[i] % 8 = g3 /\ Bits6(data, i + 1) = x /\ Bits6(data, i + 2) = y
          /\ Bits6(data, i + 3) = z
    BY <1>8, <1>10, SMT
  <2>2. g3 * 262144 + x * 4096 + y * 64 + z - 65536 = c - 65536
    BY <1>8, SMT
  <2>3. Width(data[i]) # 1 /\ Width(data[i]) # 2 /\ Width(data[i]) # 3
    BY <1>10, SMT
  <2>4. UnitsAt(data, i) = <<55296 + ((c - 65536) \div 1024), 56320 + ((c - 65536) % 1024)>>
    BY <2>1, <2>2, <2>3, SMTT(30) DEF UnitsAt
  <2> QED
    BY <1>13, <2>4, SMT
<1> QED
  BY <1>10, <1>11, <1>14, SMT DEF IsHigh, IsLow

-----------------------------------------------------------------------------
(* Whole texts.  Both directions are recursive functions, from the end of  *)
(* the text, and of the data, backwards.                                   *)

LEMMA LeastOf ==
  ASSUME NEW S \in SUBSET Nat, S # {}
  PROVE  \E m \in S : \A k \in S : m <= k
<1>1. PICK m \in S : \A k \in S : <<k, m>> \notin OpToRel(<, Nat)
  BY NatLessThanWellFounded, WFMin
<1>2. \A k \in S : ~(k < m)
  BY <1>1 DEF OpToRel
<1> QED
  BY <1>2

(* Induction from N down to 1.                                             *)
Inherits(T, N) == \A i \in 1 .. N : (\A j \in i + 1 .. N : j \in T) => i \in T

LEMMA Downward ==
  ASSUME NEW N \in Nat, NEW T, Inherits(T, N)
  PROVE  \A i \in 1 .. N : i \in T
<1> DEFINE S == {k \in Nat : k < N /\ N - k \notin T}
<1> SUFFICES ASSUME NEW i \in 1 .. N, i \notin T  PROVE  FALSE
  OBVIOUS
<1>1. S \in SUBSET Nat /\ S # {}
  <2>1. N - i \in Nat /\ N - i < N /\ N - (N - i) = i
    OBVIOUS
  <2>2. N - i \in S
    BY <2>1
  <2> QED
    BY <2>2
<1>2. PICK m \in S : \A k \in S : m <= k
  <2> HIDE DEF S
  <2> QED
    BY <1>1, LeastOf
<1>3. N - m \in 1 .. N /\ N - m \notin T
  BY <1>2
<1>4. ASSUME NEW j \in N - m + 1 .. N  PROVE  j \in T
  <2>1. N - j \in Nat /\ N - j < N /\ N - j < m /\ N - (N - j) = j
    BY <1>2, <1>4
  <2>2. N - j \notin S
    <3> HIDE DEF S
    <3> QED
      BY <1>1, <1>2, <2>1
  <2> QED
    BY <2>1, <2>2
<1> QED
  BY <1>3, <1>4 DEF Inherits

(* A function of which each value is made of those behind it exists.       *)
Causal(G, N, S) ==
  \A f, g \in [1 .. N -> S] : \A i \in 1 .. N :
    (\A j \in i + 1 .. N : f[j] = g[j]) => G[<<f, i>>] = G[<<g, i>>]

Solves(f, G, N) == \A i \in 1 .. N : f[i] = G[<<f, i>>]

LEMMA SolutionExists ==
  ASSUME NEW N \in Nat, NEW S, NEW s0 \in S,
         NEW G \in [[1 .. N -> S] \X (1 .. N) -> S], Causal(G, N, S)
  PROVE  \E f \in [1 .. N -> S] : Solves(f, G, N)
<1> DEFINE From(f, i) == \A k \in i .. N : f[k] = G[<<f, k>>]
           T == {i \in 1 .. N : \E f \in [1 .. N -> S] : From(f, i)}
<1>1. ASSUME NEW i \in 1 .. N, \A j \in i + 1 .. N : j \in T
      PROVE  i \in T
  <2>1. PICK f \in [1 .. N -> S] : From(f, i + 1)
    <3>1. CASE i = N
      <4>1. [k \in 1 .. N |-> s0] \in [1 .. N -> S]
        OBVIOUS
      <4>2. From([k \in 1 .. N |-> s0], i + 1)
        BY <3>1
      <4> HIDE DEF From
      <4> QED
        BY <4>1, <4>2
    <3>2. CASE i # N
      <4>1. i + 1 \in i + 1 .. N
        BY <3>2
      <4>2. i + 1 \in T
        BY <1>1, <4>1
      <4> HIDE DEF From
      <4> QED
        BY <4>2
    <3> QED
      BY <3>1, <3>2
  <2> DEFINE g == [f EXCEPT ![i] = G[<<f, i>>]]
  <2>2. G[<<f, i>>] \in S
    OBVIOUS
  <2>3. g \in [1 .. N -> S] /\ g[i] = G[<<f, i>>]
        /\ \A k \in 1 .. N : k # i => g[k] = f[k]
    BY <2>2
  <2> HIDE DEF g
  <2>4. ASSUME NEW k \in i .. N  PROVE  g[k] = G[<<g, k>>]
    <3>1. k \in 1 .. N /\ \A j \in k + 1 .. N : j \in 1 .. N /\ j # i
      OBVIOUS
    <3>2. \A j \in k + 1 .. N : f[j] = g[j]
      BY <2>3, <3>1
    <3>3. G[<<f, k>>] = G[<<g, k>>]
      BY <2>3, <3>1, <3>2 DEF Causal
    <3>4. g[k] = G[<<f, k>>]
      <4>1. CASE k = i
        BY <2>3, <4>1
      <4>2. CASE k # i
        <5>1. k \in i + 1 .. N
          BY <4>2
        <5> QED
          BY <2>1, <2>3, <3>1, <4>2, <5>1
      <4> QED
        BY <4>1, <4>2
    <3> QED
      BY <3>3, <3>4
  <2>5. From(g, i)
    BY <2>4
  <2> HIDE DEF From
  <2> QED
    BY <2>3, <2>5
<1>2. Inherits(T, N)
  <2> HIDE DEF T
  <2> QED
    BY <1>1 DEF Inherits
<1>3. \A i \in 1 .. N : i \in T
  <2> HIDE DEF T
  <2> QED
    BY <1>2, Downward
<1>4. CASE N = 0
  <2>1. [k \in 1 .. N |-> s0] \in [1 .. N -> S]
    OBVIOUS
  <2>2. Solves([k \in 1 .. N |-> s0], G, N)
    BY <1>4 DEF Solves
  <2> QED
    BY <2>1, <2>2
<1>5. CASE N # 0
  <2>1. 1 \in T
    <3> HIDE DEF T
    <3>1. 1 \in 1 .. N
      BY <1>5
    <3> QED
      BY <1>3, <3>1
  <2>2. PICK f \in [1 .. N -> S] : From(f, 1)
    BY <2>1
  <2> QED
    BY <2>2 DEF Solves
<1> QED
  BY <1>4, <1>5

-----------------------------------------------------------------------------
(* The encoder.                                                            *)
Encoded(str, f) ==
  [i \in 1 .. (Len(str) + 2) |->
     IF i > Len(str) THEN << >>
     ELSE IF IsSurrogate(str[i])
       THEN PairBytes(str[i], At(str, i + 1)) \o f[i + 2]
       ELSE UnitBytes(str[i]) \o f[i + 1]]

LEMMA UnitsAreNumbers == Unit \subseteq Nat
  BY SMT DEF Unit

LEMMA UnitBytesType ==
  ASSUME NEW u \in Nat
  PROVE  UnitBytes(u) \in Seq(Nat) /\ Len(UnitBytes(u)) \in Nat \ {0}
<1>1. u \div 64 \in Nat /\ u \div 4096 \in Nat
  BY SMT
<1>2. Tail6(u) \in Nat /\ Tail6(u \div 64) \in Nat
  BY <1>1, SMT DEF Tail6
<1>3. 192 + (u \div 64) \in Nat /\ 224 + (u \div 4096) \in Nat
  BY <1>1, SMT
<1> QED
  BY <1>2, <1>3, SMT DEF UnitBytes

LEMMA PairBytesType ==
  ASSUME NEW hi \in Nat, NEW lo \in Nat
  PROVE  PairBytes(hi, lo) \in Seq(Nat) /\ Len(PairBytes(hi, lo)) = 4
<1>1. PICK c \in Nat : c = CodePoint(hi, lo)
  BY SMT DEF CodePoint
<1>2. c \div 262144 \in Nat /\ c \div 4096 \in Nat /\ c \div 64 \in Nat
  BY SMT
<1>3. /\ 240 + (c \div 262144) \in Nat
      /\ Tail6(c \div 4096) \in Nat /\ Tail6(c \div 64) \in Nat /\ Tail6(c) \in Nat
  BY <1>2, SMT DEF Tail6
<1> QED
  BY <1>1, <1>3, SMT DEF PairBytes

(* What the encoder writes from each position of the text on.              *)
LEMMA EncoderExists ==
  ASSUME NEW str \in Seq(Unit)
  PROVE  \E f \in [1 .. (Len(str) + 2) -> Seq(Nat)] : f = Encoded(str, f)
<1> DEFINE n == Len(str)
           N == n + 2
           F == [1 .. N -> Seq(Nat)]
           Value(f, i) == IF i > n THEN << >>
                          ELSE IF IsSurrogate(str[i])
                            THEN PairBytes(str[i], At(str, i + 1)) \o f[i + 2]
                            ELSE UnitBytes(str[i]) \o f[i + 1]
           G == [x \in F \X (1 .. N) |-> Value(x[1], x[2])]
<1>1. n \in Nat /\ N \in Nat
  BY LenProperties
<1>2. ASSUME NEW i \in 1 .. N, i <= n
      PROVE  str[i] \in Nat /\ At(str, i + 1) \in Nat
  <2>1. \A j \in 1 .. n : str[j] \in Nat
    <3>1. \A j \in 1 .. n : str[j] \in Unit
      BY ElementOfSeq
    <3> QED
      BY <3>1, UnitsAreNumbers
  <2>2. DOMAIN str = 1 .. n
    BY LenProperties
  <2> QED
    BY <1>1, <1>2, <2>1, <2>2 DEF At
<1>3. ASSUME NEW f \in F, NEW i \in 1 .. N  PROVE  Value(f, i) \in Seq(Nat)
  <2>1. CASE i > n
    BY <2>1
  <2>2. CASE ~(i > n)
    <3>1. i + 1 \in 1 .. N /\ i + 2 \in 1 .. N /\ i <= n
      BY <1>1, <2>2
    <3>2. f[i + 1] \in Seq(Nat) /\ f[i + 2] \in Seq(Nat)
      BY <3>1
    <3>3. /\ PairBytes(str[i], At(str, i + 1)) \in Seq(Nat)
          /\ UnitBytes(str[i]) \in Seq(Nat)
      BY <1>2, <3>1, UnitBytesType, PairBytesType
    <3> QED
      BY <2>2, <3>2, <3>3, ConcatProperties
  <2> QED
    BY <2>1, <2>2
<1>4. ASSUME NEW f \in F, NEW i \in 1 .. N  PROVE  G[<<f, i>>] = Value(f, i)
  <2> HIDE DEF Value, F, N
  <2> QED
    OBVIOUS
<1>5. G \in [F \X (1 .. N) -> Seq(Nat)]
  <2> HIDE DEF Value, F, N
  <2> QED
    BY <1>3
<1>6. Causal(G, N, Seq(Nat))
  <2>1. ASSUME NEW f \in F, NEW g \in F, NEW i \in 1 .. N,
               \A j \in i + 1 .. N : f[j] = g[j]
        PROVE  Value(f, i) = Value(g, i)
    <3>1. CASE i > n
      BY <3>1
    <3>2. CASE ~(i > n)
      <4>1. i + 1 \in i + 1 .. N /\ i + 2 \in i + 1 .. N
        BY <1>1, <3>2
      <4> QED
        BY <2>1, <4>1
    <3> QED
      BY <3>1, <3>2
  <2>2. ASSUME NEW f \in F, NEW g \in F, NEW i \in 1 .. N,
               \A j \in i + 1 .. N : f[j] = g[j]
        PROVE  G[<<f, i>>] = G[<<g, i>>]
    <3> HIDE DEF Value, G, F, N
    <3> QED
      BY <1>4, <2>1, <2>2
  <2> HIDE DEF Value, G, N
  <2> QED
    BY <2>2, Zenon DEF Causal
<1>7. << >> \in Seq(Nat)
  OBVIOUS
<1>8. PICK f \in F : Solves(f, G, N)
  <2> HIDE DEF G, N
  <2> QED
    BY <1>1, <1>5, <1>6, <1>7, SolutionExists
<1>9. \A i \in 1 .. N : f[i] = Value(f, i)
  <2> HIDE DEF G, Value, F
  <2> QED
    BY <1>4, <1>8 DEF Solves
<1>10. f = Encoded(str, f)
  <2> HIDE DEF G
  <2>1. f = [i \in 1 .. N |-> Value(f, i)]
    <3> HIDE DEF Value
    <3> QED
      BY <1>9
  <2> QED
    BY <2>1 DEF Encoded
<1> QED
  BY <1>8, <1>10

(* f[i] are the bytes of the text from its i-th code unit on.              *)
Encodes(f, str) ==
  \A i \in 1 .. (Len(str) + 2) :
    /\ f[i] \in Seq(Nat)
    /\ i > Len(str) => f[i] = << >>
    /\ i <= Len(str) =>
         f[i] = IF IsSurrogate(str[i])
                  THEN PairBytes(str[i], At(str, i + 1)) \o f[i + 2]
                  ELSE UnitBytes(str[i]) \o f[i + 1]

LEMMA EncoderWrites ==
  ASSUME NEW str \in Seq(Unit)
  PROVE  \E f : Encodes(f, str) /\ toUTF8Array(str) = f[1]
<1> DEFINE n == Len(str)
           f == CHOOSE a : a = Encoded(str, a)
           T == {i \in 1 .. n + 2 : f[i] \in Seq(Nat)}
<1>1. n \in Nat /\ DOMAIN str = 1 .. n
  BY LenProperties
<1>2. f = Encoded(str, f)
  <2>1. PICK a \in [1 .. (n + 2) -> Seq(Nat)] : a = Encoded(str, a)
    BY EncoderExists
  <2> QED
    BY <2>1
<1>3. toUTF8Array(str) = f[1]
  BY DEF toUTF8Array, Encoded
<1> HIDE DEF f
<1>4. \A i \in 1 .. n : str[i] \in Nat
  <2>1. \A i \in 1 .. n : str[i] \in Unit
    BY ElementOfSeq
  <2> QED
    BY <2>1, UnitsAreNumbers
<1>5. ASSUME NEW i \in 1 .. n + 2
      PROVE  /\ i > n => f[i] = << >>
             /\ i <= n => f[i] = IF IsSurrogate(str[i])
                                  THEN PairBytes(str[i], At(str, i + 1)) \o f[i + 2]
                                  ELSE UnitBytes(str[i]) \o f[i + 1]
  <2>1. Encoded(str, f)[i] =
          IF i > n THEN << >>
          ELSE IF IsSurrogate(str[i])
            THEN PairBytes(str[i], At(str, i + 1)) \o f[i + 2]
            ELSE UnitBytes(str[i]) \o f[i + 1]
    BY Zenon DEF Encoded
  <2>2. f[i] = Encoded(str, f)[i]
    BY <1>2, Zenon
  <2>3. i \in Nat
    BY <1>1
  <2> HIDE DEF n
  <2> QED
    BY <1>1, <2>1, <2>2, <2>3
<1>6. ASSUME NEW i \in 1 .. n + 2, \A j \in i + 1 .. n + 2 : j \in T
      PROVE  i \in T
  <2>1. CASE i > n
    <3>1. f[i] = << >> /\ << >> \in Seq(Nat)
      BY <1>5, <2>1
    <3>2. f[i] \in Seq(Nat)
      BY <3>1
    <3> QED
      BY <3>2
  <2>2. CASE ~(i > n)
    <3>1. i + 1 \in i + 1 .. n + 2 /\ i + 2 \in i + 1 .. n + 2 /\ i \in 1 .. n /\ i <= n
      BY <1>1, <2>2
    <3>2. f[i + 1] \in Seq(Nat) /\ f[i + 2] \in Seq(Nat)
      BY <1>6, <3>1
    <3>3. At(str, i + 1) \in Nat
      BY <1>1, <1>4 DEF At
    <3>4. /\ PairBytes(str[i], At(str, i + 1)) \in Seq(Nat)
          /\ UnitBytes(str[i]) \in Seq(Nat)
      BY <1>4, <3>1, <3>3, UnitBytesType, PairBytesType
    <3>5. /\ PairBytes(str[i], At(str, i + 1)) \o f[i + 2] \in Seq(Nat)
          /\ UnitBytes(str[i]) \o f[i + 1] \in Seq(Nat)
      BY <3>2, <3>4, ConcatProperties
    <3>6. f[i] \in Seq(Nat)
      BY <1>5, <3>1, <3>5, Zenon
    <3> QED
      BY <3>6
  <2> QED
    BY <2>1, <2>2
<1>7. \A i \in 1 .. n + 2 : i \in T
  <2>1. Inherits(T, n + 2)
    <3> HIDE DEF T
    <3> QED
      BY <1>6 DEF Inherits
  <2>2. n + 2 \in Nat
    BY <1>1
  <2> HIDE DEF T
  <2> QED
    BY <2>1, <2>2, Downward
<1>8. Encodes(f, str)
  BY <1>5, <1>7 DEF Encodes
<1> QED
  BY <1>3, <1>8

-----------------------------------------------------------------------------
(* The decoder.                                                            *)
LEMMA WidthRange == ASSUME NEW b  PROVE Width(b) \in 1 .. 4
  BY DEF Width

LEMMA UnitsAtType ==
  ASSUME NEW data \in Seq(Nat), NEW i \in 1 .. Len(data)
  PROVE  UnitsAt(data, i) \in Seq(Int)
<1>1. \A j \in 1 .. Len(data) : data[j] \in Nat
  BY ElementOfSeq
<1>2. DOMAIN data = 1 .. Len(data) /\ Len(data) \in Nat
  BY LenProperties
<1>3. ASSUME NEW j \in Nat  PROVE Bits6(data, j) \in Nat
  <2>1. At(data, j) \in Nat
    BY <1>1, <1>2 DEF At
  <2> QED
    BY <2>1, SMT DEF Bits6
<1>4. PICK x \in Nat, y \in Nat, z \in Nat :
        x = Bits6(data, i + 1) /\ y = Bits6(data, i + 2) /\ z = Bits6(data, i + 3)
  <2>1. i + 1 \in Nat /\ i + 2 \in Nat /\ i + 3 \in Nat
    BY <1>2
  <2>2. /\ Bits6(data, i + 1) \in Nat /\ Bits6(data, i + 2) \in Nat
        /\ Bits6(data, i + 3) \in Nat
    BY <1>3, <2>1
  <2> QED
    BY <2>2
<1>5. PICK b \in Nat : b = data[i]
  BY <1>1
<1>6. b % 8 \in Int /\ b % 16 \in Int /\ b % 32 \in Int
  BY SMT
<1>7. PICK c \in Int : c = (b % 8) * 262144 + x * 4096 + y * 64 + z - 65536
  BY <1>6, SMT
<1>8. c \div 1024 \in Int /\ c % 1024 \in Int
  BY SMT
<1>9. CASE Width(b) = 1
  BY <1>5, <1>9 DEF UnitsAt
<1>10. CASE Width(b) = 2
  <2>1. ((b % 32) * 64) + x \in Int
    BY <1>6, SMT
  <2>2. UnitsAt(data, i) = <<((b % 32) * 64) + x>>
    BY <1>4, <1>5, <1>10, SMT DEF UnitsAt
  <2> QED
    BY <2>1, <2>2
<1>11. CASE Width(b) = 3
  <2>1. (b % 16) * 4096 + x * 64 + y \in Int
    BY <1>6, SMT
  <2>2. UnitsAt(data, i) = <<(b % 16) * 4096 + x * 64 + y>>
    BY <1>4, <1>5, <1>11, SMT DEF UnitsAt
  <2> QED
    BY <2>1, <2>2
<1>12. CASE Width(b) = 4
  <2>1. 55296 + (c \div 1024) \in Int /\ 56320 + (c % 1024) \in Int
    BY <1>8, SMT
  <2>2. UnitsAt(data, i) = <<55296 + (c \div 1024), 56320 + (c % 1024)>>
    BY <1>4, <1>5, <1>7, <1>12, SMT DEF UnitsAt
  <2> QED
    BY <2>1, <2>2, SMT
<1> QED
  BY <1>9, <1>10, <1>11, <1>12, WidthRange

Decoded(data, f) ==
  [i \in 1 .. (Len(data) + 4) |->
     IF i > Len(data) THEN << >>
     ELSE UnitsAt(data, i) \o f[i + Width(data[i])]]

LEMMA DecoderExists ==
  ASSUME NEW data \in Seq(Nat)
  PROVE  \E f : f = Decoded(data, f)
<1> DEFINE n == Len(data)
           N == n + 4
           F == [1 .. N -> Seq(Int)]
           Value(f, i) == IF i > n THEN << >>
                          ELSE UnitsAt(data, i) \o f[i + Width(data[i])]
           G == [x \in F \X (1 .. N) |-> Value(x[1], x[2])]
<1>1. n \in Nat /\ N \in Nat
  BY LenProperties
<1>2. ASSUME NEW i \in 1 .. N, ~(i > n)
      PROVE  /\ i \in 1 .. n /\ i + Width(data[i]) \in i + 1 .. N
             /\ i + Width(data[i]) \in 1 .. N
  <2> HIDE DEF n
  <2>1. Width(data[i]) \in 1 .. 4
    BY WidthRange
  <2> QED
    BY <1>1, <1>2, <2>1
<1>3. ASSUME NEW f \in F, NEW i \in 1 .. N  PROVE  Value(f, i) \in Seq(Int)
  <2>1. CASE i > n
    BY <2>1
  <2>2. CASE ~(i > n)
    <3>1. f[i + Width(data[i])] \in Seq(Int)
      BY <1>2, <2>2
    <3>2. UnitsAt(data, i) \in Seq(Int)
      BY <1>2, <2>2, UnitsAtType
    <3> QED
      BY <2>2, <3>1, <3>2, ConcatProperties
  <2> QED
    BY <2>1, <2>2
<1>4. ASSUME NEW f \in F, NEW i \in 1 .. N  PROVE  G[<<f, i>>] = Value(f, i)
  <2> HIDE DEF Value, F, N
  <2> QED
    OBVIOUS
<1>5. G \in [F \X (1 .. N) -> Seq(Int)]
  <2> HIDE DEF Value, F, N
  <2> QED
    BY <1>3
<1>6. Causal(G, N, Seq(Int))
  <2>1. ASSUME NEW f \in F, NEW g \in F, NEW i \in 1 .. N,
               \A j \in i + 1 .. N : f[j] = g[j]
        PROVE  Value(f, i) = Value(g, i)
    <3>1. CASE i > n
      BY <3>1
    <3>2. CASE ~(i > n)
      BY <1>2, <2>1, <3>2
    <3> QED
      BY <3>1, <3>2
  <2>2. ASSUME NEW f \in F, NEW g \in F, NEW i \in 1 .. N,
               \A j \in i + 1 .. N : f[j] = g[j]
        PROVE  G[<<f, i>>] = G[<<g, i>>]
    <3> HIDE DEF Value, G, F, N
    <3> QED
      BY <1>4, <2>1, <2>2
  <2> HIDE DEF Value, G, N
  <2> QED
    BY <2>2, Zenon DEF Causal
<1>7. << >> \in Seq(Int)
  OBVIOUS
<1>8. PICK f \in F : Solves(f, G, N)
  <2> HIDE DEF G, N
  <2> QED
    BY <1>1, <1>5, <1>6, <1>7, SolutionExists
<1>9. \A i \in 1 .. N : f[i] = Value(f, i)
  <2> HIDE DEF G, Value, F
  <2> QED
    BY <1>4, <1>8 DEF Solves
<1>10. f = Decoded(data, f)
  <2> HIDE DEF G
  <2>1. f = [i \in 1 .. N |-> Value(f, i)]
    <3> HIDE DEF Value
    <3> QED
      BY <1>9
  <2> QED
    BY <2>1 DEF Decoded
<1> QED
  BY <1>10

(* f[i] is the text that the data hold from their i-th byte on.            *)
Decodes(f, data) ==
  \A i \in 1 .. (Len(data) + 4) :
    f[i] = IF i > Len(data) THEN << >>
           ELSE UnitsAt(data, i) \o f[i + Width(data[i])]

LEMMA DecoderReads ==
  ASSUME NEW data \in Seq(Nat)
  PROVE  \E f : Decodes(f, data) /\ fromUTF8Array(data) = f[1]
<1> DEFINE f == CHOOSE a : a = Decoded(data, a)
<1>1. f = Decoded(data, f)
  BY DecoderExists
<1>2. fromUTF8Array(data) = f[1]
  BY DEF fromUTF8Array, Decoded
<1> HIDE DEF f
<1>3. ASSUME NEW i \in 1 .. (Len(data) + 4)
      PROVE  f[i] = IF i > Len(data) THEN << >>
                    ELSE UnitsAt(data, i) \o f[i + Width(data[i])]
  <2>1. Decoded(data, f)[i] = IF i > Len(data) THEN << >>
                              ELSE UnitsAt(data, i) \o f[i + Width(data[i])]
    BY Zenon DEF Decoded
  <2>2. f[i] = Decoded(data, f)[i]
    BY <1>1, Zenon
  <2> QED
    BY <2>1, <2>2, Zenon
<1>4. Decodes(f, data)
  BY <1>3, Zenon DEF Decodes
<1> QED
  BY <1>2, <1>4

-----------------------------------------------------------------------------
(* From the end of the text backwards: wherever the bytes of the rest of   *)
(* the text end the data, the decoder reads that rest there.               *)

LEMMA StandsInTwo ==
  ASSUME NEW a \in Seq(Nat), NEW b \in Seq(Nat), NEW data, NEW p \in Nat \ {0},
         StandsAt(a \o b, data, p)
  PROVE  StandsAt(a, data, p) /\ StandsAt(b, data, p + Len(a))
<1>1. Len(a) \in Nat /\ Len(b) \in Nat
  BY LenProperties
<1>2. /\ Len(a \o b) = Len(a) + Len(b)
      /\ \A k \in 1 .. Len(a) : (a \o b)[k] = a[k]
      /\ \A k \in Len(a) + 1 .. Len(a) + Len(b) : (a \o b)[k] = b[k - Len(a)]
  BY ConcatProperties
<1>3. ASSUME NEW k \in 1 .. Len(a)
      PROVE  p + k - 1 \in DOMAIN data /\ data[p + k - 1] = a[k]
  <2>1. k \in 1 .. Len(a \o b)
    BY <1>1, <1>2
  <2> QED
    BY <1>2, <2>1 DEF StandsAt
<1>4. ASSUME NEW k \in 1 .. Len(b)
      PROVE  p + Len(a) + k - 1 \in DOMAIN data /\ data[p + Len(a) + k - 1] = b[k]
  <2>1. /\ Len(a) + k \in 1 .. Len(a \o b) /\ Len(a) + k \in Len(a) + 1 .. Len(a) + Len(b)
        /\ (Len(a) + k) - Len(a) = k /\ p + (Len(a) + k) - 1 = p + Len(a) + k - 1
    BY <1>1, <1>2
  <2>2. (a \o b)[Len(a) + k] = b[k]
    BY <1>2, <2>1
  <2>3. /\ p + (Len(a) + k) - 1 \in DOMAIN data
        /\ data[p + (Len(a) + k) - 1] = (a \o b)[Len(a) + k]
    BY <2>1 DEF StandsAt
  <2> QED
    BY <2>1, <2>2, <2>3
<1> QED
  BY <1>3, <1>4 DEF StandsAt

LEMMA CutText ==
  ASSUME NEW S, NEW str \in Seq(S), NEW i \in 1 .. Len(str), NEW h \in Seq(S),
         i + Len(h) - 1 <= Len(str),
         \A k \in 1 .. Len(h) : h[k] = str[i + k - 1]
  PROVE  SubSeq(str, i, Len(str)) = h \o SubSeq(str, i + Len(h), Len(str))
<1> DEFINE n == Len(str)
           w == Len(h)
           rest == SubSeq(str, i + w, n)
           all == SubSeq(str, i, n)
           both == h \o rest
<1>1. n \in Nat /\ w \in Nat /\ i \in 1 .. n /\ i + w - 1 <= n
  BY LenProperties
<1>2. /\ all \in Seq(S) /\ Len(all) = n - i + 1
      /\ \A k \in 1 .. n - i + 1 : all[k] = str[i + k - 1]
  <2>1. \A j \in i .. n : j \in 1 .. n
    BY <1>1
  <2>2. \A j \in i .. n : str[j] \in S
    BY <2>1, ElementOfSeq
  <2> QED
    BY <1>1, <2>2, SubSeqProperties
<1>3. /\ rest \in Seq(S) /\ Len(rest) = n - i - w + 1
      /\ \A k \in 1 .. n - i - w + 1 : rest[k] = str[i + w + k - 1]
  <2>1. \A j \in i + w .. n : j \in 1 .. n
    BY <1>1
  <2>2. \A j \in i + w .. n : str[j] \in S
    BY <2>1, ElementOfSeq
  <2>3. i + w \in Int /\ n \in Int
    BY <1>1
  <2>4. /\ rest \in Seq(S) /\ Len(rest) = IF i + w <= n THEN n - (i + w) + 1 ELSE 0
        /\ \A k \in 1 .. n - (i + w) + 1 : rest[k] = str[(i + w) + k - 1]
    BY <2>2, <2>3, SubSeqProperties
  <2> HIDE DEF rest, n, w
  <2> QED
    BY <1>1, <2>4
<1>4. /\ both \in Seq(S) /\ Len(both) = w + Len(rest)
      /\ \A k \in 1 .. w + Len(rest) : both[k] = IF k <= w THEN h[k] ELSE rest[k - w]
  <2> HIDE DEF rest
  <2> QED
    BY <1>3, ConcatProperties
<1>5. \A k \in 1 .. w : h[k] = str[i + k - 1]
  OBVIOUS
<1> HIDE DEF n, w, rest, all, both
<1>6. ASSUME NEW k \in 1 .. n - i + 1  PROVE  all[k] = both[k]
  <2>1. k \in 1 .. w + Len(rest)
    BY <1>1, <1>3
  <2>2. CASE k <= w
    <3>1. k \in 1 .. w
      BY <1>1, <2>2
    <3> QED
      BY <1>2, <1>4, <1>5, <2>1, <2>2, <3>1
  <2>3. CASE ~(k <= w)
    <3>1. k - w \in 1 .. n - i - w + 1 /\ i + w + (k - w) - 1 = i + k - 1
      BY <1>1, <2>3
    <3>2. rest[k - w] = str[i + k - 1]
      BY <1>3, <3>1
    <3> QED
      BY <1>2, <1>4, <2>1, <2>3, <3>2
  <2> QED
    BY <2>2, <2>3
<1>7. Len(both) = n - i + 1
  BY <1>1, <1>3, <1>4
<1>8. all = both
  BY <1>2, <1>4, <1>6, <1>7, SeqEqual
<1> QED
  BY <1>8 DEF all, both, rest, n, w

LEMMA RestOfText ==
  ASSUME NEW S, NEW str \in Seq(S), NEW i \in 1 .. Len(str)
  PROVE  SubSeq(str, i, Len(str)) = <<str[i]>> \o SubSeq(str, i + 1, Len(str))
<1> DEFINE h == <<str[i]>>
<1>1. str[i] \in S /\ Len(str) \in Nat
  BY ElementOfSeq, LenProperties
<1>2. h \in Seq(S) /\ Len(h) = 1 /\ h[1] = str[i]
  BY <1>1
<1> HIDE DEF h
<1>3. i + Len(h) - 1 <= Len(str) /\ \A k \in 1 .. Len(h) : h[k] = str[i + k - 1]
  BY <1>1, <1>2
<1>4. SubSeq(str, i, Len(str)) = h \o SubSeq(str, i + Len(h), Len(str))
  BY <1>2, <1>3, CutText
<1> QED
  BY <1>2, <1>4 DEF h

LEMMA RestOfPair ==
  ASSUME NEW S, NEW str \in Seq(S), NEW i \in 1 .. Len(str), i + 1 \in 1 .. Len(str)
  PROVE  SubSeq(str, i, Len(str)) = <<str[i], str[i + 1]>> \o SubSeq(str, i + 2, Len(str))
<1> DEFINE h == <<str[i], str[i + 1]>>
<1>1. str[i] \in S /\ str[i + 1] \in S /\ Len(str) \in Nat
  BY ElementOfSeq, LenProperties
<1>2. h \in Seq(S) /\ Len(h) = 2 /\ h[1] = str[i] /\ h[2] = str[i + 1]
  BY <1>1
<1> HIDE DEF h
<1>3. i + Len(h) - 1 <= Len(str)
  BY <1>1, <1>2
<1>4. \A k \in 1 .. Len(h) : h[k] = str[i + k - 1]
  <2>1. \A k \in 1 .. Len(h) : k = 1 \/ k = 2
    BY <1>2
  <2>2. i + 1 - 1 = i /\ i + 2 - 1 = i + 1
    OBVIOUS
  <2> QED
    BY <1>2, <2>1, <2>2
<1>5. SubSeq(str, i, Len(str)) = h \o SubSeq(str, i + Len(h), Len(str))
  BY <1>2, <1>3, <1>4, CutText
<1> QED
  BY <1>2, <1>5 DEF h

LEMMA KindsOfUnits ==
  \A u \in Unit : /\ IsUnit(u) /\ u \in Nat
                  /\ IsSurrogate(u) <=> IsHigh(u) \/ IsLow(u)
                  /\ ~(IsHigh(u) /\ IsLow(u))
<1> TAKE u \in Unit
<1>1. u \in Nat /\ u < 65536 /\ IsUnit(u)
  <2>1. u \in Nat /\ u < 65536
    BY SMT DEF Unit
  <2> QED
    BY <2>1, SMT DEF IsUnit
<1>2. /\ IsHigh(u) <=> 55296 <= u /\ u < 56320
      /\ IsLow(u) <=> 56320 <= u /\ u < 57344
  BY <1>1, SMT DEF IsHigh, IsLow
<1> QED
  BY <1>1, <1>2, SMT DEF IsSurrogate

LEMMA HighAndLow ==
  ASSUME NEW hi \in Unit, NEW lo \in Unit
  PROVE  PairBytes(hi, lo) \in Seq(Nat) /\ Len(PairBytes(hi, lo)) = 4
  BY UnitsAreNumbers, PairBytesType

(* p is a position of m bytes, w bytes further there are l more.           *)
Inside(m, p, w, l) ==
  /\ p \in Nat \ {0} /\ p \in 1 .. m + 4 /\ ~(p > m) /\ p + w \in 1 .. m + 1
  /\ (p + w) + l = m + 1

LEMMA Advance ==
  ASSUME NEW m \in Nat, NEW p \in 1 .. m + 1, NEW w \in Nat \ {0}, NEW l \in Nat,
         p + (w + l) = m + 1
  PROVE  Inside(m, p, w, l)
  BY DEF Inside

(* Every text without half a surrogate pair arrives as it was sent.        *)
THEOREM TextArrives ==
  ASSUME NEW str \in Seq(Unit), WellFormed(str)
  PROVE  fromUTF8Array(toUTF8Array(str)) = str
<1> DEFINE n == Len(str)
           data == toUTF8Array(str)
<1>1. n \in Nat /\ DOMAIN str = 1 .. n /\ \A j \in 1 .. n : str[j] \in Unit
  BY LenProperties, ElementOfSeq
<1>2. PICK E : Encodes(E, str) /\ data = E[1]
  BY EncoderWrites
<1>3. data \in Seq(Nat)
  <2>1. 1 \in 1 .. (n + 2)
    BY <1>1
  <2> QED
    BY <1>2, <2>1 DEF Encodes
<1> HIDE DEF data
<1>4. PICK D : Decodes(D, data) /\ fromUTF8Array(data) = D[1]
  BY <1>3, DecoderReads
<1> DEFINE m == Len(data)
<1>5. m \in Nat
  BY <1>3, LenProperties
<1> DEFINE Begins(i) == i \in 1 .. n => ~IsLow(str[i])
           EndsData(i, p) == StandsAt(E[i], data, p) /\ p + Len(E[i]) = m + 1
           T == {i \in 1 .. n + 1 : Begins(i) =>
                   \A p \in 1 .. m + 1 : EndsData(i, p) => D[p] = SubSeq(str, i, n)}
<1>6. ASSUME NEW i \in 1 .. n + 1, \A j \in i + 1 .. n + 1 : j \in T, Begins(i),
             NEW p \in 1 .. m + 1, EndsData(i, p)
      PROVE  D[p] = SubSeq(str, i, n)
  <2>1. CASE i = n + 1
    <3>1. i \in 1 .. n + 2 /\ i > n
      BY <1>1, <2>1
    <3>2. E[i] = << >>
      BY <1>2, <3>1 DEF Encodes
    <3>3. p = m + 1
      BY <1>5, <1>6, <3>2
    <3>4. p \in 1 .. m + 4 /\ p > m
      BY <1>5, <3>3
    <3>5. D[p] = << >>
      BY <1>4, <3>4 DEF Decodes
    <3>6. SubSeq(str, i, n) = << >>
      BY <1>1, <2>1, SubSeqEmpty
    <3> QED
      BY <3>5, <3>6
  <2>2. CASE i # n + 1 /\ ~IsSurrogate(str[i])
    <3> DEFINE bytes == UnitBytes(str[i])
               w == Len(bytes)
    <3>1. i \in 1 .. n /\ i \in 1 .. n + 2 /\ i + 1 \in 1 .. n + 2 /\ i <= n
          /\ i + 1 \in i + 1 .. n + 1 /\ (i + 1) - 1 = i
      BY <1>1, <2>2
    <3>2. E[i] = bytes \o E[i + 1] /\ E[i + 1] \in Seq(Nat)
      BY <1>2, <2>2, <3>1 DEF Encodes
    <3>3. IsUnit(str[i]) /\ str[i] \in Nat /\ bytes \in Seq(Nat) /\ w \in Nat \ {0}
      BY <1>1, <3>1, KindsOfUnits, UnitBytesType
    <3> HIDE DEF w
    <3>4. StandsAt(bytes, data, p) /\ StandsAt(E[i + 1], data, p + w)
      <4>1. p \in Nat \ {0}
        BY <1>5
      <4>2. StandsAt(bytes \o E[i + 1], data, p)
        BY <1>6, <3>2
      <4> QED
        BY <3>2, <3>3, <4>1, <4>2, StandsInTwo, Zenon DEF w
    <3>5. Len(E[i]) = w + Len(E[i + 1]) /\ Len(E[i + 1]) \in Nat
      <4>1. Len(bytes \o E[i + 1]) = w + Len(E[i + 1])
        BY <3>2, <3>3, ConcatProperties, Zenon DEF w
      <4> QED
        BY <3>2, <4>1, LenProperties
    <3>6. /\ p \in Nat \ {0} /\ p \in 1 .. m + 4 /\ ~(p > m) /\ p + w \in 1 .. m + 1
          /\ (p + w) + Len(E[i + 1]) = m + 1
      <4>1. p + (w + Len(E[i + 1])) = m + 1
        BY <1>6, <3>5
      <4>2. w \in Nat \ {0} /\ Len(E[i + 1]) \in Nat
        BY <3>3, <3>5
      <4> HIDE DEF m, EndsData
      <4>3. Inside(m, p, w, Len(E[i + 1]))
        BY <1>5, <4>1, <4>2, Advance
      <4> QED
        BY <4>3, Zenon DEF Inside
    <3>7. Width(data[p]) = w /\ UnitsAt(data, p) = <<str[i]>>
      <4> HIDE DEF bytes
      <4>1. StandsAt(UnitBytes(str[i]), data, p)
        BY <3>4 DEF bytes
      <4> QED
        BY <1>3, <2>2, <3>3, <3>6, <4>1, UnitArrives, Zenon DEF w, bytes
    <3>8. D[p] = <<str[i]>> \o D[p + w]
      BY <1>4, <3>6, <3>7 DEF Decodes
    <3>9. Begins(i + 1)
      <4>1. ASSUME i + 1 \in 1 .. n, IsLow(str[i + 1])  PROVE  FALSE
        <5>1. IsHigh(str[(i + 1) - 1])
          BY <1>1, <4>1, Zenon DEF WellFormed
        <5>2. IsHigh(str[i])
          BY <3>1, <5>1
        <5> QED
          BY <1>1, <2>2, <3>1, <5>2, KindsOfUnits
      <4> QED
        BY <4>1
    <3>10. D[p + w] = SubSeq(str, i + 1, n)
      <4>1. i + 1 \in T /\ EndsData(i + 1, p + w)
        BY <1>6, <3>1, <3>4, <3>6
      <4> QED
        BY <3>6, <3>9, <4>1
    <3> QED
      BY <3>1, <3>8, <3>10, RestOfText
  <2>3. CASE i # n + 1 /\ IsSurrogate(str[i])
    <3> DEFINE hi == str[i]
               lo == str[i + 1]
               bytes == PairBytes(hi, lo)
    <3>1. i \in 1 .. n /\ i \in 1 .. n + 2 /\ i <= n
      BY <1>1, <2>3
    <3>2. IsHigh(hi)
      BY <1>1, <1>6, <2>3, <3>1, KindsOfUnits
    <3>3. i + 1 \in 1 .. n /\ IsLow(lo)
      BY <1>1, <3>1, <3>2, Zenon DEF WellFormed
    <3>4. i + 2 \in 1 .. n + 2 /\ i + 2 \in i + 1 .. n + 1 /\ (i + 2) - 1 = i + 1
      BY <1>1, <3>1, <3>3
    <3>5. At(str, i + 1) = lo /\ hi \in Unit /\ lo \in Unit
      BY <1>1, <3>1, <3>3 DEF At
    <3>6. E[i] = bytes \o E[i + 2] /\ E[i + 2] \in Seq(Nat)
      BY <1>2, <2>3, <3>1, <3>4, <3>5 DEF Encodes
    <3>7. bytes \in Seq(Nat) /\ Len(bytes) = 4
      BY <3>5, HighAndLow
    <3>8. StandsAt(bytes, data, p) /\ StandsAt(E[i + 2], data, p + 4)
      <4>1. p \in Nat \ {0}
        BY <1>5
      <4>2. StandsAt(bytes \o E[i + 2], data, p)
        BY <1>6, <3>6
      <4> HIDE DEF bytes
      <4>3. StandsAt(bytes, data, p) /\ StandsAt(E[i + 2], data, p + Len(bytes))
        BY <3>6, <3>7, <4>1, <4>2, StandsInTwo, Zenon
      <4> QED
        BY <3>7, <4>3
    <3>9. Len(E[i]) = 4 + Len(E[i + 2]) /\ Len(E[i + 2]) \in Nat
      <4> HIDE DEF bytes
      <4>1. Len(bytes \o E[i + 2]) = Len(bytes) + Len(E[i + 2])
        BY <3>6, <3>7, ConcatProperties, Zenon
      <4> QED
        BY <3>6, <3>7, <4>1, LenProperties
    <3>10. /\ p \in Nat \ {0} /\ p \in 1 .. m + 4 /\ ~(p > m) /\ p + 4 \in 1 .. m + 1
           /\ (p + 4) + Len(E[i + 2]) = m + 1
      <4>1. p + (4 + Len(E[i + 2])) = m + 1
        BY <1>6, <3>9
      <4>2. 4 \in Nat \ {0}
        OBVIOUS
      <4> HIDE DEF m, EndsData
      <4>3. Inside(m, p, 4, Len(E[i + 2]))
        BY <1>5, <3>9, <4>1, <4>2, Advance
      <4> QED
        BY <4>3, Zenon DEF Inside
    <3>11. Width(data[p]) = 4 /\ UnitsAt(data, p) = <<hi, lo>>
      <4>1. hi \in Nat /\ lo \in Nat
        BY <3>5, KindsOfUnits, Zenon
      <4> QED
        BY <1>3, <3>2, <3>3, <3>8, <3>10, <4>1, PairArrives, Zenon
    <3>12. D[p] = <<hi, lo>> \o D[p + 4]
      BY <1>4, <3>10, <3>11 DEF Decodes
    <3>13. Begins(i + 2)
      <4>1. ASSUME i + 2 \in 1 .. n, IsLow(str[i + 2])  PROVE  FALSE
        <5>1. IsHigh(str[(i + 2) - 1])
          BY <1>1, <4>1, Zenon DEF WellFormed
        <5>2. IsHigh(lo)
          BY <3>4, <5>1
        <5> QED
          BY <3>3, <3>5, <5>2, KindsOfUnits
      <4> QED
        BY <4>1
    <3>14. D[p + 4] = SubSeq(str, i + 2, n)
      <4>1. i + 2 \in T /\ EndsData(i + 2, p + 4)
        BY <1>6, <3>4, <3>8, <3>10
      <4> QED
        BY <3>10, <3>13, <4>1
    <3> QED
      BY <3>1, <3>3, <3>12, <3>14, RestOfPair
  <2> QED
    BY <2>1, <2>2, <2>3
<1>7. \A i \in 1 .. n + 1 : i \in T
  <2>1. ASSUME NEW i \in 1 .. n + 1, \A j \in i + 1 .. n + 1 : j \in T
        PROVE  i \in T
    <3> HIDE DEF Begins, EndsData
    <3> QED
      BY <1>6, <2>1
  <2> HIDE DEF T
  <2>2. Inherits(T, n + 1) /\ n + 1 \in Nat
    BY <1>1, <2>1 DEF Inherits
  <2> QED
    BY <2>2, Downward
<1>8. Begins(1)
  <2>1. ASSUME 1 \in 1 .. n, IsLow(str[1])  PROVE  FALSE
    <3>1. 1 - 1 \in 1 .. n
      BY <1>1, <2>1, Zenon DEF WellFormed
    <3> QED
      BY <1>1, <3>1
  <2> QED
    BY <2>1
<1>9. EndsData(1, 1)
  <2>1. DOMAIN data = 1 .. m
    BY <1>3, LenProperties
  <2>2. StandsAt(data, data, 1)
    BY <1>5, <2>1 DEF StandsAt
  <2> QED
    BY <1>2, <1>5, <2>2
<1>10. D[1] = SubSeq(str, 1, n)
  <2>1. 1 \in T /\ 1 \in 1 .. m + 1
    BY <1>1, <1>5, <1>7
  <2> QED
    BY <1>8, <1>9, <2>1
<1>11. SubSeq(str, 1, n) = str
  OBVIOUS
<1> QED
  BY <1>4, <1>10, <1>11 DEF data

-----------------------------------------------------------------------------
(* What a handler is called with was published.                            *)
LEMMA OnlyMessagesStart ==
  ASSUME SubscriptionInv, started \subseteq Messages, [Next]_vars
  PROVE  started' \subseteq Messages
<1>1. ASSUME NEW m \in Messages, Delivers(m) \/ Handles(m) \/ Repeats(m)
      PROVE  started' \subseteq Messages
  BY <1>1 DEF Delivers, Handles, Repeats, Deliver, Fetch, HandlerReturns, AckWaitEnds,
              historyVars
<1>2. CASE Starts
  <2>1. buffer \in Seq(Messages) /\ buffer # << >>
    BY <1>2 DEF SubscriptionInv, SubscriptionTypeOK, Starts, HandlerStarts
  <2>2. Head(buffer) \in Messages
    BY <2>1
  <2> QED
    BY <1>2, <2>2 DEF Starts, HandlerStarts
<1>3. ASSUME UNCHANGED started  PROVE  started' \subseteq Messages
  BY <1>3
<1>4. CASE HandlerRejects \/ Publishes
  BY <1>3, <1>4 DEF HandlerRejects, HandlerThrows, Publishes, Publish, RepeatsEarly,
                    historyVars
<1>5. CASE Asks \/ Answers \/ Subscribes \/ Unsubscribes
  BY <1>3, <1>5 DEF Asks, Answers, Elsewhere, Subscribes, SubscribeOpens,
                    SubscribeRefused, StreamEnds, Unsubscribe, Unsubscribes, Unsubscribed,
                    UnsubscribeTimesOut, historyVars
<1>6. CASE ShutdownBegins \/ HookFails \/ Exits \/ Restart \/ UNCHANGED vars
  BY <1>3, <1>6 DEF ShutdownBegins, HookFails, Exits, Restart, ProcessGone, vars,
                    subscriptionVars, historyVars
<1> QED
  BY <1>1, <1>2, <1>4, <1>5, <1>6 DEF Next

(* Over rusi the bus hands the handler the very text that was published,   *)
(* whatever characters it is made of.                                      *)
THEOREM TextsDelivered == Spec => []DeliveredIntact
<1>1. Init => started \subseteq Messages
  BY DEF Init, SubscriptionInit
<1>2. SubscriptionInv /\ started \subseteq Messages /\ [Next]_vars
        => (started \subseteq Messages)'
  BY OnlyMessagesStart
<1>3. started \subseteq Messages => DeliveredIntact
  <2> SUFFICES ASSUME started \subseteq Messages, NEW m \in started
               PROVE  fromUTF8Array(toUTF8Array(Text[m])) = Text[m]
    BY DEF DeliveredIntact
  <2>1. Text[m] \in Seq(Unit) /\ WellFormed(Text[m])
    BY TextAssumption
  <2> QED
    BY <2>1, TextArrives
<1> QED
  BY <1>1, <1>2, <1>3, SubscriptionInvariant, PTL DEF Spec
=============================================================================
