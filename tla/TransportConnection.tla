------------------------- MODULE TransportConnection -------------------------
(***************************************************************************)
(* The one connection of a transport of the message bus, made when it is   *)
(* first needed: connect, _connect and disconnect of the nats, jetstream   *)
(* and rusi transports.  Users are the calls of connect, publish and       *)
(* subscribe, which all begin by getting the connection; Closers the calls *)
(* of disconnect.  They take turns by a mutex, except that a connection    *)
(* there is, or none to close, needs no turn.  The pc of a call:           *)
(*                                                                         *)
(*   idle     not made yet             closing  awaits close (jetstream)   *)
(*   acquire  awaits its turn          done     has its connection, or is  *)
(*   opening  awaits the new                    rid of it                  *)
(*            connection               failed   rejected                   *)
(*                                                                         *)
(* Connections are numbered as they are made.                              *)
(***************************************************************************)
EXTENDS Naturals, Sequences, FiniteSets

CONSTANTS Users, Closers

ASSUME CallsAssumption == Users \cap Closers = {}

VARIABLES
  transport,   \* the transport in use
  pc,
  mutex,       \* the calls at the mutex in order of arrival; the first holds it
  connection,  \* the connection kept by the module, or None
  open,        \* the connections that are open
  made         \* how many were ever made

connectionVars == <<transport, pc, mutex, connection, open, made>>

Transports == {"nats", "jetstream", "rusi"}
Calls == Users \cup Closers
None == 0

ConnectionTypeOK ==
  /\ transport \in Transports
  /\ pc \in [Calls -> {"idle", "acquire", "opening", "closing", "done", "failed"}]
  /\ mutex \in Seq(Calls)
  /\ made \in Nat
  /\ connection \in 0..made
  /\ open \subseteq 1..made

ConnectionInit ==
  /\ transport \in Transports
  /\ pc = [c \in Calls |-> "idle"]
  /\ mutex = << >>
  /\ connection = None
  /\ open = {}
  /\ made = 0

-----------------------------------------------------------------------------
(* Mutant: jetstream keeps a closed connection, as nats does.              *)
UsableOnceMade(n) == n # None

(* Only jetstream asks whether the connection it has is closed.            *)
Usable(n) == n # None /\ (transport = "jetstream" => n \in open)

ItsTurn(c) == pc[c] = "acquire" /\ mutex # << >> /\ Head(mutex) = c

Becomes(c, p) == pc' = [pc EXCEPT ![c] = p]
Release == mutex' = Tail(mutex)

ConnectFast(c) ==
  /\ pc[c] = "idle" /\ Usable(connection)
  /\ Becomes(c, "done")
  /\ UNCHANGED <<mutex, connection, open, made>>

ConnectAcquires(c) ==
  /\ pc[c] = "idle" /\ ~Usable(connection)
  /\ Becomes(c, "acquire")
  /\ mutex' = Append(mutex, c)
  /\ UNCHANGED <<connection, open, made>>

(* Somebody else has made the connection in the meantime.                  *)
ConnectRechecks(c) ==
  /\ ItsTurn(c) /\ Usable(connection)
  /\ Becomes(c, "done")
  /\ Release
  /\ UNCHANGED <<connection, open, made>>

(* Mutant: no second look once it has the lock.                            *)
ConnectOpensUnchecked(c) ==
  /\ ItsTurn(c)
  /\ Becomes(c, "opening")
  /\ UNCHANGED <<mutex, connection, open, made>>

ConnectOpens(c) ==
  /\ ItsTurn(c) /\ ~Usable(connection)
  /\ Becomes(c, "opening")
  /\ UNCHANGED <<mutex, connection, open, made>>

Opened(c) ==
  /\ pc[c] = "opening"
  /\ Becomes(c, "done")
  /\ made' = made + 1
  /\ connection' = made + 1
  /\ open' = open \cup {made + 1}
  /\ Release

(* Mutant: an error leaves the mutex locked.                               *)
OpenFailsLocked(c) ==
  /\ pc[c] = "opening"
  /\ Becomes(c, "failed")
  /\ UNCHANGED <<mutex, connection, open, made>>

OpenFails(c) ==
  /\ pc[c] = "opening"
  /\ Becomes(c, "failed")
  /\ Release
  /\ UNCHANGED <<connection, open, made>>

DisconnectFast(c) ==
  /\ pc[c] = "idle" /\ connection = None
  /\ Becomes(c, "done")
  /\ UNCHANGED <<mutex, connection, open, made>>

DisconnectAcquires(c) ==
  /\ pc[c] = "idle" /\ connection # None
  /\ Becomes(c, "acquire")
  /\ mutex' = Append(mutex, c)
  /\ UNCHANGED <<connection, open, made>>

DisconnectRechecks(c) ==
  /\ ItsTurn(c) /\ connection = None
  /\ Becomes(c, "done")
  /\ Release
  /\ UNCHANGED <<connection, open, made>>

(* nats and rusi close and forget the connection at once.                  *)
Disconnects(c) ==
  /\ transport # "jetstream"
  /\ ItsTurn(c) /\ connection # None
  /\ Becomes(c, "done")
  /\ open' = open \ {connection}
  /\ connection' = None
  /\ Release
  /\ UNCHANGED made

(* jetstream's connection counts as closed from the call of close, and is  *)
(* forgotten once that has ended.                                          *)
BeginsClose(c) ==
  /\ transport = "jetstream"
  /\ ItsTurn(c) /\ connection # None
  /\ Becomes(c, "closing")
  /\ open' = open \ {connection}
  /\ UNCHANGED <<mutex, connection, made>>

EndsClose(c) ==
  /\ pc[c] = "closing"
  /\ Becomes(c, "done")
  /\ connection' = None
  /\ Release
  /\ UNCHANGED <<open, made>>

(* The broker, or the client library after too many missed pings, closes   *)
(* the connection.  A gRPC channel (rusi) reconnects by itself.            *)
ConnectionLost ==
  /\ transport # "rusi"
  /\ \E n \in open : open' = open \ {n}
  /\ UNCHANGED <<pc, mutex, connection, made>>

ConnectBegins(c) == ConnectFast(c) \/ ConnectAcquires(c)
ConnectGoesOn(c) ==
  ConnectRechecks(c) \/ ConnectOpens(c) \/ Opened(c) \/ OpenFails(c)

DisconnectBegins(c) == DisconnectFast(c) \/ DisconnectAcquires(c)
DisconnectGoesOn(c) ==
  DisconnectRechecks(c) \/ Disconnects(c) \/ BeginsClose(c) \/ EndsClose(c)

CallBegins ==
  (\E c \in Users : ConnectBegins(c)) \/ (\E c \in Closers : DisconnectBegins(c))
CallGoesOn ==
  (\E c \in Users : ConnectGoesOn(c)) \/ (\E c \in Closers : DisconnectGoesOn(c))

ConnectionNext == (CallBegins \/ CallGoesOn \/ ConnectionLost) /\ UNCHANGED transport

ConnectionSpec == ConnectionInit /\ [][ConnectionNext]_connectionVars

-----------------------------------------------------------------------------
(* However first uses, disconnects and lost connections interleave, the    *)
(* transport never has two open connections: the one it keeps is the only  *)
(* one.  (Nothing would ever close the other.)                             *)
AtMostOneConnection == open \subseteq {connection}

(* A caller is given a connection that disconnect has not closed; by       *)
(* jetstream and rusi one that is open.  nats may give one that the broker *)
(* has closed: it looks only whether there is a connection.                *)
LiveConnectionGiven ==
  [][\A c \in Users : pc[c] # "done" /\ pc'[c] = "done" =>
       /\ connection' # None
       /\ transport # "nats" => connection' \in open']_connectionVars

(* The mutex is always given back, by every way out of its protection, so  *)
(* that every call ends.                                                   *)
MutexReleased == mutex # << >> ~> mutex = << >>
=============================================================================
