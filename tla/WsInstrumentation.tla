-------------------------- MODULE WsInstrumentation --------------------------
(***************************************************************************)
(* The spans of opentelemetry-instrumentation-ws over the life of some     *)
(* connections, client and server in one model: the patched constructor,   *)
(* emit, send and close of WebSocket, the 'upgrade' event of the http      *)
(* server and handleUpgrade of the ws server.                              *)
(*                                                                         *)
(* A span is named by its connection, side and name; it has the trace of   *)
(* the context it was started in, a trace is named by the span it began    *)
(* with, and ending or marking an ended span does nothing (the SDK).  A    *)
(* context is the span active in it.  The listeners of the constructor run *)
(* where the socket was made, those of the server's socket after its       *)
(* upgrade run in no context.                                              *)
(*                                                                         *)
(* Left to the environment: whether the server makes its sockets from the  *)
(* patched class (instrumented) and whether removeEventListener finds a    *)
(* listener added by once (removesOnce); ws has had both.  And which       *)
(* connections are made with new WebSocket(url, options) (TwoArguments):   *)
(* the constructor injects its context in its third argument, but ws then  *)
(* takes the second for the options, and what was injected is lost.        *)
(* Bounds: a side receives, sends, and closes a socket at most once each,  *)
(* and at most MaxCalls times in all.  Left out: close before the socket   *)
(* is open, or once it is closed.                                          *)
(***************************************************************************)
EXTENDS Integers, FiniteSets

CONSTANTS Connections, TwoArguments, Root, MaxCalls

Sides == {"client", "server"}
SpanNames == {"caller", "connect", "open", "request", "upgrade", "receive",
              "send", "early", "close", "conclude"}

(* ROOT_CONTEXT has no span.                                               *)
ASSUME WsAssumption ==
  /\ MaxCalls \in Nat /\ TwoArguments \subseteq Connections
  /\ Root \notin Connections \X Sides \X SpanNames

VARIABLES
  instrumented, \* the sides whose sockets are of the patched class
  removesOnce,
  socket,       \* the state of each side of each connection
  header,       \* the context in the headers of each connection's request
  errorListener,\* the connections whose connectionErrorListener is attached
  parentContext,\* _parentContext of each socket
  requestSpans, \* the requests in _requestSpans
  spans         \* the spans started: their trace, whether live, their status

vars == <<instrumented, removesOnce, socket, header, errorListener,
          parentContext, requestSpans, spans>>

Peer(side) == CHOOSE other \in Sides : other # side

Span(c, side, name) == <<c, side, name>>
Caller(c) == Span(c, "client", "caller")
Connect(c) == Span(c, "client", "connect")
Request(c) == Span(c, "server", "request")
Upgrade(c) == Span(c, "server", "upgrade")
Open(c, side) == Span(c, side, "open")

Trace(from, id, ctx) == IF ctx = Root THEN id ELSE from[ctx].trace
Start(from, id, ctx) ==
  [x \in DOMAIN from \cup {id} |->
     IF x \in DOMAIN from THEN from[x]
     ELSE [trace |-> Trace(from, id, ctx), live |-> TRUE, error |-> FALSE]]
Mark(from, id) ==
  IF id \in DOMAIN from /\ from[id].live THEN [from EXCEPT ![id].error = TRUE] ELSE from
End(from, id) == IF id \in DOMAIN from THEN [from EXCEPT ![id].live = FALSE] ELSE from

(* What endSpan leaves of a span around a call that returns or throws.     *)
endSpan(from, id, throws) == End(IF throws THEN Mark(from, id) ELSE from, id)

Init ==
  /\ instrumented \in {{"client"}, Sides}
  /\ removesOnce \in BOOLEAN
  /\ socket = [s \in Sides |-> [c \in Connections |-> "none"]]
  /\ header = [c \in Connections |-> Root]
  /\ errorListener = {}
  /\ parentContext = [s \in Sides |-> [c \in Connections |-> Root]]
  /\ requestSpans = {}
  /\ spans = [id \in {Caller(c) : c \in Connections} |->
                [trace |-> id, live |-> TRUE, error |-> FALSE]]

Is(c, side, states) == socket[side][c] \in states
Become(c, side, state) == socket' = [socket EXCEPT ![side][c] = state]
Settings == <<instrumented, removesOnce>>

----------------------------------------------------------------------------
(* The context in the headers that ws sends.                               *)
Carried(c) == IF c \in TwoArguments THEN Root ELSE Connect(c)

(* The constructor, called by a client in the context of its caller.  A    *)
(* bad address makes super throw, with the connect span started.           *)
Construct(c) ==
  /\ Is(c, "client", {"none"})
  /\ spans' = Start(spans, Connect(c), Caller(c))
  /\ header' = [header EXCEPT ![c] = Carried(c)]
  /\ \/ Become(c, "client", "threw") /\ UNCHANGED <<errorListener, parentContext>>
     \/ /\ Become(c, "client", "connecting")
        /\ errorListener' = errorListener \cup {c}
        /\ parentContext' = [parentContext EXCEPT !["client"][c] = Caller(c)]
  /\ UNCHANGED <<Settings, requestSpans>>

\* Mutant: the open listener leaves the connect span to the error listener.
ClientOpensUnended(c) ==
  /\ Is(c, "client", {"connecting"})
  /\ Is(c, "server", {"open", "closing", "closed"})
  /\ Become(c, "client", "open")
  /\ errorListener' = errorListener \ {c}
  /\ spans' = Start(spans, Open(c, "client"), Caller(c))
  /\ UNCHANGED <<Settings, header, parentContext, requestSpans>>

(* 'open' on the client.                                                   *)
ClientOpens(c) ==
  /\ Is(c, "client", {"connecting"})
  /\ Is(c, "server", {"open", "closing", "closed"})
  /\ Become(c, "client", "open")
  /\ errorListener' = IF removesOnce THEN errorListener \ {c} ELSE errorListener
  /\ spans' = Start(End(spans, Connect(c)), Open(c, "client"), Caller(c))
  /\ UNCHANGED <<Settings, header, parentContext, requestSpans>>

(* connectionErrorListener, if it is still attached.                       *)
ConnectionError(c) ==
  IF c \in errorListener THEN End(Mark(spans, Connect(c)), Connect(c)) ELSE spans

(* A connection that does not open: 'error', then at once 'close'.         *)
ClientFails(c) ==
  /\ Is(c, "client", {"connecting"})
  /\ Become(c, "client", "closed")
  /\ errorListener' = errorListener \ {c}
  /\ spans' = ConnectionError(c)
  /\ UNCHANGED <<Settings, header, parentContext, requestSpans>>

(* 'error' on an open socket; ws closes it afterwards.                     *)
Fails(c, side) ==
  /\ Is(c, side, {"open"})
  /\ Become(c, side, "closing")
  /\ errorListener' = IF side = "client" THEN errorListener \ {c} ELSE errorListener
  /\ LET seen == IF side = "client" THEN ConnectionError(c) ELSE spans
     IN  spans' = Mark(seen, Open(c, side))
  /\ UNCHANGED <<Settings, header, parentContext, requestSpans>>

(* 'close'                                                                 *)
Closed(c, side) ==
  /\ Is(c, side, {"closing"})
  /\ Become(c, side, "closed")
  /\ spans' = End(spans, Open(c, side))
  /\ UNCHANGED <<Settings, header, errorListener, parentContext, requestSpans>>

----------------------------------------------------------------------------
(* 'upgrade' on the http server: its listener returns, and has called or   *)
(* will call handleUpgrade, or it throws, before handleUpgrade or in it.   *)
IncomingRequest(c) ==
  /\ Is(c, "client", {"connecting", "closed"}) /\ Is(c, "server", {"none"})
  /\ LET asked == Start(spans, Request(c), header[c])
         inUpgrade == endSpan(Start(asked, Upgrade(c), Request(c)), Upgrade(c), TRUE)
     IN  \/ /\ spans' = asked
            /\ requestSpans' = requestSpans \cup {c}
            /\ Become(c, "server", "asked")
         \/ /\ \E at \in {asked, inUpgrade} : spans' = endSpan(at, Request(c), TRUE)
            /\ Become(c, "server", "threw")
            /\ UNCHANGED requestSpans
  /\ UNCHANGED <<Settings, header, errorListener, parentContext>>

(* ws makes the server's socket: the constructor without an address, its   *)
(* 'open' listener, then the callback of handleUpgrade.                    *)
Accept(c, from) ==
  LET made == IF "server" \in instrumented
              THEN Start(from, Open(c, "server"), Upgrade(c)) ELSE from
  IN  /\ spans' = IF c \in requestSpans THEN End(made, Request(c)) ELSE made
      /\ requestSpans' = requestSpans \ {c}
      /\ parentContext' = IF "server" \in instrumented
                          THEN [parentContext EXCEPT !["server"][c] = Upgrade(c)]
                          ELSE parentContext
      /\ Become(c, "server", "open")

(* A refused upgrade is answered without the callback; one whose client is *)
(* still to be verified returns first.                                     *)
HandleUpgrade(c) ==
  /\ Is(c, "server", {"asked"})
  /\ LET done(throws) ==
           endSpan(Start(spans, Upgrade(c), Request(c)), Upgrade(c), throws)
     IN  \/ Accept(c, done(FALSE))
         \/ /\ \/ spans' = done(FALSE) /\ \E s \in {"verifying", "refused"} : Become(c, "server", s)
               \/ spans' = done(TRUE) /\ Become(c, "server", "refused")
            /\ UNCHANGED <<parentContext, requestSpans>>
  /\ UNCHANGED <<Settings, header, errorListener>>

Verified(c) ==
  /\ Is(c, "server", {"verifying"})
  /\ \/ Accept(c, spans)
     \/ Become(c, "server", "refused") /\ UNCHANGED <<spans, parentContext, requestSpans>>
  /\ UNCHANGED <<Settings, header, errorListener>>

----------------------------------------------------------------------------
(* The contexts in which an application's code runs on a side.             *)
Contexts(side) ==
  {id \in DOMAIN spans : id[2] = side /\ id[3] \in {"caller", "upgrade", "receive"}}

(* What a patched method does to the spans, around the method itself.      *)
Only(c, side, name, ctx, throws) ==
  IF side \in instrumented
  THEN endSpan(Start(spans, Span(c, side, name), ctx), Span(c, side, name), throws)
  ELSE spans
Fresh(c, side, name) ==
  /\ Span(c, side, name) \notin DOMAIN spans
  /\ Cardinality({id \in DOMAIN spans :
       id[3] \in {"receive", "send", "early", "close"}}) < MaxCalls

(* emit of a 'message': its listeners return, or one throws.               *)
Receive(c, side) ==
  /\ Is(c, side, {"open", "closing"}) /\ Is(c, Peer(side), {"open", "closing", "closed"})
  /\ Fresh(c, side, "receive") /\ side \in instrumented
  /\ \E throws \in BOOLEAN : spans' = Only(c, side, "receive", Open(c, side), throws)
  /\ UNCHANGED <<Settings, socket, header, errorListener, parentContext, requestSpans>>

(* send, by any code of the side.  Before the socket is open it throws.    *)
Send(c, side, ctx) ==
  /\ side \in instrumented
  /\ Is(c, side, {"connecting", "open", "closing", "closed"})
  /\ LET name == IF Is(c, side, {"connecting"}) THEN "early" ELSE "send"
     IN  Fresh(c, side, name) /\ spans' = Start(spans, Span(c, side, name), ctx)
  /\ UNCHANGED <<Settings, socket, header, errorListener, parentContext, requestSpans>>

(* The callback of send.                                                   *)
Sent(c, side) ==
  LET id == Span(c, side, "send")
  IN  /\ id \in DOMAIN spans /\ spans[id].live
      /\ \E failed \in BOOLEAN : spans' = endSpan(spans, id, failed)
      /\ UNCHANGED <<Settings, socket, header, errorListener, parentContext, requestSpans>>

\* Mutant: the span is a child of whatever is active when close is called.
CloseActive(c, side, ctx) ==
  /\ Is(c, side, {"open", "closing"})
  /\ Fresh(c, side, "close")
  /\ spans' = Only(c, side, "close", ctx, FALSE)
  /\ Become(c, side, "closing")
  /\ UNCHANGED <<Settings, header, errorListener, parentContext, requestSpans>>

(* close, by any code of the side, as often as to be recorded once.        *)
Close(c, side, ctx) ==
  /\ Is(c, side, {"open", "closing"})
  /\ Fresh(c, side, "close")
  /\ spans' = Only(c, side, "close", parentContext[side][c], FALSE)
  /\ Become(c, side, "closing")
  /\ UNCHANGED <<Settings, header, errorListener, parentContext, requestSpans>>

(* ws calls close itself when the peer's close frame comes.                *)
Concludes(c, side) ==
  /\ Is(c, side, {"open"})
  /\ Is(c, Peer(side), {"closing", "closed"})
  /\ spans' = Only(c, side, "conclude", parentContext[side][c], FALSE)
  /\ Become(c, side, "closing")
  /\ UNCHANGED <<Settings, header, errorListener, parentContext, requestSpans>>

Next ==
  \E c \in Connections :
    \/ Construct(c) \/ ClientOpens(c) \/ ClientFails(c)
    \/ IncomingRequest(c) \/ HandleUpgrade(c) \/ Verified(c)
    \/ \E side \in Sides :
         \/ Fails(c, side) \/ Closed(c, side) \/ Concludes(c, side)
         \/ Receive(c, side) \/ Sent(c, side)
         \/ \E ctx \in Contexts(side) : Send(c, side, ctx) \/ Close(c, side, ctx)

Spec == Init /\ [][Next]_vars

----------------------------------------------------------------------------
Live(id) == id \in DOMAIN spans /\ spans[id].live

(* The spans of a connection last as long as what they name, however the   *)
(* two ends open, fail and close: connect until the socket is open or has  *)
(* failed, open while it is open, the request until the upgrade is done.   *)
(* What a throwing constructor and a refused upgrade leave is all there is *)
(* left behind, and a connection that opened is not marked as failed to    *)
(* connect, whatever fails later (_patchConstructor, handleUpgrade).       *)
SpansLastAsTheirSockets ==
  \A c \in Connections :
    /\ Live(Connect(c)) <=> Is(c, "client", {"connecting", "threw"})
    /\ Live(Request(c)) <=> Is(c, "server", {"asked", "verifying", "refused"})
    /\ \A side \in Sides :
         Live(Open(c, side)) <=> Is(c, side, {"open", "closing"}) /\ side \in instrumented
    /\ Is(c, "client", {"open", "closing", "closed"}) =>
         (spans[Connect(c)].error <=> Open(c, "client") \notin DOMAIN spans)

(* The trace of an end of a connection: the client's caller began it, and  *)
(* the server's request only where its headers did not name the caller's.  *)
BegunBy(c, side) ==
  IF side = "client" \/ c \notin TwoArguments THEN Caller(c) ELSE Request(c)

(* Client and server tell one story, or two where the headers were lost:   *)
(* all that an end of a connection does but send is in one trace, whichever*)
(* code, of this connection or of another, closes it, and it is the trace  *)
(* of the client's caller on both ends, unless the client was made with    *)
(* new WebSocket(url, options) (inject, extract, emit, close).             *)
OneTrace ==
  \A id \in DOMAIN spans :
    id[3] \notin {"send", "early"} => spans[id].trace = BegunBy(id[1], id[2])
=============================================================================
