---------------------- MODULE WsInstrumentationProofs ----------------------
(***************************************************************************)
(* Theorems about WsInstrumentation, for any number of connections and of  *)
(* calls, patched servers or not, whichever listeners ws removes and       *)
(* however the connections are made: what spans last as long as, and which *)
(* trace an end of a connection is in.                                     *)
(***************************************************************************)
EXTENDS WsInstrumentation, TLAPS

SpanIds == Connections \X Sides \X SpanNames
SpanRecords ==
  [trace : SpanIds, live : BOOLEAN, error : BOOLEAN]

(* Spans of which all but those of send are in the trace of their end.     *)
GoodSpans(from) ==
  /\ from \in [DOMAIN from -> SpanRecords]
  /\ DOMAIN from \subseteq SpanIds
  /\ \A id \in DOMAIN from :
       id[3] \notin {"send", "early"} => from[id].trace = BegunBy(id[1], id[2])

States == {"none", "threw", "connecting", "asked", "verifying", "refused",
           "open", "closing", "closed"}

WsTypeOK ==
  /\ instrumented \in {{"client"}, Sides}
  /\ socket \in [Sides -> [Connections -> States]]
  /\ header \in [Connections -> SpanIds \cup {Root}]
  /\ parentContext \in [Sides -> [Connections -> SpanIds \cup {Root}]]
  /\ GoodSpans(spans)

(* What the client's end of a connection has left behind.                  *)
ClientInv(c) ==
  /\ Caller(c) \in DOMAIN spans
  /\ Is(c, "client", {"none", "threw", "connecting", "open", "closing", "closed"})
  /\ Connect(c) \in DOMAIN spans <=> ~ Is(c, "client", {"none"})
  /\ Live(Connect(c)) <=> Is(c, "client", {"connecting", "threw"})
  /\ Live(Open(c, "client")) <=> Is(c, "client", {"open", "closing"})
  /\ Is(c, "client", {"none", "threw", "connecting"}) => Open(c, "client") \notin DOMAIN spans
  /\ Is(c, "client", {"connecting"}) => c \in errorListener /\ ~ spans[Connect(c)].error
  /\ Is(c, "client", {"open", "closing", "closed"}) =>
       (spans[Connect(c)].error <=> Open(c, "client") \notin DOMAIN spans)
  /\ ~ Is(c, "client", {"none"}) => header[c] = Carried(c)
  /\ ~ Is(c, "client", {"none", "threw"}) => parentContext["client"][c] = Caller(c)

(* ... and the server's.                                                   *)
ServerInv(c) ==
  /\ Is(c, "server", {"none"}) => Request(c) \notin DOMAIN spans
  /\ Live(Request(c)) <=> Is(c, "server", {"asked", "verifying", "refused"})
  /\ Is(c, "server", {"asked", "verifying"}) => c \in requestSpans
  /\ Is(c, "server", {"verifying"}) => Upgrade(c) \in DOMAIN spans
  /\ Is(c, "server", {"none", "asked", "verifying"}) => Open(c, "server") \notin DOMAIN spans
  /\ Live(Open(c, "server")) <=> Is(c, "server", {"open", "closing"}) /\ "server" \in instrumented
  /\ Is(c, "server", {"open", "closing", "closed"}) /\ "server" \in instrumented =>
       Upgrade(c) \in DOMAIN spans /\ parentContext["server"][c] = Upgrade(c)

WsInv ==
  /\ WsTypeOK
  /\ \A c \in Connections : ClientInv(c) /\ ServerInv(c)

-----------------------------------------------------------------------------
(* What Start, Mark, End and endSpan make of some spans.                   *)

(* The spans that can be started: in a context that is itself a span, and  *)
(* of an end in the same trace unless the span is one of send; or in no    *)
(* context, if it begins the trace of its end.                             *)
MayStart(from, id, ctx) ==
  /\ id \in SpanIds
  /\ \/ ctx = Root /\ BegunBy(id[1], id[2]) = id
     \/ /\ ctx \in DOMAIN from
        /\ id[3] \notin {"send", "early"} =>
             /\ ctx[3] \notin {"send", "early"}
             /\ BegunBy(ctx[1], ctx[2]) = BegunBy(id[1], id[2])

(* All spans but one are the same.                                         *)
OnlyAt(from, to, id) ==
  /\ DOMAIN to \subseteq DOMAIN from \cup {id}
  /\ DOMAIN from \subseteq DOMAIN to
  /\ \A x \in DOMAIN from : x # id => to[x] = from[x]

LEMMA StartOf ==
  ASSUME NEW from, NEW id, NEW ctx, GoodSpans(from), MayStart(from, id, ctx)
  PROVE  /\ GoodSpans(Start(from, id, ctx))
         /\ OnlyAt(from, Start(from, id, ctx), id)
         /\ DOMAIN Start(from, id, ctx) = DOMAIN from \cup {id}
         /\ id \notin DOMAIN from =>
              Start(from, id, ctx)[id].live = TRUE /\ Start(from, id, ctx)[id].error = FALSE
<1> DEFINE to == Start(from, id, ctx)
           new == [trace |-> Trace(from, id, ctx), live |-> TRUE, error |-> FALSE]
<1>1. ctx \in DOMAIN from => ctx # Root
  BY WsAssumption DEF GoodSpans, SpanIds
<1>2. /\ ctx = Root => Trace(from, id, ctx) = id
      /\ ctx \in DOMAIN from =>
           Trace(from, id, ctx) = from[ctx].trace /\ from[ctx] \in SpanRecords
  BY <1>1 DEF Trace, GoodSpans
<1>3. new \in SpanRecords
  <2>1. Trace(from, id, ctx) \in SpanIds
    BY <1>2 DEF MayStart, SpanRecords
  <2> QED
    BY <2>1 DEF SpanRecords
<1>4. id[3] \notin {"send", "early"} => Trace(from, id, ctx) = BegunBy(id[1], id[2])
  BY <1>2 DEF MayStart, GoodSpans
<1>5. to = [x \in DOMAIN from \cup {id} |-> IF x \in DOMAIN from THEN from[x] ELSE new]
  BY DEF Start
<1>6. new.trace = Trace(from, id, ctx) /\ new.live = TRUE /\ new.error = FALSE
  OBVIOUS
<1> HIDE DEF to, new
<1>7. /\ DOMAIN to = DOMAIN from \cup {id}
      /\ \A x \in DOMAIN from : to[x] = from[x]
      /\ id \notin DOMAIN from => to[id] = new
  BY <1>5
<1>8. to \in [DOMAIN to -> SpanRecords]
  BY <1>3, <1>5 DEF GoodSpans
<1>9. DOMAIN to \subseteq SpanIds
  BY <1>7 DEF GoodSpans, MayStart
<1>10. ASSUME NEW x \in DOMAIN to, x[3] \notin {"send", "early"}
       PROVE  to[x].trace = BegunBy(x[1], x[2])
  <2>1. CASE x \in DOMAIN from
    BY <1>7, <1>10, <2>1 DEF GoodSpans
  <2>2. CASE x \notin DOMAIN from
    BY <1>4, <1>6, <1>7, <1>10, <2>2
  <2> QED
    BY <2>1, <2>2
<1>11. GoodSpans(to)
  BY <1>8, <1>9, <1>10 DEF GoodSpans
<1>12. OnlyAt(from, to, id)
  BY <1>7 DEF OnlyAt
<1>13. id \notin DOMAIN from => to[id].live = TRUE /\ to[id].error = FALSE
  BY <1>6, <1>7
<1> QED
  BY <1>7, <1>11, <1>12, <1>13 DEF to

LEMMA MarkOf ==
  ASSUME NEW from, NEW id, GoodSpans(from)
  PROVE  /\ GoodSpans(Mark(from, id))
         /\ OnlyAt(from, Mark(from, id), id)
         /\ DOMAIN Mark(from, id) = DOMAIN from
         /\ id \in DOMAIN from =>
              /\ Mark(from, id)[id].live = from[id].live
              /\ from[id].live => Mark(from, id)[id].error = TRUE
              /\ ~ from[id].live => Mark(from, id)[id].error = from[id].error
<1>1. CASE id \in DOMAIN from /\ from[id].live
  <2> DEFINE to == [from EXCEPT ![id].error = TRUE]
  <2>1. Mark(from, id) = to
    BY <1>1 DEF Mark
  <2>2. from[id] \in SpanRecords
    BY <1>1 DEF GoodSpans
  <2>3. /\ [from[id] EXCEPT !.error = TRUE] \in SpanRecords
        /\ [from[id] EXCEPT !.error = TRUE].trace = from[id].trace
        /\ [from[id] EXCEPT !.error = TRUE].live = from[id].live
        /\ [from[id] EXCEPT !.error = TRUE].error = TRUE
    BY <2>2 DEF SpanRecords
  <2>4. /\ DOMAIN to = DOMAIN from
        /\ to[id] = [from[id] EXCEPT !.error = TRUE]
        /\ \A x \in DOMAIN from : x # id => to[x] = from[x]
    BY <1>1
  <2> HIDE DEF to
  <2>5. to \in [DOMAIN to -> SpanRecords]
    <3>1. to \in [DOMAIN from -> SpanRecords]
      BY <1>1, <2>3 DEF GoodSpans, to
    <3> QED
      BY <2>4, <3>1
  <2>6. GoodSpans(to)
    <3>1. to[id].trace = from[id].trace
      BY <2>3, <2>4
    <3>2. \A x \in DOMAIN to : to[x].trace = from[x].trace
      BY <2>4, <3>1
    <3> QED
      BY <2>4, <2>5, <3>2 DEF GoodSpans
  <2>7. OnlyAt(from, to, id)
    BY <2>4 DEF OnlyAt
  <2>8. to[id].live = from[id].live /\ to[id].error = TRUE
    BY <2>3, <2>4
  <2> QED
    BY <1>1, <2>1, <2>4, <2>6, <2>7, <2>8
<1>2. CASE ~ (id \in DOMAIN from /\ from[id].live)
  <2>1. Mark(from, id) = from
    BY <1>2 DEF Mark
  <2> QED
    BY <1>2, <2>1 DEF OnlyAt
<1> QED
  BY <1>1, <1>2

LEMMA EndOf ==
  ASSUME NEW from, NEW id, GoodSpans(from)
  PROVE  /\ GoodSpans(End(from, id))
         /\ OnlyAt(from, End(from, id), id)
         /\ DOMAIN End(from, id) = DOMAIN from
         /\ id \in DOMAIN from =>
              /\ End(from, id)[id].live = FALSE
              /\ End(from, id)[id].error = from[id].error
<1>1. CASE id \in DOMAIN from
  <2> DEFINE to == [from EXCEPT ![id].live = FALSE]
  <2>1. End(from, id) = to
    BY <1>1 DEF End
  <2>2. from[id] \in SpanRecords
    BY <1>1 DEF GoodSpans
  <2>3. /\ [from[id] EXCEPT !.live = FALSE] \in SpanRecords
        /\ [from[id] EXCEPT !.live = FALSE].trace = from[id].trace
        /\ [from[id] EXCEPT !.live = FALSE].error = from[id].error
        /\ [from[id] EXCEPT !.live = FALSE].live = FALSE
    BY <2>2 DEF SpanRecords
  <2>4. /\ DOMAIN to = DOMAIN from
        /\ to[id] = [from[id] EXCEPT !.live = FALSE]
        /\ \A x \in DOMAIN from : x # id => to[x] = from[x]
    BY <1>1
  <2> HIDE DEF to
  <2>5. to \in [DOMAIN to -> SpanRecords]
    <3>1. to \in [DOMAIN from -> SpanRecords]
      BY <1>1, <2>3 DEF GoodSpans, to
    <3> QED
      BY <2>4, <3>1
  <2>6. GoodSpans(to)
    BY <2>3, <2>4, <2>5 DEF GoodSpans
  <2> QED
    BY <1>1, <2>1, <2>3, <2>4, <2>6 DEF OnlyAt
<1>2. CASE id \notin DOMAIN from
  BY <1>2 DEF End, OnlyAt
<1> QED
  BY <1>1, <1>2

LEMMA EndSpanOf ==
  ASSUME NEW from, NEW id, NEW throws \in BOOLEAN, GoodSpans(from)
  PROVE  /\ GoodSpans(endSpan(from, id, throws))
         /\ OnlyAt(from, endSpan(from, id, throws), id)
         /\ DOMAIN endSpan(from, id, throws) = DOMAIN from
         /\ id \in DOMAIN from => endSpan(from, id, throws)[id].live = FALSE
<1> DEFINE seen == IF throws THEN Mark(from, id) ELSE from
<1>1. GoodSpans(seen) /\ OnlyAt(from, seen, id) /\ DOMAIN seen = DOMAIN from
  <2>1. CASE throws
    BY <2>1, MarkOf
  <2>2. CASE ~ throws
    BY <2>2 DEF OnlyAt
  <2> QED
    BY <2>1, <2>2
<1> HIDE DEF seen
<1>2. /\ GoodSpans(End(seen, id))
      /\ OnlyAt(seen, End(seen, id), id)
      /\ DOMAIN End(seen, id) = DOMAIN seen
      /\ id \in DOMAIN seen => End(seen, id)[id].live = FALSE
  BY <1>1, EndOf
<1>3. endSpan(from, id, throws) = End(seen, id)
  BY DEF endSpan, seen
<1> QED
  BY <1>1, <1>2, <1>3 DEF OnlyAt

-----------------------------------------------------------------------------
(* The ids of the spans of a connection.                                   *)
LEMMA IdOf ==
  ASSUME NEW c \in Connections, NEW side \in Sides, NEW name \in SpanNames
  PROVE  /\ Span(c, side, name) \in SpanIds
         /\ Span(c, side, name)[1] = c
         /\ Span(c, side, name)[2] = side
         /\ Span(c, side, name)[3] = name
  BY DEF Span, SpanIds

LEMMA ClientIds ==
  ASSUME NEW c \in Connections
  PROVE  /\ Caller(c) \in SpanIds /\ Connect(c) \in SpanIds /\ Open(c, "client") \in SpanIds
         /\ Caller(c)[1] = c /\ Connect(c)[1] = c /\ Open(c, "client")[1] = c
         /\ Caller(c)[2] = "client" /\ Connect(c)[2] = "client" /\ Open(c, "client")[2] = "client"
         /\ Caller(c)[3] = "caller" /\ Connect(c)[3] = "connect" /\ Open(c, "client")[3] = "open"
  BY DEF Caller, Connect, Open, Span, SpanIds, Sides, SpanNames

LEMMA ServerIds ==
  ASSUME NEW c \in Connections
  PROVE  /\ Request(c) \in SpanIds /\ Upgrade(c) \in SpanIds /\ Open(c, "server") \in SpanIds
         /\ Request(c)[1] = c /\ Upgrade(c)[1] = c /\ Open(c, "server")[1] = c
         /\ Request(c)[2] = "server" /\ Upgrade(c)[2] = "server" /\ Open(c, "server")[2] = "server"
         /\ Request(c)[3] = "request" /\ Upgrade(c)[3] = "upgrade" /\ Open(c, "server")[3] = "open"
  BY DEF Request, Upgrade, Open, Span, SpanIds, Sides, SpanNames

(* The spans of all ends but one are the same.                             *)
OnlyOf(from, to, c, side) ==
  \A x \in SpanIds : x[1] # c \/ x[2] # side =>
    /\ x \in DOMAIN to <=> x \in DOMAIN from
    /\ x \in DOMAIN from => to[x] = from[x]

LEMMA OnlyAtIsOnlyOf ==
  ASSUME NEW from, NEW to, NEW id \in SpanIds, OnlyAt(from, to, id)
  PROVE  OnlyOf(from, to, id[1], id[2])
  BY DEF OnlyAt, OnlyOf

LEMMA OnlyOfTwice ==
  ASSUME NEW from, NEW at, NEW to, NEW c, NEW side,
         OnlyOf(from, at, c, side), OnlyOf(at, to, c, side)
  PROVE  OnlyOf(from, to, c, side)
  BY DEF OnlyOf

(* A step of one end leaves the rest of what the invariant is about.       *)
Elsewhere(c, side) ==
  /\ UNCHANGED instrumented
  /\ \A d \in Connections, s \in Sides : d # c \/ s # side =>
       socket'[s][d] = socket[s][d] /\ parentContext'[s][d] = parentContext[s][d]
  /\ \A d \in Connections : d # c \/ side # "client" =>
       header'[d] = header[d] /\ (d \in errorListener => d \in errorListener')
  /\ \A d \in Connections : d # c \/ side # "server" =>
       (d \in requestSpans => d \in requestSpans')
  /\ OnlyOf(spans, spans', c, side)

Kept(id) ==
  /\ id \in DOMAIN spans' <=> id \in DOMAIN spans
  /\ id \in DOMAIN spans => spans'[id] = spans[id]

LEMMA ClientKept ==
  ASSUME NEW c \in Connections, ClientInv(c),
         socket'["client"][c] = socket["client"][c],
         parentContext'["client"][c] = parentContext["client"][c],
         header'[c] = header[c], c \in errorListener => c \in errorListener',
         Kept(Caller(c)), Kept(Connect(c)), Kept(Open(c, "client"))
  PROVE  ClientInv(c)'
<1> DEFINE caller == Caller(c)
           connect == Connect(c)
           open == Open(c, "client")
<1>1. Caller(c)' = caller /\ Connect(c)' = connect /\ Open(c, "client")' = open
  BY DEF Caller, Connect, Open, Span
<1> HIDE DEF caller, connect, open
<1> QED
  BY <1>1 DEF ClientInv, Is, Live, Kept, caller, connect, open

LEMMA ServerKept ==
  ASSUME NEW c \in Connections, ServerInv(c), UNCHANGED instrumented,
         socket'["server"][c] = socket["server"][c],
         parentContext'["server"][c] = parentContext["server"][c],
         c \in requestSpans => c \in requestSpans',
         Kept(Request(c)), Kept(Upgrade(c)), Kept(Open(c, "server"))
  PROVE  ServerInv(c)'
<1>1. Request(c)' = Request(c) /\ Upgrade(c)' = Upgrade(c) /\ Open(c, "server")' = Open(c, "server")
  BY DEF Request, Upgrade, Open, Span
<1> QED
  BY <1>1 DEF ServerInv, Is, Live, Kept

LEMMA OneEnd ==
  ASSUME WsInv, WsTypeOK', NEW c \in Connections, NEW side \in Sides, Elsewhere(c, side),
         side = "client" => ClientInv(c)',
         side = "server" => ServerInv(c)'
  PROVE  WsInv'
<1>1. ASSUME NEW d \in Connections, d # c \/ side # "client"
      PROVE  ClientInv(d)'
  <2>1. Kept(Caller(d)) /\ Kept(Connect(d)) /\ Kept(Open(d, "client"))
    BY <1>1, ClientIds DEF Elsewhere, OnlyOf, Kept
  <2>2. /\ socket'["client"][d] = socket["client"][d]
        /\ parentContext'["client"][d] = parentContext["client"][d]
        /\ header'[d] = header[d] /\ (d \in errorListener => d \in errorListener')
    BY <1>1 DEF Elsewhere, Sides
  <2> QED
    BY <2>1, <2>2, ClientKept DEF WsInv
<1>2. ASSUME NEW d \in Connections, d # c \/ side # "server"
      PROVE  ServerInv(d)'
  <2>1. Kept(Request(d)) /\ Kept(Upgrade(d)) /\ Kept(Open(d, "server"))
    BY <1>2, ServerIds DEF Elsewhere, OnlyOf, Kept
  <2>2. /\ socket'["server"][d] = socket["server"][d]
        /\ parentContext'["server"][d] = parentContext["server"][d]
        /\ d \in requestSpans => d \in requestSpans'
        /\ UNCHANGED instrumented
    BY <1>2 DEF Elsewhere, Sides
  <2> QED
    BY <2>1, <2>2, ServerKept DEF WsInv
<1> QED
  BY <1>1, <1>2 DEF WsInv

LEMMA BecomeOf ==
  ASSUME WsTypeOK, NEW c \in Connections, NEW side \in Sides, NEW state \in States,
         Become(c, side, state)
  PROVE  /\ socket' \in [Sides -> [Connections -> States]]
         /\ socket'[side][c] = state
         /\ \A d \in Connections, s \in Sides :
              d # c \/ s # side => socket'[s][d] = socket[s][d]
  BY DEF Become, WsTypeOK

LEMMA ParentSet ==
  ASSUME WsTypeOK, NEW c \in Connections, NEW side \in Sides, NEW ctx \in SpanIds,
         parentContext' = [parentContext EXCEPT ![side][c] = ctx]
  PROVE  /\ parentContext' \in [Sides -> [Connections -> SpanIds \cup {Root}]]
         /\ parentContext'[side][c] = ctx
         /\ \A d \in Connections, s \in Sides :
              d # c \/ s # side => parentContext'[s][d] = parentContext[s][d]
  BY DEF WsTypeOK

-----------------------------------------------------------------------------
(* The steps of a client that makes a connection.                          *)
LEMMA ConstructStep ==
  ASSUME WsInv, NEW c \in Connections, Construct(c)
  PROVE  WsInv'
<1>1. WsTypeOK /\ GoodSpans(spans) /\ ClientInv(c) /\ "client" \in Sides
  BY DEF WsInv, WsTypeOK, Sides
<1>2. /\ spans' = Start(spans, Connect(c), Caller(c))
      /\ header' = [header EXCEPT ![c] = Carried(c)]
      /\ UNCHANGED <<instrumented, requestSpans>>
      /\ socket["client"][c] = "none"
  BY DEF Construct, Settings, Is
<1>3. MayStart(spans, Connect(c), Caller(c))
  BY <1>1, ClientIds DEF MayStart, ClientInv
<1>4. /\ GoodSpans(spans') /\ OnlyAt(spans, spans', Connect(c))
      /\ DOMAIN spans' = DOMAIN spans \cup {Connect(c)}
      /\ Connect(c) \notin DOMAIN spans =>
           spans'[Connect(c)].live = TRUE /\ spans'[Connect(c)].error = FALSE
  <2> DEFINE to == Start(spans, Connect(c), Caller(c))
  <2>1. /\ GoodSpans(to) /\ OnlyAt(spans, to, Connect(c))
        /\ DOMAIN to = DOMAIN spans \cup {Connect(c)}
        /\ Connect(c) \notin DOMAIN spans => to[Connect(c)].live = TRUE /\ to[Connect(c)].error = FALSE
    BY <1>1, <1>3, StartOf, ZenonT(60)
  <2> HIDE DEF to
  <2> QED
    BY <1>2, <2>1 DEF to
<1>5. OnlyOf(spans, spans', c, "client")
  BY <1>4, ClientIds, OnlyAtIsOnlyOf
<1>6. /\ header' \in [Connections -> SpanIds \cup {Root}]
      /\ header'[c] = Carried(c) /\ \A d \in Connections : d # c => header'[d] = header[d]
  BY <1>1, <1>2, ClientIds DEF WsTypeOK, Carried
<1>7. /\ Connect(c)' = Connect(c) /\ Caller(c)' = Caller(c)
      /\ Open(c, "client")' = Open(c, "client") /\ Carried(c)' = Carried(c)
  BY DEF Connect, Caller, Open, Span, Carried
<1>8. /\ Caller(c) \in DOMAIN spans' /\ Connect(c) \in DOMAIN spans'
      /\ Open(c, "client") \notin DOMAIN spans'
      /\ spans'[Connect(c)].live = TRUE /\ spans'[Connect(c)].error = FALSE
  BY <1>1, <1>2, <1>4, ClientIds DEF ClientInv, Is
<1>9. CASE Become(c, "client", "threw") /\ UNCHANGED <<errorListener, parentContext>>
  <2>1. /\ socket' \in [Sides -> [Connections -> States]]
        /\ socket'["client"][c] = "threw"
        /\ \A d \in Connections, s \in Sides :
             d # c \/ s # "client" => socket'[s][d] = socket[s][d]
    BY <1>1, <1>9, BecomeOf DEF States
  <2>2. WsTypeOK'
    BY <1>1, <1>2, <1>4, <1>6, <1>9, <2>1 DEF WsTypeOK
  <2>3. Elsewhere(c, "client")
    BY <1>2, <1>5, <1>6, <1>9, <2>1 DEF Elsewhere
  <2>4. ClientInv(c)'
    BY <1>6, <1>7, <1>8, <2>1 DEF ClientInv, Is, Live
  <2> QED
    BY <1>1, <2>2, <2>3, <2>4, OneEnd
<1>10. CASE /\ Become(c, "client", "connecting")
            /\ errorListener' = errorListener \cup {c}
            /\ parentContext' = [parentContext EXCEPT !["client"][c] = Caller(c)]
  <2>1. /\ socket' \in [Sides -> [Connections -> States]]
        /\ socket'["client"][c] = "connecting"
        /\ \A d \in Connections, s \in Sides :
             d # c \/ s # "client" => socket'[s][d] = socket[s][d]
    BY <1>1, <1>10, BecomeOf DEF States
  <2>2. /\ parentContext' \in [Sides -> [Connections -> SpanIds \cup {Root}]]
        /\ parentContext'["client"][c] = Caller(c)
        /\ \A d \in Connections, s \in Sides :
             d # c \/ s # "client" => parentContext'[s][d] = parentContext[s][d]
    BY <1>1, <1>10, ClientIds, ParentSet, ZenonT(60)
  <2>3. WsTypeOK'
    BY <1>1, <1>2, <1>4, <1>6, <2>1, <2>2 DEF WsTypeOK
  <2>4. Elsewhere(c, "client")
    BY <1>2, <1>5, <1>6, <1>10, <2>1, <2>2 DEF Elsewhere
  <2>5. ClientInv(c)'
    BY <1>6, <1>7, <1>8, <1>10, <2>1, <2>2 DEF ClientInv, Is, Live
  <2> QED
    BY <1>1, <2>3, <2>4, <2>5, OneEnd
<1> QED
  BY <1>9, <1>10 DEF Construct

LEMMA ClientOpensStep ==
  ASSUME WsInv, NEW c \in Connections, ClientOpens(c)
  PROVE  WsInv'
<1> DEFINE ended == End(spans, Connect(c))
           open == Open(c, "client")
<1>1. WsTypeOK /\ GoodSpans(spans) /\ ClientInv(c) /\ "client" \in Sides
  BY DEF WsInv, WsTypeOK, Sides
<1>2. /\ spans' = Start(ended, open, Caller(c))
      /\ UNCHANGED <<instrumented, header, parentContext, requestSpans>>
      /\ socket["client"][c] = "connecting" /\ Become(c, "client", "open")
      /\ errorListener \ {c} \subseteq errorListener'
  BY DEF ClientOpens, Settings, Is
<1>3. /\ GoodSpans(ended) /\ OnlyAt(spans, ended, Connect(c))
      /\ DOMAIN ended = DOMAIN spans
      /\ Connect(c) \in DOMAIN spans =>
           ended[Connect(c)].live = FALSE /\ ended[Connect(c)].error = spans[Connect(c)].error
  BY <1>1, EndOf
<1> HIDE DEF ended, open
<1>4. /\ Caller(c) \in DOMAIN spans /\ Connect(c) \in DOMAIN spans /\ open \notin DOMAIN spans
      /\ ~ spans[Connect(c)].error /\ header[c] = Carried(c)
      /\ parentContext["client"][c] = Caller(c)
  BY <1>1, <1>2 DEF ClientInv, Is, open
<1>5. /\ open \in SpanIds /\ open[1] = c /\ open[2] = "client" /\ open[3] = "open"
      /\ open # Connect(c) /\ open # Caller(c)
  BY ClientIds DEF open
<1>6. MayStart(ended, open, Caller(c))
  BY <1>3, <1>4, <1>5, ClientIds DEF MayStart
<1>7. /\ GoodSpans(spans') /\ OnlyAt(ended, spans', open)
      /\ DOMAIN spans' = DOMAIN ended \cup {open}
      /\ open \notin DOMAIN ended => spans'[open].live = TRUE /\ spans'[open].error = FALSE
  <2> DEFINE to == Start(ended, open, Caller(c))
  <2>1. /\ GoodSpans(to) /\ OnlyAt(ended, to, open)
        /\ DOMAIN to = DOMAIN ended \cup {open}
        /\ open \notin DOMAIN ended => to[open].live = TRUE /\ to[open].error = FALSE
    <3>1. GoodSpans(ended)
      BY <1>3
    <3> QED
      BY <1>6, <3>1, StartOf, ZenonT(60)
  <2> HIDE DEF to
  <2> QED
    BY <1>2, <2>1 DEF to
<1>8. OnlyOf(spans, spans', c, "client")
  BY <1>3, <1>5, <1>7, ClientIds, OnlyAtIsOnlyOf, OnlyOfTwice
<1>9. Connect(c)' = Connect(c) /\ Caller(c)' = Caller(c) /\ Open(c, "client")' = open
  BY DEF Connect, Caller, Open, Span, open
<1>10. /\ Caller(c) \in DOMAIN spans' /\ Connect(c) \in DOMAIN spans' /\ open \in DOMAIN spans'
       /\ spans'[open].live = TRUE
       /\ spans'[Connect(c)].live = FALSE /\ ~ spans'[Connect(c)].error
  BY <1>3, <1>4, <1>5, <1>7 DEF OnlyAt
<1>11. /\ socket' \in [Sides -> [Connections -> States]]
       /\ socket'["client"][c] = "open"
       /\ \A d \in Connections, s \in Sides :
            d # c \/ s # "client" => socket'[s][d] = socket[s][d]
  BY <1>1, <1>2, BecomeOf DEF States
<1>12. WsTypeOK'
  BY <1>1, <1>2, <1>7, <1>11 DEF WsTypeOK
<1>13. Elsewhere(c, "client")
  BY <1>2, <1>8, <1>11 DEF Elsewhere
<1>14. ClientInv(c)'
  BY <1>2, <1>4, <1>9, <1>10, <1>11 DEF ClientInv, Is, Live
<1> QED
  BY <1>1, <1>12, <1>13, <1>14, OneEnd

(* connectionErrorListener, on a connection that is being made or was.     *)
LEMMA ConnectionErrorOf ==
  ASSUME WsInv, NEW c \in Connections
  PROVE  /\ GoodSpans(ConnectionError(c)) /\ OnlyAt(spans, ConnectionError(c), Connect(c))
         /\ DOMAIN ConnectionError(c) = DOMAIN spans
         /\ c \in errorListener /\ Connect(c) \in DOMAIN spans =>
              /\ ConnectionError(c)[Connect(c)].live = FALSE
              /\ spans[Connect(c)].live => ConnectionError(c)[Connect(c)].error = TRUE
              /\ ~ spans[Connect(c)].live =>
                   ConnectionError(c)[Connect(c)].error = spans[Connect(c)].error
         /\ c \notin errorListener => ConnectionError(c) = spans
<1> DEFINE marked == Mark(spans, Connect(c))
<1>1. /\ GoodSpans(marked) /\ OnlyAt(spans, marked, Connect(c))
      /\ DOMAIN marked = DOMAIN spans
      /\ Connect(c) \in DOMAIN spans =>
           /\ spans[Connect(c)].live => marked[Connect(c)].error = TRUE
           /\ ~ spans[Connect(c)].live => marked[Connect(c)].error = spans[Connect(c)].error
  BY MarkOf DEF WsInv, WsTypeOK
<1> HIDE DEF marked
<1>2. /\ GoodSpans(End(marked, Connect(c))) /\ OnlyAt(marked, End(marked, Connect(c)), Connect(c))
      /\ DOMAIN End(marked, Connect(c)) = DOMAIN marked
      /\ Connect(c) \in DOMAIN marked =>
           /\ End(marked, Connect(c))[Connect(c)].live = FALSE
           /\ End(marked, Connect(c))[Connect(c)].error = marked[Connect(c)].error
  BY <1>1, EndOf
<1>3. CASE c \in errorListener
  <2>1. ConnectionError(c) = End(marked, Connect(c))
    BY <1>3 DEF ConnectionError, marked
  <2> QED
    BY <1>1, <1>2, <1>3, <2>1 DEF OnlyAt
<1>4. CASE c \notin errorListener
  <2>1. ConnectionError(c) = spans
    BY <1>4 DEF ConnectionError
  <2> QED
    BY <1>4, <2>1 DEF OnlyAt, WsInv, WsTypeOK
<1> QED
  BY <1>3, <1>4

LEMMA ClientFailsStep ==
  ASSUME WsInv, NEW c \in Connections, ClientFails(c)
  PROVE  WsInv'
<1>1. WsTypeOK /\ GoodSpans(spans) /\ ClientInv(c) /\ "client" \in Sides
  BY DEF WsInv, WsTypeOK, Sides
<1>2. /\ spans' = ConnectionError(c)
      /\ UNCHANGED <<instrumented, header, parentContext, requestSpans>>
      /\ socket["client"][c] = "connecting" /\ Become(c, "client", "closed")
      /\ errorListener' = errorListener \ {c}
  BY DEF ClientFails, Settings, Is
<1>3. /\ Caller(c) \in DOMAIN spans /\ Connect(c) \in DOMAIN spans
      /\ Open(c, "client") \notin DOMAIN spans /\ c \in errorListener
      /\ spans[Connect(c)].live /\ header[c] = Carried(c)
      /\ parentContext["client"][c] = Caller(c)
  BY <1>1, <1>2 DEF ClientInv, Is, Live
<1>4. /\ GoodSpans(spans') /\ OnlyAt(spans, spans', Connect(c))
      /\ DOMAIN spans' = DOMAIN spans
      /\ spans'[Connect(c)].live = FALSE /\ spans'[Connect(c)].error = TRUE
  BY <1>2, <1>3, ConnectionErrorOf
<1>5. OnlyOf(spans, spans', c, "client")
  BY <1>4, ClientIds, OnlyAtIsOnlyOf
<1>6. Connect(c)' = Connect(c) /\ Caller(c)' = Caller(c) /\ Open(c, "client")' = Open(c, "client")
  BY DEF Connect, Caller, Open, Span
<1>7. /\ socket' \in [Sides -> [Connections -> States]]
      /\ socket'["client"][c] = "closed"
      /\ \A d \in Connections, s \in Sides :
           d # c \/ s # "client" => socket'[s][d] = socket[s][d]
  BY <1>1, <1>2, BecomeOf DEF States
<1>8. WsTypeOK'
  BY <1>1, <1>2, <1>4, <1>7 DEF WsTypeOK
<1>9. Elsewhere(c, "client")
  BY <1>2, <1>5, <1>7 DEF Elsewhere
<1>10. ClientInv(c)'
  BY <1>2, <1>3, <1>4, <1>6, <1>7 DEF ClientInv, Is, Live
<1> QED
  BY <1>1, <1>8, <1>9, <1>10, OneEnd

-----------------------------------------------------------------------------
(* The steps of the server until it has a socket.                          *)

(* A span around a call: it is over once the call has returned or thrown.  *)
LEMMA CallSpan ==
  ASSUME NEW from, NEW id, NEW ctx, NEW throws \in BOOLEAN,
         GoodSpans(from), MayStart(from, id, ctx)
  PROVE  /\ GoodSpans(endSpan(Start(from, id, ctx), id, throws))
         /\ OnlyAt(from, endSpan(Start(from, id, ctx), id, throws), id)
         /\ DOMAIN endSpan(Start(from, id, ctx), id, throws) = DOMAIN from \cup {id}
<1> DEFINE at == Start(from, id, ctx)
<1>1. GoodSpans(at) /\ OnlyAt(from, at, id) /\ DOMAIN at = DOMAIN from \cup {id}
  BY StartOf
<1> HIDE DEF at
<1>2. /\ GoodSpans(endSpan(at, id, throws)) /\ OnlyAt(at, endSpan(at, id, throws), id)
      /\ DOMAIN endSpan(at, id, throws) = DOMAIN at
  BY <1>1, EndSpanOf
<1>3. OnlyAt(from, endSpan(at, id, throws), id)
  BY <1>1, <1>2 DEF OnlyAt
<1> QED
  BY <1>1, <1>2, <1>3 DEF at

LEMMA ServerIdsKept ==
  ASSUME NEW c \in Connections
  PROVE  Request(c)' = Request(c) /\ Upgrade(c)' = Upgrade(c)
         /\ Open(c, "server")' = Open(c, "server")
  BY DEF Request, Upgrade, Open, Span

LEMMA IncomingRequestStep ==
  ASSUME WsInv, NEW c \in Connections, IncomingRequest(c)
  PROVE  WsInv'
<1> DEFINE asked == Start(spans, Request(c), header[c])
           inUpgrade == endSpan(Start(asked, Upgrade(c), Request(c)), Upgrade(c), TRUE)
<1>1. WsTypeOK /\ GoodSpans(spans) /\ ClientInv(c) /\ ServerInv(c) /\ "server" \in Sides
  BY DEF WsInv, WsTypeOK, Sides
<1>2. /\ UNCHANGED <<instrumented, header, errorListener, parentContext>>
      /\ socket["client"][c] \in {"connecting", "closed"} /\ socket["server"][c] = "none"
  BY DEF IncomingRequest, Settings, Is
<1>3. header[c] = Carried(c) /\ Connect(c) \in DOMAIN spans
  BY <1>1, <1>2 DEF ClientInv, Is
<1>4. /\ Request(c) \notin DOMAIN spans /\ Open(c, "server") \notin DOMAIN spans
      /\ Request(c) # Open(c, "server") /\ Request(c) # Upgrade(c)
      /\ Upgrade(c) # Open(c, "server")
  BY <1>1, <1>2, ServerIds DEF ServerInv, Is
<1>5. MayStart(spans, Request(c), header[c])
  BY <1>3, ClientIds, ServerIds DEF MayStart, Carried, BegunBy
<1>6. /\ GoodSpans(asked) /\ OnlyAt(spans, asked, Request(c))
      /\ DOMAIN asked = DOMAIN spans \cup {Request(c)}
      /\ asked[Request(c)].live = TRUE
  BY <1>1, <1>4, <1>5, StartOf
<1> HIDE DEF asked
<1>7. MayStart(asked, Upgrade(c), Request(c))
  BY <1>6, ServerIds DEF MayStart
<1>8. /\ GoodSpans(inUpgrade) /\ OnlyAt(asked, inUpgrade, Upgrade(c))
      /\ DOMAIN inUpgrade = DOMAIN asked \cup {Upgrade(c)}
  BY <1>6, <1>7, CallSpan
<1> HIDE DEF inUpgrade
<1>9. CASE /\ spans' = asked
           /\ requestSpans' = requestSpans \cup {c}
           /\ Become(c, "server", "asked")
  <2>1. /\ socket' \in [Sides -> [Connections -> States]]
        /\ socket'["server"][c] = "asked"
        /\ \A d \in Connections, s \in Sides :
             d # c \/ s # "server" => socket'[s][d] = socket[s][d]
    BY <1>1, <1>9, BecomeOf DEF States
  <2>2. WsTypeOK'
    BY <1>1, <1>2, <1>6, <1>9, <2>1 DEF WsTypeOK
  <2>3. OnlyOf(spans, spans', c, "server")
    BY <1>6, <1>9, ServerIds, OnlyAtIsOnlyOf
  <2>4. Elsewhere(c, "server")
    BY <1>2, <1>9, <2>1, <2>3 DEF Elsewhere
  <2>5. ServerInv(c)'
    BY <1>4, <1>6, <1>9, <2>1, ServerIdsKept DEF ServerInv, Is, Live
  <2> QED
    BY <1>1, <2>2, <2>4, <2>5, OneEnd
<1>10. CASE /\ \E at \in {asked, inUpgrade} : spans' = endSpan(at, Request(c), TRUE)
            /\ Become(c, "server", "threw")
            /\ UNCHANGED requestSpans
  <2>1. PICK at \in {asked, inUpgrade} : spans' = endSpan(at, Request(c), TRUE)
    BY <1>10
  <2>2. /\ GoodSpans(at) /\ OnlyOf(spans, at, c, "server")
        /\ Request(c) \in DOMAIN at /\ Open(c, "server") \notin DOMAIN at
    <3>1. OnlyOf(spans, asked, c, "server") /\ OnlyOf(asked, inUpgrade, c, "server")
      BY <1>6, <1>8, ServerIds, OnlyAtIsOnlyOf
    <3> QED
      BY <1>4, <1>6, <1>8, <3>1, OnlyOfTwice
  <2>3. /\ GoodSpans(spans') /\ OnlyAt(at, spans', Request(c))
        /\ DOMAIN spans' = DOMAIN at
        /\ spans'[Request(c)].live = FALSE
    BY <2>1, <2>2, EndSpanOf
  <2>4. OnlyOf(spans, spans', c, "server")
    <3>1. OnlyOf(at, spans', c, "server")
      BY <2>3, ServerIds, OnlyAtIsOnlyOf
    <3> QED
      BY <2>2, <3>1, OnlyOfTwice
  <2>5. /\ socket' \in [Sides -> [Connections -> States]]
        /\ socket'["server"][c] = "threw"
        /\ \A d \in Connections, s \in Sides :
             d # c \/ s # "server" => socket'[s][d] = socket[s][d]
    BY <1>1, <1>10, BecomeOf DEF States
  <2>6. WsTypeOK'
    BY <1>1, <1>2, <2>3, <2>5 DEF WsTypeOK
  <2>7. Elsewhere(c, "server")
    BY <1>2, <1>10, <2>4, <2>5 DEF Elsewhere
  <2>8. ServerInv(c)'
    BY <2>2, <2>3, <2>5, ServerIdsKept DEF ServerInv, Is, Live
  <2> QED
    BY <1>1, <2>6, <2>7, <2>8, OneEnd
<1> QED
  BY <1>9, <1>10 DEF IncomingRequest, asked, inUpgrade

LEMMA AcceptStep ==
  ASSUME WsInv, NEW c \in Connections, NEW from, GoodSpans(from),
         OnlyOf(spans, from, c, "server"),
         Upgrade(c) \in DOMAIN from, Open(c, "server") \notin DOMAIN from,
         c \in requestSpans, Accept(c, from),
         UNCHANGED <<instrumented, header, errorListener>>
  PROVE  WsInv'
<1> DEFINE made == IF "server" \in instrumented
                   THEN Start(from, Open(c, "server"), Upgrade(c)) ELSE from
<1>1. WsTypeOK /\ "server" \in Sides
  BY DEF WsInv, Sides
<1>2. MayStart(from, Open(c, "server"), Upgrade(c))
  BY ServerIds DEF MayStart
<1>3. /\ GoodSpans(made) /\ OnlyAt(from, made, Open(c, "server"))
      /\ "server" \in instrumented =>
           Open(c, "server") \in DOMAIN made /\ made[Open(c, "server")].live = TRUE
      /\ "server" \notin instrumented => Open(c, "server") \notin DOMAIN made
  <2>1. CASE "server" \in instrumented
    <3> DEFINE at == Start(from, Open(c, "server"), Upgrade(c))
    <3>1. made = at
      BY <2>1
    <3>2. /\ GoodSpans(at) /\ OnlyAt(from, at, Open(c, "server"))
          /\ DOMAIN at = DOMAIN from \cup {Open(c, "server")}
          /\ at[Open(c, "server")].live = TRUE
      BY <1>2, StartOf
    <3> HIDE DEF made, at
    <3> QED
      BY <2>1, <3>1, <3>2
  <2>2. CASE "server" \notin instrumented
    BY <2>2 DEF OnlyAt
  <2> QED
    BY <2>1, <2>2
<1>4. /\ spans' = End(made, Request(c))
      /\ requestSpans' = requestSpans \ {c}
      /\ Become(c, "server", "open")
  BY DEF Accept
<1> HIDE DEF made
<1>5. /\ GoodSpans(spans') /\ OnlyAt(made, spans', Request(c))
      /\ DOMAIN spans' = DOMAIN made
      /\ Request(c) \in DOMAIN made => spans'[Request(c)].live = FALSE
  BY <1>3, <1>4, EndOf
<1>6. OnlyOf(spans, spans', c, "server")
  <2>1. OnlyOf(from, made, c, "server") /\ OnlyOf(made, spans', c, "server")
    BY <1>3, <1>5, ServerIds, OnlyAtIsOnlyOf
  <2>2. OnlyOf(from, spans', c, "server")
    BY <2>1, OnlyOfTwice
  <2> QED
    BY <2>2, OnlyOfTwice
<1>7. /\ parentContext' \in [Sides -> [Connections -> SpanIds \cup {Root}]]
      /\ "server" \in instrumented => parentContext'["server"][c] = Upgrade(c)
      /\ \A d \in Connections, s \in Sides :
           d # c \/ s # "server" => parentContext'[s][d] = parentContext[s][d]
  <2>1. CASE "server" \in instrumented
    <3>1. parentContext' = [parentContext EXCEPT !["server"][c] = Upgrade(c)]
      BY <2>1 DEF Accept
    <3>2. Upgrade(c) \in SpanIds
      BY ServerIds
    <3> QED
      BY <1>1, <3>1, <3>2, ParentSet
  <2>2. CASE "server" \notin instrumented
    BY <1>1, <2>2 DEF Accept, WsTypeOK
  <2> QED
    BY <2>1, <2>2
<1>8. /\ socket' \in [Sides -> [Connections -> States]]
      /\ socket'["server"][c] = "open"
      /\ \A d \in Connections, s \in Sides :
           d # c \/ s # "server" => socket'[s][d] = socket[s][d]
  BY <1>1, <1>4, BecomeOf DEF States
<1>9. WsTypeOK'
  BY <1>1, <1>5, <1>7, <1>8 DEF WsTypeOK
<1>10. Elsewhere(c, "server")
  BY <1>4, <1>6, <1>7, <1>8 DEF Elsewhere
<1>11. /\ Upgrade(c) \in DOMAIN spans'
       /\ Live(Open(c, "server"))' <=> "server" \in instrumented
       /\ ~ Live(Request(c))'
  <2>1. Request(c) # Open(c, "server")
    BY ServerIds
  <2> QED
    BY <1>3, <1>5, <2>1, ServerIdsKept DEF OnlyAt, Live
<1>12. ServerInv(c)'
  BY <1>7, <1>8, <1>11, ServerIdsKept DEF ServerInv, Is
<1> QED
  BY <1>1, <1>9, <1>10, <1>12, OneEnd

LEMMA HandleUpgradeStep ==
  ASSUME WsInv, NEW c \in Connections, HandleUpgrade(c)
  PROVE  WsInv'
<1> DEFINE done(throws) == endSpan(Start(spans, Upgrade(c), Request(c)), Upgrade(c), throws)
<1>1. WsTypeOK /\ GoodSpans(spans) /\ ServerInv(c) /\ "server" \in Sides
  BY DEF WsInv, WsTypeOK, Sides
<1>2. UNCHANGED <<instrumented, header, errorListener>> /\ socket["server"][c] = "asked"
  BY DEF HandleUpgrade, Settings, Is
<1>3. /\ Request(c) \in DOMAIN spans /\ spans[Request(c)].live
      /\ c \in requestSpans /\ Open(c, "server") \notin DOMAIN spans
  BY <1>1, <1>2 DEF ServerInv, Is, Live
<1>4. MayStart(spans, Upgrade(c), Request(c))
  BY <1>3, ServerIds DEF MayStart
<1>5. ASSUME NEW throws \in BOOLEAN
      PROVE  /\ GoodSpans(done(throws)) /\ OnlyAt(spans, done(throws), Upgrade(c))
             /\ DOMAIN done(throws) = DOMAIN spans \cup {Upgrade(c)}
  BY <1>1, <1>4, CallSpan
<1> HIDE DEF done
<1>6. ASSUME NEW throws \in BOOLEAN
      PROVE  /\ OnlyOf(spans, done(throws), c, "server")
             /\ Upgrade(c) \in DOMAIN done(throws) /\ Open(c, "server") \notin DOMAIN done(throws)
             /\ Request(c) \in DOMAIN done(throws) /\ done(throws)[Request(c)].live
  <2>1. Open(c, "server") # Upgrade(c) /\ Request(c) # Upgrade(c)
    BY ServerIds
  <2>2. OnlyOf(spans, done(throws), c, "server")
    BY <1>5, ServerIds, OnlyAtIsOnlyOf
  <2> QED
    BY <1>3, <1>5, <2>1, <2>2 DEF OnlyAt
<1>7. CASE Accept(c, done(FALSE))
  BY <1>2, <1>3, <1>5, <1>6, <1>7, AcceptStep
<1>8. ASSUME NEW throws \in BOOLEAN, spans' = done(throws),
             NEW s \in {"verifying", "refused"}, Become(c, "server", s),
             UNCHANGED <<parentContext, requestSpans>>
      PROVE  WsInv'
  <2>1. /\ socket' \in [Sides -> [Connections -> States]]
        /\ socket'["server"][c] = s
        /\ \A d \in Connections, t \in Sides :
             d # c \/ t # "server" => socket'[t][d] = socket[t][d]
    BY <1>1, <1>8, BecomeOf DEF States
  <2>2. WsTypeOK'
    BY <1>1, <1>2, <1>5, <1>8, <2>1 DEF WsTypeOK
  <2>3. Elsewhere(c, "server")
    BY <1>2, <1>6, <1>8, <2>1 DEF Elsewhere
  <2>4. ServerInv(c)'
    BY <1>3, <1>6, <1>8, <2>1, ServerIdsKept DEF ServerInv, Is, Live
  <2> QED
    BY <1>1, <2>2, <2>3, <2>4, OneEnd
<1>9. CASE /\ \/ spans' = done(FALSE) /\ \E s \in {"verifying", "refused"} : Become(c, "server", s)
              \/ spans' = done(TRUE) /\ Become(c, "server", "refused")
           /\ UNCHANGED <<parentContext, requestSpans>>
  BY <1>8, <1>9
<1> QED
  BY <1>7, <1>9 DEF HandleUpgrade, done

LEMMA VerifiedStep ==
  ASSUME WsInv, NEW c \in Connections, Verified(c)
  PROVE  WsInv'
<1>1. WsTypeOK /\ GoodSpans(spans) /\ ServerInv(c) /\ "server" \in Sides
  BY DEF WsInv, WsTypeOK, Sides
<1>2. UNCHANGED <<instrumented, header, errorListener>> /\ socket["server"][c] = "verifying"
  BY DEF Verified, Settings, Is
<1>3. /\ c \in requestSpans /\ Open(c, "server") \notin DOMAIN spans
      /\ Upgrade(c) \in DOMAIN spans /\ Live(Request(c))
  BY <1>1, <1>2 DEF ServerInv, Is
<1>4. OnlyOf(spans, spans, c, "server")
  BY DEF OnlyOf
<1>5. CASE Accept(c, spans)
  BY <1>1, <1>2, <1>3, <1>4, <1>5, AcceptStep
<1>6. CASE Become(c, "server", "refused") /\ UNCHANGED <<spans, parentContext, requestSpans>>
  <2>1. /\ socket' \in [Sides -> [Connections -> States]]
        /\ socket'["server"][c] = "refused"
        /\ \A d \in Connections, s \in Sides :
             d # c \/ s # "server" => socket'[s][d] = socket[s][d]
    BY <1>1, <1>6, BecomeOf DEF States
  <2>2. WsTypeOK'
    BY <1>1, <1>2, <1>6, <2>1 DEF WsTypeOK, GoodSpans
  <2>3. Elsewhere(c, "server")
    BY <1>2, <1>4, <1>6, <2>1 DEF Elsewhere
  <2>4. ServerInv(c)'
    BY <1>3, <1>6, <2>1, ServerIdsKept DEF ServerInv, Is, Live
  <2> QED
    BY <1>1, <2>2, <2>3, <2>4, OneEnd
<1> QED
  BY <1>5, <1>6 DEF Verified

-----------------------------------------------------------------------------
(* The steps of either end of an open connection.                          *)

(* Where an end's open span, and the context of its socket, are.           *)
LEMMA OpenEnd ==
  ASSUME WsInv, NEW c \in Connections, NEW side \in Sides, side \in instrumented,
         Is(c, side, {"open", "closing"})
  PROVE  /\ Open(c, side) \in DOMAIN spans
         /\ parentContext[side][c] \in DOMAIN spans
         /\ parentContext[side][c] = IF side = "client" THEN Caller(c) ELSE Upgrade(c)
<1>1. ClientInv(c) /\ ServerInv(c)
  BY DEF WsInv
<1>2. CASE side = "client"
  BY <1>1, <1>2 DEF ClientInv, Is, Live
<1>3. CASE side = "server"
  BY <1>1, <1>3 DEF ServerInv, Is, Live
<1> QED
  BY <1>2, <1>3 DEF Sides

(* A step that starts or ends a span of another name, and may close.       *)
LEMMA AsideStep ==
  ASSUME WsInv, NEW c \in Connections, NEW side \in Sides, NEW id \in SpanIds,
         id[1] = c, id[2] = side,
         id[3] \in {"receive", "send", "early", "close", "conclude"},
         GoodSpans(spans'), OnlyAt(spans, spans', id),
         \/ UNCHANGED socket
         \/ Become(c, side, "closing") /\ Is(c, side, {"open", "closing"}),
         UNCHANGED <<instrumented, header, errorListener, parentContext, requestSpans>>
  PROVE  WsInv'
<1>1. WsTypeOK /\ ClientInv(c) /\ ServerInv(c)
  BY DEF WsInv
<1>2. /\ socket' \in [Sides -> [Connections -> States]]
      /\ \/ socket'[side][c] = socket[side][c]
         \/ socket'[side][c] = "closing" /\ socket[side][c] \in {"open", "closing"}
      /\ \A d \in Connections, s \in Sides :
           d # c \/ s # side => socket'[s][d] = socket[s][d]
  <2>1. CASE UNCHANGED socket
    BY <1>1, <2>1 DEF WsTypeOK
  <2>2. CASE Become(c, side, "closing") /\ Is(c, side, {"open", "closing"})
    BY <1>1, <2>2, BecomeOf DEF Is, States
  <2> QED
    BY <2>1, <2>2
<1>3. WsTypeOK'
  BY <1>1, <1>2 DEF WsTypeOK
<1>4. OnlyOf(spans, spans', c, side)
  BY OnlyAtIsOnlyOf
<1>5. Elsewhere(c, side)
  BY <1>2, <1>4 DEF Elsewhere
<1>6. \A x \in SpanIds : x # id => Kept(x)
  BY DEF OnlyAt, Kept
<1>7. CASE side = "client"
  <2>1. /\ Caller(c) # id /\ Connect(c) # id /\ Open(c, "client") # id
        /\ {Caller(c), Connect(c), Open(c, "client")} \subseteq SpanIds
    BY ClientIds
  <2>2. Kept(Caller(c)) /\ Kept(Connect(c)) /\ Kept(Open(c, "client"))
    BY <1>6, <2>1
  <2>3. /\ Caller(c)' = Caller(c) /\ Connect(c)' = Connect(c)
        /\ Open(c, "client")' = Open(c, "client")
    BY DEF Caller, Connect, Open, Span
  <2>4. ClientInv(c)'
    BY <1>1, <1>2, <1>7, <2>2, <2>3 DEF ClientInv, Is, Live, Kept
  <2> QED
    BY <1>3, <1>5, <1>7, <2>4, OneEnd
<1>8. CASE side = "server"
  <2>1. /\ Request(c) # id /\ Upgrade(c) # id /\ Open(c, "server") # id
        /\ {Request(c), Upgrade(c), Open(c, "server")} \subseteq SpanIds
    BY ServerIds
  <2>2. Kept(Request(c)) /\ Kept(Upgrade(c)) /\ Kept(Open(c, "server"))
    BY <1>6, <2>1
  <2>3. ServerInv(c)'
    BY <1>1, <1>2, <1>8, <2>2, ServerIdsKept DEF ServerInv, Is, Live, Kept
  <2> QED
    BY <1>3, <1>5, <1>8, <2>3, OneEnd
<1> QED
  BY <1>7, <1>8 DEF Sides

LEMMA OnlyOfSpans ==
  ASSUME WsInv, NEW c \in Connections, NEW side \in Sides, NEW name \in SpanNames,
         NEW ctx, NEW throws \in BOOLEAN,
         side \in instrumented => MayStart(spans, Span(c, side, name), ctx)
  PROVE  /\ GoodSpans(Only(c, side, name, ctx, throws))
         /\ OnlyAt(spans, Only(c, side, name, ctx, throws), Span(c, side, name))
<1>1. GoodSpans(spans)
  BY DEF WsInv, WsTypeOK
<1>2. CASE side \in instrumented
  <2>1. Only(c, side, name, ctx, throws) =
          endSpan(Start(spans, Span(c, side, name), ctx), Span(c, side, name), throws)
    BY <1>2 DEF Only
  <2> DEFINE id == Span(c, side, name)
  <2>2. /\ GoodSpans(endSpan(Start(spans, id, ctx), id, throws))
        /\ OnlyAt(spans, endSpan(Start(spans, id, ctx), id, throws), id)
    <3>1. MayStart(spans, id, ctx)
      BY <1>2
    <3> HIDE DEF id
    <3> QED
      BY <1>1, <3>1, CallSpan
  <2> QED
    BY <2>1, <2>2
<1>3. CASE side \notin instrumented
  <2>1. Only(c, side, name, ctx, throws) = spans
    BY <1>3 DEF Only
  <2> QED
    BY <1>1, <2>1 DEF OnlyAt
<1> QED
  BY <1>2, <1>3

LEMMA ReceiveStep ==
  ASSUME WsInv, NEW c \in Connections, NEW side \in Sides, Receive(c, side)
  PROVE  WsInv'
<1> DEFINE id == Span(c, side, "receive")
<1>1. /\ Is(c, side, {"open", "closing"}) /\ side \in instrumented
      /\ UNCHANGED <<instrumented, socket, header, errorListener, parentContext, requestSpans>>
  BY DEF Receive, Settings
<1>2. PICK throws \in BOOLEAN : spans' = Only(c, side, "receive", Open(c, side), throws)
  BY DEF Receive
<1>3. id \in SpanIds /\ id[1] = c /\ id[2] = side /\ id[3] = "receive" /\ "receive" \in SpanNames
  BY IdOf DEF SpanNames
<1> HIDE DEF id
<1>4. Open(c, side)[1] = c /\ Open(c, side)[2] = side /\ Open(c, side)[3] = "open"
  BY DEF Open, Span
<1>5. MayStart(spans, id, Open(c, side))
  BY <1>1, <1>3, <1>4, OpenEnd DEF MayStart
<1>6. GoodSpans(spans') /\ OnlyAt(spans, spans', id)
  BY <1>2, <1>3, <1>5, OnlyOfSpans DEF id
<1> QED
  BY <1>1, <1>3, <1>6, AsideStep

LEMMA SendStep ==
  ASSUME WsInv, NEW c \in Connections, NEW side \in Sides, NEW ctx \in Contexts(side),
         Send(c, side, ctx)
  PROVE  WsInv'
<1> DEFINE name == IF Is(c, side, {"connecting"}) THEN "early" ELSE "send"
           id == Span(c, side, name)
<1>1. /\ spans' = Start(spans, id, ctx)
      /\ UNCHANGED <<instrumented, socket, header, errorListener, parentContext, requestSpans>>
  BY DEF Send, Settings
<1>2. name \in {"early", "send"} /\ name \in SpanNames
  BY DEF SpanNames
<1> HIDE DEF name
<1>3. id \in SpanIds /\ id[1] = c /\ id[2] = side /\ id[3] = name
  BY <1>2, IdOf
<1> HIDE DEF id
<1>4. GoodSpans(spans) /\ MayStart(spans, id, ctx)
  BY <1>2, <1>3 DEF MayStart, Contexts, WsInv, WsTypeOK
<1>5. GoodSpans(spans') /\ OnlyAt(spans, spans', id)
  <2>1. GoodSpans(Start(spans, id, ctx)) /\ OnlyAt(spans, Start(spans, id, ctx), id)
    BY <1>4, StartOf
  <2> QED
    BY <1>1, <2>1
<1> QED
  BY <1>1, <1>2, <1>3, <1>5, AsideStep

LEMMA SentStep ==
  ASSUME WsInv, NEW c \in Connections, NEW side \in Sides, Sent(c, side)
  PROVE  WsInv'
<1> DEFINE id == Span(c, side, "send")
<1>1. UNCHANGED <<instrumented, socket, header, errorListener, parentContext, requestSpans>>
  BY DEF Sent, Settings
<1>2. PICK failed \in BOOLEAN : spans' = endSpan(spans, id, failed)
  BY DEF Sent
<1>3. id \in SpanIds /\ id[1] = c /\ id[2] = side /\ id[3] = "send"
  BY IdOf DEF SpanNames
<1> HIDE DEF id
<1>4. GoodSpans(spans') /\ OnlyAt(spans, spans', id)
  BY <1>2, EndSpanOf DEF WsInv, WsTypeOK
<1> QED
  BY <1>1, <1>3, <1>4, AsideStep

(* close, called by an application or by ws: its span is started in the    *)
(* context the socket was made in.                                         *)
LEMMA CloseStep ==
  ASSUME WsInv, NEW c \in Connections, NEW side \in Sides, NEW name \in {"close", "conclude"},
         Is(c, side, {"open", "closing"}),
         spans' = Only(c, side, name, parentContext[side][c], FALSE),
         Become(c, side, "closing"),
         UNCHANGED <<instrumented, header, errorListener, parentContext, requestSpans>>
  PROVE  WsInv'
<1> DEFINE id == Span(c, side, name)
           ctx == parentContext[side][c]
<1>1. id \in SpanIds /\ id[1] = c /\ id[2] = side /\ id[3] = name /\ name \in SpanNames
  BY IdOf DEF SpanNames
<1> HIDE DEF id
<1>2. /\ Caller(c)[1] = c /\ Upgrade(c)[1] = c
      /\ Caller(c)[2] = "client" /\ Upgrade(c)[2] = "server"
      /\ Caller(c)[3] = "caller" /\ Upgrade(c)[3] = "upgrade"
  BY ClientIds, ServerIds
<1>3. side \in instrumented =>
        /\ ctx \in DOMAIN spans /\ ctx[1] = c /\ ctx[2] = side
        /\ ctx[3] \notin {"send", "early"}
  BY <1>2, OpenEnd DEF Sides
<1>4. side \in instrumented => MayStart(spans, id, ctx)
  BY <1>1, <1>3 DEF MayStart
<1>5. GoodSpans(spans') /\ OnlyAt(spans, spans', id)
  BY <1>1, <1>4, OnlyOfSpans DEF id
<1> QED
  BY <1>1, <1>5, AsideStep

LEMMA FailsStep ==
  ASSUME WsInv, NEW c \in Connections, NEW side \in Sides, Fails(c, side)
  PROVE  WsInv'
<1> DEFINE seen == IF side = "client" THEN ConnectionError(c) ELSE spans
           open == Open(c, side)
<1>1. WsTypeOK /\ GoodSpans(spans) /\ ClientInv(c) /\ ServerInv(c)
  BY DEF WsInv, WsTypeOK
<1>2. /\ socket[side][c] = "open" /\ Become(c, side, "closing")
      /\ spans' = Mark(seen, open)
      /\ UNCHANGED <<instrumented, header, parentContext, requestSpans>>
      /\ errorListener' = IF side = "client" THEN errorListener \ {c} ELSE errorListener
  BY DEF Fails, Settings, Is
<1>3. /\ GoodSpans(seen) /\ DOMAIN seen = DOMAIN spans
      /\ side = "client" => OnlyAt(spans, seen, Connect(c))
      /\ side = "server" => seen = spans
  BY <1>1, ConnectionErrorOf DEF Sides
<1>4. side = "client" => seen[Connect(c)] = ConnectionError(c)[Connect(c)]
  OBVIOUS
<1> HIDE DEF seen, open
<1>5. /\ GoodSpans(spans') /\ OnlyAt(seen, spans', open)
      /\ DOMAIN spans' = DOMAIN seen
      /\ open \in DOMAIN seen => spans'[open].live = seen[open].live
  BY <1>2, <1>3, MarkOf
<1>6. open \in SpanIds /\ open[1] = c /\ open[2] = side /\ open[3] = "open"
  BY IdOf DEF open, Open, SpanNames
<1>7. OnlyOf(spans, spans', c, side)
  <2>1. OnlyOf(seen, spans', c, side)
    BY <1>5, <1>6, OnlyAtIsOnlyOf
  <2>2. OnlyOf(spans, seen, c, side)
    <3>1. CASE side = "client"
      BY <1>3, <3>1, ClientIds, OnlyAtIsOnlyOf
    <3>2. CASE side = "server"
      BY <1>3, <3>2 DEF OnlyOf
    <3> QED
      BY <3>1, <3>2 DEF Sides
  <2> QED
    BY <2>1, <2>2, OnlyOfTwice
<1>8. /\ socket' \in [Sides -> [Connections -> States]]
      /\ socket'[side][c] = "closing"
      /\ \A d \in Connections, s \in Sides :
           d # c \/ s # side => socket'[s][d] = socket[s][d]
  BY <1>1, <1>2, BecomeOf DEF States
<1>9. WsTypeOK'
  BY <1>1, <1>2, <1>5, <1>8 DEF WsTypeOK
<1>10. Elsewhere(c, side)
  BY <1>2, <1>7, <1>8 DEF Elsewhere, Sides
<1>11. ASSUME side = "client"
       PROVE  ClientInv(c)'
  <2>1. /\ Caller(c) \in DOMAIN spans /\ Connect(c) \in DOMAIN spans /\ open \in DOMAIN spans
        /\ spans[Connect(c)].live = FALSE /\ ~ spans[Connect(c)].error
        /\ spans[open].live = TRUE
        /\ header[c] = Carried(c) /\ parentContext["client"][c] = Caller(c)
    <3>1. /\ Caller(c) \in DOMAIN spans /\ Connect(c) \in DOMAIN spans /\ open \in DOMAIN spans
          /\ ~ spans[Connect(c)].live /\ ~ spans[Connect(c)].error
          /\ spans[open].live
          /\ header[c] = Carried(c) /\ parentContext["client"][c] = Caller(c)
      BY <1>1, <1>2, <1>11 DEF ClientInv, Is, Live, open
    <3>2. spans[Connect(c)] \in SpanRecords /\ spans[open] \in SpanRecords
      BY <1>1, <3>1 DEF GoodSpans
    <3> QED
      BY <3>1, <3>2 DEF SpanRecords
  <2>2. seen[Connect(c)].live = FALSE /\ ~ seen[Connect(c)].error
    <3>1. CASE c \in errorListener
      BY <1>4, <1>11, <2>1, <3>1, ConnectionErrorOf
    <3>2. CASE c \notin errorListener
      BY <1>4, <1>11, <2>1, <3>2, ConnectionErrorOf
    <3> QED
      BY <3>1, <3>2
  <2>3. Connect(c) # open /\ Connect(c)[3] = "connect"
    BY <1>6, ClientIds
  <2>4. spans'[open].live = TRUE
    BY <1>3, <1>5, <1>11, <2>1, <2>3 DEF OnlyAt
  <2>5. spans'[Connect(c)].live = FALSE /\ ~ spans'[Connect(c)].error
    BY <1>3, <1>5, <2>1, <2>2, <2>3 DEF OnlyAt
  <2>6. Connect(c)' = Connect(c) /\ Caller(c)' = Caller(c) /\ Open(c, "client")' = open
    BY <1>11 DEF Connect, Caller, Open, Span, open
  <2> QED
    BY <1>2, <1>3, <1>5, <1>8, <1>11, <2>1, <2>4, <2>5, <2>6 DEF ClientInv, Is, Live
<1>12. ASSUME side = "server"
       PROVE  ServerInv(c)'
  <2>1. Request(c) # open /\ Upgrade(c) # open
    BY <1>6, ServerIds
  <2>2. Kept(Request(c)) /\ DOMAIN spans' = DOMAIN spans
    BY <1>3, <1>5, <1>12, <2>1 DEF Kept, OnlyAt
  <2>3. open \in DOMAIN spans => spans'[open].live = spans[open].live
    BY <1>3, <1>5, <1>12
  <2>4. Open(c, "server") = open
    BY <1>12 DEF open
  <2> QED
    BY <1>1, <1>2, <1>8, <1>12, <2>2, <2>3, <2>4, ServerIdsKept
       DEF ServerInv, Is, Live, Kept
<1> QED
  BY <1>9, <1>10, <1>11, <1>12, OneEnd

LEMMA ClosedStep ==
  ASSUME WsInv, NEW c \in Connections, NEW side \in Sides, Closed(c, side)
  PROVE  WsInv'
<1> DEFINE open == Open(c, side)
<1>1. WsTypeOK /\ GoodSpans(spans) /\ ClientInv(c) /\ ServerInv(c)
  BY DEF WsInv, WsTypeOK
<1>2. /\ socket[side][c] = "closing" /\ Become(c, side, "closed")
      /\ spans' = End(spans, open)
      /\ UNCHANGED <<instrumented, header, errorListener, parentContext, requestSpans>>
  BY DEF Closed, Settings, Is
<1>3. open \in SpanIds /\ open[1] = c /\ open[2] = side /\ open[3] = "open"
  BY IdOf DEF Open, SpanNames
<1> HIDE DEF open
<1>4. /\ GoodSpans(spans') /\ OnlyAt(spans, spans', open)
      /\ DOMAIN spans' = DOMAIN spans
      /\ open \in DOMAIN spans => spans'[open].live = FALSE
  BY <1>1, <1>2, EndOf
<1>5. OnlyOf(spans, spans', c, side)
  BY <1>3, <1>4, OnlyAtIsOnlyOf
<1>6. /\ socket' \in [Sides -> [Connections -> States]]
      /\ socket'[side][c] = "closed"
      /\ \A d \in Connections, s \in Sides :
           d # c \/ s # side => socket'[s][d] = socket[s][d]
  BY <1>1, <1>2, BecomeOf DEF States
<1>7. WsTypeOK'
  BY <1>1, <1>2, <1>4, <1>6 DEF WsTypeOK
<1>8. Elsewhere(c, side)
  BY <1>2, <1>5, <1>6 DEF Elsewhere
<1>9. ASSUME side = "client"
      PROVE  ClientInv(c)'
  <2>1. Connect(c) # open
    BY <1>3, ClientIds
  <2>2. Kept(Connect(c))
    BY <1>4, <2>1 DEF Kept, OnlyAt
  <2>3. Open(c, "client") = open
    BY <1>9 DEF open
  <2>4. /\ Connect(c)' = Connect(c) /\ Caller(c)' = Caller(c)
        /\ Open(c, "client")' = Open(c, "client")
    BY DEF Connect, Caller, Open, Span
  <2> QED
    BY <1>1, <1>2, <1>4, <1>6, <1>9, <2>2, <2>3, <2>4 DEF ClientInv, Is, Live, Kept
<1>10. ASSUME side = "server"
       PROVE  ServerInv(c)'
  <2>1. Request(c) # open
    BY <1>3, ServerIds
  <2>2. Kept(Request(c))
    BY <1>4, <2>1 DEF Kept, OnlyAt
  <2>3. Open(c, "server") = open
    BY <1>10 DEF open
  <2> QED
    BY <1>1, <1>2, <1>4, <1>6, <1>10, <2>2, <2>3, ServerIdsKept
       DEF ServerInv, Is, Live, Kept
<1> QED
  BY <1>7, <1>8, <1>9, <1>10, OneEnd

-----------------------------------------------------------------------------
(* The invariant holds at first, and every step keeps it.                  *)
LEMMA WsInit == Init => WsInv
<1> SUFFICES ASSUME Init  PROVE  WsInv
  OBVIOUS
<1> DEFINE callers == {Caller(c) : c \in Connections}
<1>1. spans = [id \in callers |-> [trace |-> id, live |-> TRUE, error |-> FALSE]]
  BY DEF Init
<1>2. \A c \in Connections : Caller(c) \in callers
  OBVIOUS
<1>3. \A id \in callers :
        /\ id \in SpanIds /\ id[3] = "caller" /\ id[1] \in Connections
        /\ BegunBy(id[1], id[2]) = id
  BY ClientIds DEF BegunBy
<1> HIDE DEF callers
<1>4. DOMAIN spans = callers /\ \A id \in callers : spans[id].trace = id
  BY <1>1
<1>5. spans \in [callers -> SpanRecords]
  BY <1>1, <1>3 DEF SpanRecords
<1>6. GoodSpans(spans)
  BY <1>3, <1>4, <1>5 DEF GoodSpans
<1>7. WsTypeOK
  BY <1>6 DEF WsTypeOK, Init, States, Sides
<1>8. ASSUME NEW c \in Connections
      PROVE  ClientInv(c)
  <2>1. Connect(c) \notin callers /\ Open(c, "client") \notin callers
    BY <1>3, ClientIds
  <2> QED
    BY <1>2, <1>4, <2>1 DEF Init, ClientInv, Is, Live, Sides
<1>9. ASSUME NEW c \in Connections
      PROVE  ServerInv(c)
  <2>1. Request(c) \notin callers /\ Open(c, "server") \notin callers
    BY <1>3, ServerIds
  <2> QED
    BY <1>4, <2>1 DEF Init, ServerInv, Is, Live, Sides
<1> QED
  BY <1>7, <1>8, <1>9 DEF WsInv

LEMMA WsStep == WsInv /\ [Next]_vars => WsInv'
<1> SUFFICES ASSUME WsInv, [Next]_vars  PROVE  WsInv'
  OBVIOUS
<1>1. CASE UNCHANGED vars
  BY <1>1, ZenonT(60) DEF vars, WsInv, WsTypeOK, GoodSpans, ClientInv, ServerInv, Is, Live,
     Caller, Connect, Request, Upgrade, Open, Span
<1>2. ASSUME NEW c \in Connections,
             Construct(c) \/ ClientOpens(c) \/ ClientFails(c)
      PROVE  WsInv'
  BY <1>2, ConstructStep, ClientOpensStep, ClientFailsStep
<1>3. ASSUME NEW c \in Connections,
             IncomingRequest(c) \/ HandleUpgrade(c) \/ Verified(c)
      PROVE  WsInv'
  BY <1>3, IncomingRequestStep, HandleUpgradeStep, VerifiedStep
<1>4. ASSUME NEW c \in Connections, NEW side \in Sides,
             Fails(c, side) \/ Closed(c, side) \/ Receive(c, side) \/ Sent(c, side)
      PROVE  WsInv'
  BY <1>4, FailsStep, ClosedStep, ReceiveStep, SentStep
<1>5. ASSUME NEW c \in Connections, NEW side \in Sides, Concludes(c, side)
      PROVE  WsInv'
  <2>1. Is(c, side, {"open", "closing"})
    BY <1>5 DEF Concludes, Is
  <2> QED
    BY <1>5, <2>1, CloseStep DEF Concludes, Settings
<1>6. ASSUME NEW c \in Connections, NEW side \in Sides, NEW ctx \in Contexts(side),
             Send(c, side, ctx)
      PROVE  WsInv'
  BY <1>6, SendStep
<1>7. ASSUME NEW c \in Connections, NEW side \in Sides, NEW ctx \in Contexts(side),
             Close(c, side, ctx)
      PROVE  WsInv'
  BY <1>7, CloseStep DEF Close, Settings
<1> QED
  BY <1>1, <1>2, <1>3, <1>4, <1>5, <1>6, <1>7 DEF Next

(* Of every connection: where the spans of its two ends are, and the       *)
(* contexts its spans are started in.                                      *)
THEOREM WsInvariant == Spec => []WsInv
  BY WsInit, WsStep, PTL DEF Spec

(* The connect, request and open spans last as long as what they name, and *)
(* a connection that opened is not marked as failed to connect, whichever  *)
(* listeners stay attached, however the two ends open, fail and close      *)
(* (_patchConstructor, _patchServerHandleUpgrade).                         *)
THEOREM SpansLast == Spec => []SpansLastAsTheirSockets
<1>1. WsInv => SpansLastAsTheirSockets
  <2> SUFFICES ASSUME WsInv, NEW c \in Connections
               PROVE  /\ Live(Connect(c)) <=> Is(c, "client", {"connecting", "threw"})
                      /\ Live(Request(c)) <=> Is(c, "server", {"asked", "verifying", "refused"})
                      /\ \A side \in Sides :
                           Live(Open(c, side)) <=>
                             Is(c, side, {"open", "closing"}) /\ side \in instrumented
                      /\ Is(c, "client", {"open", "closing", "closed"}) =>
                           (spans[Connect(c)].error <=> Open(c, "client") \notin DOMAIN spans)
    BY DEF SpansLastAsTheirSockets
  <2>1. ClientInv(c) /\ ServerInv(c) /\ "client" \in instrumented
    BY DEF WsInv, WsTypeOK, Sides
  <2>2. ASSUME NEW side \in Sides
        PROVE  Live(Open(c, side)) <=> Is(c, side, {"open", "closing"}) /\ side \in instrumented
    <3>1. CASE side = "client"
      BY <2>1, <3>1 DEF ClientInv
    <3>2. CASE side = "server"
      BY <2>1, <3>2 DEF ServerInv
    <3> QED
      BY <3>1, <3>2 DEF Sides
  <2> QED
    BY <2>1, <2>2 DEF ClientInv, ServerInv
<1> QED
  BY <1>1, WsInvariant, PTL

(* All that an end of a connection does but send is in one trace: the      *)
(* client's caller's, and on a server whose client was made with           *)
(* new WebSocket(url, options) the one its request began, whichever code   *)
(* closes it (inject, extract, close).                                     *)
THEOREM ConnectionIsOneTrace == Spec => []OneTrace
<1>1. WsInv => OneTrace
  BY DEF WsInv, WsTypeOK, GoodSpans, OneTrace
<1> QED
  BY <1>1, WsInvariant, PTL
=============================================================================
