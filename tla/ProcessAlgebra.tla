--------------------------- MODULE ProcessAlgebra ---------------------------
(***************************************************************************)
(* process-algebra.ts, effects.ts and custom-effects.ts: what a process    *)
(* built from combinators does with the events it is offered.              *)
(*                                                                         *)
(* A process is a term.  proc(t, s, G) runs the function it stands for on  *)
(* the state s; next(ps, ev, G) calls the `next` of an InProgress state,   *)
(* whose closure is a record of what the code closes over.  G holds the    *)
(* generators of the Do's that were started: they are mutable, so both     *)
(* operators return them with their result.  A state is a set of marks,    *)
(* setState adds one, and stateMerger is the union; a value is a sequence  *)
(* of words.                                                               *)
(***************************************************************************)
EXTENDS Integers, Sequences, SequencesExt

RECURSIVE Call(_, _), MapState(_, _), proc(_, _, _), next(_, _, _)

(* An effect is the sequence of what it executes; each has a name and the  *)
(* lists of events it may enqueue, one list for each way it may turn out.  *)
EffectUnit == << >>
EffectBind(effect, f) == effect \o f
EffectPipe(effect, fns) == FoldLeft(EffectBind, effect, fns)
FromAsync(name, lists) == <<[name |-> name, gives |-> lists]>>

Succeeded(s, v) == [kind |-> "Succeeded", state |-> s, value |-> v]
Failed(s, e) == [kind |-> "Failed", state |-> s, value |-> e]
InProgress(s, c) == [kind |-> "InProgress", state |-> s, next |-> c]

(* What a call returns: an effect and a state, or null.                    *)
Returns(eff, ps, G) == [took |-> TRUE, eff |-> eff, ps |-> ps, G |-> G]
Null(G) == [took |-> FALSE, G |-> G]

-----------------------------------------------------------------------------
(* The functions that the code maps results and states with.               *)
Call(f, v) ==
  CASE f.fn = "tag"      -> <<f.with>> \o v
    [] f.fn = "pairing"  -> [fn |-> "pairWith", with |-> v]  \* a => b => [a, b]
    [] f.fn = "pairWith" -> <<"pair">> \o f.with \o v
    [] f.fn = "applyTo"  -> Call(v, f.with)                  \* f => f(state.value)

CallState(f, s) ==
  CASE f.fn = "left"  -> <<f.with, s>>
    [] f.fn = "right" -> <<s, f.with>>
    [] f.fn = "merge" -> s[1] \cup s[2]                      \* stateMerger

Map(f, ps) ==
  CASE ps.kind = "Succeeded"  -> Succeeded(ps.state, Call(f, ps.value))
    [] ps.kind = "Failed"     -> ps
    [] ps.kind = "InProgress" -> InProgress(ps.state, [op |-> "map", f |-> f, of |-> ps])

MapState(f, ps) ==
  IF ps.kind = "InProgress"
    THEN InProgress(CallState(f, ps.state), [op |-> "mapState", f |-> f, of |-> ps])
    ELSE [ps EXCEPT !.state = CallState(f, @)]

apply(f, x) ==
  IF x.kind = "Failed" THEN MapState([fn |-> "left", with |-> f.state], x)
  ELSE IF f.kind = "Failed" THEN MapState([fn |-> "right", with |-> x.state], f)
  ELSE IF f.kind = "Succeeded"
    THEN MapState([fn |-> "left", with |-> f.state], Map(f.value, x))
  ELSE IF x.kind = "Succeeded"
    THEN MapState([fn |-> "right", with |-> x.state], Map([fn |-> "applyTo", with |-> x.value], f))
  ELSE InProgress(<<f.state, x.state>>, [op |-> "apply", left |-> f, right |-> x])

(* Mutant: an event is for one side only.                                  *)
NextOfEither(c, r1, r2) ==
  IF ~r1.took /\ ~r2.took THEN Null(r2.G)
  ELSE IF r1.took THEN Returns(r1.eff, apply(r1.ps, c.right), r2.G)
  ELSE Returns(r2.eff, apply(c.left, r2.ps), r2.G)

(* Mutant: the right side's effect goes first.                             *)
NextOfBothSwapped(c, r1, r2) ==
  IF ~r1.took /\ ~r2.took THEN Null(r2.G)
  ELSE Returns(EffectBind(IF r2.took THEN r2.eff ELSE EffectUnit,
                          IF r1.took THEN r1.eff ELSE EffectUnit),
               apply(IF r1.took THEN r1.ps ELSE c.left, IF r2.took THEN r2.ps ELSE c.right), r2.G)

(* Mutant: where both sides accept an event, the right one's effect is lost. *)
NextOfBothLosing(c, r1, r2) ==
  IF ~r1.took /\ ~r2.took THEN Null(r2.G)
  ELSE Returns(IF r1.took THEN r1.eff ELSE r2.eff,
               apply(IF r1.took THEN r1.ps ELSE c.left, IF r2.took THEN r2.ps ELSE c.right), r2.G)

(* Both sides of an apply have been offered the event: none, one of them   *)
(* or both have taken it.                                                  *)
NextOfBoth(c, r1, r2) ==
  IF ~r1.took /\ ~r2.took THEN Null(r2.G)
  ELSE IF ~r2.took THEN Returns(r1.eff, apply(r1.ps, c.right), r2.G)
  ELSE IF ~r1.took THEN Returns(r2.eff, apply(c.left, r2.ps), r2.G)
  ELSE Returns(EffectBind(r1.eff, r2.eff), apply(r1.ps, r2.ps), r2.G)

-----------------------------------------------------------------------------
(* The terms, named after the functions of the namespace Process.  A       *)
(* continuation ignores its argument, or is the step of a generator.       *)
Pure(v) == [op |-> "pure", value |-> v]
Fail(e) == [op |-> "failed", error |-> e]
LiftEffect(eff) == [op |-> "lift", eff |-> eff]
SetState(mark) == [op |-> "setState", mark |-> mark]
MapProc(tag, p) == [op |-> "map", f |-> [fn |-> "tag", with |-> tag], p |-> p]
Const(p) == [k |-> "const", p |-> p]
Bind(p, k) == [op |-> "bind", p |-> p, k |-> k]
Pipe(p, fns) == FoldLeft(Bind, p, fns)
Both(p, q) == [op |-> "both", p |-> p, q |-> q]
Do(genFn) == [op |-> "Do", genFn |-> genFn]
IfThenElse(condition, p, q) == IF condition THEN p ELSE q

(* eventFn: the events it answers with Ok and those it answers with Err.   *)
WaitForEvent(oks, errs) == [op |-> "wait", oks |-> oks, errs |-> errs]

FromEffect(eff, wait) == Bind(LiftEffect(eff), Const(wait))

(* The reply, an HTTP error and a network error all become an event.       *)
httpGet(name, ok, err) ==
  FromEffect(FromAsync(name, {<<IF outcome = "ok" THEN ok ELSE err>> :
                                outcome \in {"ok", "httpError", "networkError"}}),
             WaitForEvent({ok}, {err}))

-----------------------------------------------------------------------------
(* iterator.next(prev): the generator returns what it received.            *)
GenNext(g, prev, G) ==
  LET it == G[g]
      got == it.got \o prev
  IN [process |-> IF it.pos < Len(it.body)
                    THEN Bind(it.body[it.pos + 1], [k |-> "step", g |-> g])
                    ELSE IF it.pos = Len(it.body) THEN Pure(got) ELSE Pure(<< >>),
      G |-> [G EXCEPT ![g] = [it EXCEPT !.pos = @ + 1, !.got = got]]]

Continue(k, value, G) ==
  IF k.k = "const" THEN [process |-> k.p, G |-> G] ELSE GenNext(k.g, value, G)

(* What bind makes of the result of its first process, at once and again   *)
(* after every event that process takes.                                   *)
BindResult(r, k) ==
  CASE r.ps.kind = "Succeeded" ->
         LET c == Continue(k, r.ps.value, r.G)
             n == proc(c.process, r.ps.state, c.G)
         IN [n EXCEPT !.eff = EffectBind(r.eff, @)]
    [] r.ps.kind = "Failed" -> r
    [] r.ps.kind = "InProgress" ->
         [r EXCEPT !.ps = InProgress(r.ps.state, [op |-> "bind", of |-> r.ps, k |-> k])]

BothResult(r1, r2) ==
  Returns(EffectPipe(r1.eff, <<r2.eff>>),
          MapState([fn |-> "merge"], apply(Map([fn |-> "pairing"], r1.ps), r2.ps)), r2.G)

proc(t, s, G) ==
  CASE t.op = "pure"     -> Returns(EffectUnit, Succeeded(s, t.value), G)
    [] t.op = "failed"   -> Returns(EffectUnit, Failed(s, t.error), G)
    [] t.op = "lift"     -> Returns(t.eff, Succeeded(s, << >>), G)
    [] t.op = "setState" -> Returns(EffectUnit, Succeeded(s \cup {t.mark}, << >>), G)
    [] t.op = "wait"     ->
         Returns(EffectUnit, InProgress(s, [op |-> "wait", oks |-> t.oks, errs |-> t.errs]), G)
    [] t.op = "map"      -> LET r == proc(t.p, s, G) IN [r EXCEPT !.ps = Map(t.f, @)]
    [] t.op = "bind"     -> BindResult(proc(t.p, s, G), t.k)
    [] t.op = "both"     -> LET r1 == proc(t.p, s, G) IN BothResult(r1, proc(t.q, s, r1.G))
    [] t.op = "Do"       ->
         LET g == Len(G) + 1
             first == GenNext(g, << >>, Append(G, [body |-> t.genFn, pos |-> 0, got |-> << >>]))
         IN proc(first.process, s, first.G)

next(ps, ev, G) ==
  LET c == ps.next IN
  CASE c.op = "wait" ->
         IF ev \in c.oks THEN Returns(EffectUnit, Succeeded(ps.state, <<ev>>), G)
         ELSE IF ev \in c.errs THEN Returns(EffectUnit, Failed(ps.state, ev), G)
         ELSE Null(G)
    [] c.op = "apply" ->
         LET r1 == next(c.left, ev, G) IN NextOfBoth(c, r1, next(c.right, ev, r1.G))
    [] OTHER ->
         LET r == next(c.of, ev, G) IN
         IF ~r.took THEN r
         ELSE CASE c.op = "map"      -> [r EXCEPT !.ps = Map(c.f, @)]
                [] c.op = "mapState" -> [r EXCEPT !.ps = MapState(c.f, @)]
                [] c.op = "bind"     -> BindResult(r, c.k)
=============================================================================
