--------------------------- MODULE ProcessMeaning ---------------------------
(***************************************************************************)
(* What a composed process is to mean, in terms of whole histories and not *)
(* of steps: bind runs its first process on the history until that is      *)
(* over, and the next one on the rest; both runs its two processes each on *)
(* the whole history, as if the other were not there.                      *)
(*                                                                         *)
(* Meaning(t, s, h): how t, started in state s, fares with the events h:   *)
(* the outcome, the event with which it was over (0: at the start), which  *)
(* events it took, and the effects that came of the start and each event.  *)
(***************************************************************************)
EXTENDS ProcessAlgebra, FiniteSetsExt

Until(h, i) == SubSeq(h, 1, i)
After(h, i) == SubSeq(h, i + 1, Len(h))
Quiet(h) == [i \in 0..Len(h) |-> << >>]

IsOver(r) == r.kind # "InProgress"

Outcome(kind, s, v, at, took, eff) ==
  [kind |-> kind, state |-> s, value |-> v, at |-> at, took |-> took, eff |-> eff]

RECURSIVE Meaning(_, _, _), MeaningOfGen(_, _, _, _)

MeaningOfWait(t, s, h) ==
  LET heard == {i \in 1..Len(h) : h[i] \in t.oks \cup t.errs} IN
  IF heard = {} THEN Outcome("InProgress", s, << >>, Len(h), {}, Quiet(h))
  ELSE LET i == Min(heard) IN
    IF h[i] \in t.oks THEN Outcome("Succeeded", s, <<h[i]>>, i, {i}, Quiet(h))
                      ELSE Outcome("Failed", s, h[i], i, {i}, Quiet(h))

(* The second process starts where the first one was over.                 *)
Then(r1, r2, h) ==
  Outcome(r2.kind, r2.state, r2.value, r1.at + r2.at,
          r1.took \cup {r1.at + i : i \in r2.took},
          [i \in 0..Len(h) |-> r1.eff[i] \o IF i >= r1.at THEN r2.eff[i - r1.at] ELSE << >>])

(* Both are over with the first failure, or with the later success.  The   *)
(* state is what the two have reached by then, each on its own.            *)
MeaningOfBoth(t, s, h) ==
  LET r1 == Meaning(t.p, s, h)
      r2 == Meaning(t.q, s, h)
      failures == {r.at : r \in {x \in {r1, r2} : x.kind = "Failed"}}
      ends == IF failures # {} THEN Min(failures)
              ELSE IF IsOver(r1) /\ IsOver(r2) THEN Max({r1.at, r2.at}) ELSE Len(h)
      state == Meaning(t.p, s, Until(h, ends)).state \cup Meaning(t.q, s, Until(h, ends)).state
      took == {i \in r1.took \cup r2.took : i <= ends}
      eff == [i \in 0..Len(h) |-> IF i <= ends THEN r1.eff[i] \o r2.eff[i] ELSE << >>]
  IN IF failures # {}
       THEN Outcome("Failed", state, IF r2.kind = "Failed" /\ r2.at = ends THEN r2.value ELSE r1.value,
                    ends, took, eff)
     ELSE IF IsOver(r1) /\ IsOver(r2)
       THEN Outcome("Succeeded", state, <<"pair">> \o r1.value \o r2.value, ends, took, eff)
     ELSE Outcome("InProgress", state, << >>, ends, took, eff)

(* A generator from its i-th process on, having received got.              *)
MeaningOfGen(body, got, s, h) ==
  IF body = << >> THEN Outcome("Succeeded", s, got, 0, {}, Quiet(h))
  ELSE LET r == Meaning(Head(body), s, h) IN
    IF r.kind # "Succeeded" THEN r
    ELSE Then(r, MeaningOfGen(Tail(body), got \o r.value, r.state, After(h, r.at)), h)

Meaning(t, s, h) ==
  CASE t.op = "pure"     -> Outcome("Succeeded", s, t.value, 0, {}, Quiet(h))
    [] t.op = "failed"   -> Outcome("Failed", s, t.error, 0, {}, Quiet(h))
    [] t.op = "lift"     -> Outcome("Succeeded", s, << >>, 0, {}, [Quiet(h) EXCEPT ![0] = t.eff])
    [] t.op = "setState" -> Outcome("Succeeded", s \cup {t.mark}, << >>, 0, {}, Quiet(h))
    [] t.op = "wait"     -> MeaningOfWait(t, s, h)
    [] t.op = "map"      ->
         LET r == Meaning(t.p, s, h) IN
         IF r.kind = "Succeeded" THEN [r EXCEPT !.value = <<t.f.with>> \o @] ELSE r
    [] t.op = "bind"     ->
         LET r == Meaning(t.p, s, h) IN
         IF r.kind # "Succeeded" THEN r
         ELSE Then(r, Meaning(t.k.p, r.state, After(h, r.at)), h)
    [] t.op = "both"     -> MeaningOfBoth(t, s, h)
    [] t.op = "Do"       -> MeaningOfGen(t.genFn, << >>, s, h)
=============================================================================
