---------------------------- MODULE MCProcessRun ----------------------------
(***************************************************************************)
(* Processes for TLC: everything of two levels over a handful of parts,    *)
(* and some of three with Do, both and requests inside each other.         *)
(***************************************************************************)
EXTENDS ProcessRun

A == WaitForEvent({"a"}, {"x"})
B == WaitForEvent({"b"}, {"a"})
Req1 == httpGet("r1", "ok1", "err1")
Req2 == httpGet("r2", "ok2", "err2")
Effect(name) == LiftEffect(FromAsync(name, {<< >>}))

Parts == {Pure(<<"v">>), Fail("no"), SetState("s"), Effect("e"), A, B, Req1}

Pairs ==
  {Both(p, q) : p \in Parts, q \in Parts} \cup {Bind(p, Const(q)) : p \in Parts, q \in Parts}
    \cup {Do(<<p, q>>) : p \in Parts, q \in Parts} \cup {MapProc("t", p) : p \in Parts}

Sides == {Pipe(SetState("l"), <<Const(A), Const(Effect("e"))>>),
          Do(<<B, SetState("r"), Req1>>),
          Bind(A, Const(Req2)),
          MapProc("t", Do(<<A, B>>)),
          Both(A, Do(<<SetState("m"), A>>)),
          Bind(B, Const(IfThenElse(TRUE, Fail("late"), A)))}

Nested ==
  {Both(p, q) : p \in Sides, q \in Sides}
    \cup {Do(<<Both(p, q), A>>) : p \in Sides, q \in {A, Req1, Do(<<Req2, B>>)}}
    \cup {Both(Bind(A, Const(p)), Bind(A, Const(q))) : p \in {Fail("no"), B}, q \in {Fail("never"), A}}
    \cup {Both(Both(p, Req1), Bind(A, Const(Req2))) : p \in Sides}

SomeProcesses == Pairs \cup Nested

SomeRequests == {[name |-> "r1", ok |-> "ok1", err |-> "err1"],
                 [name |-> "r2", ok |-> "ok2", err |-> "err2"]}
=============================================================================
