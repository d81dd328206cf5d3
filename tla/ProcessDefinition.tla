------------------------- MODULE ProcessDefinition -------------------------
(***************************************************************************)
(* What the runtime needs to know of a process: the shape that             *)
(* process-algebra.ts gives every process built from bind, both, Do, ...   *)
(* and the replay of a recorded history through it.                        *)
(*                                                                         *)
(* proc(instanceId, {}) yields an initial ProcessState; a ProcessState is  *)
(* InProgress with a partial function `next` on events, or Succeeded, or   *)
(* Failed.  That is an automaton: States, the Initial one, the Terminal    *)
(* ones (Succeeded or Failed), and Move, which is Ignored where `next`     *)
(* returns null.  Process code is assumed pure, as replay requires.        *)
(***************************************************************************)
EXTENDS Integers, Sequences

CONSTANTS Events, States, Initial, Terminal, Move, Ignored, Broken

ASSUME ProcessAssumption ==
  /\ Initial \in States
  /\ Terminal \subseteq States
  /\ Ignored \notin States
  /\ Broken \notin States
  /\ Move \in [States \X Events -> States \cup {Ignored}]

InProgress(s) == s \in States \ Terminal

\* Mutant: a finished process is offered events too.
AcceptsAlsoWhenFinished(s, e) == s \in States /\ Move[<<s, e>>] # Ignored
(* The process is waiting and `next` does not return null for the event.   *)
Accepts(s, e) == InProgress(s) /\ Move[<<s, e>>] # Ignored

(* One step of the fold in applyHistory; Broken stands for its exception.  *)
Applied(s, r) ==
  IF ~InProgress(s) THEN s
  ELSE IF r.type # "EventReceived" THEN Broken
  ELSE IF Move[<<s, r.event>>] = Ignored THEN s
  ELSE Move[<<s, r.event>>]

applyHistory(h) ==
  IF h = << >> \/ h[1].type # "ProcessStarted" THEN Broken
  ELSE LET after[i \in 1 .. Len(h)] ==
             IF i = 1 THEN Initial ELSE Applied(after[i - 1], h[i])
       IN  after[Len(h)]

(* What a caller of getProcessState is shown: of a stream that does not    *)
(* exist the state the process would start in.                             *)
getProcessState(h) == IF h = << >> THEN Initial ELSE applyHistory(h)

Prefix(h, n) == SubSeq(h, 1, n)

(* A history that replays: it starts with ProcessStarted, and every later  *)
(* record is an event that the process, brought up to the record before    *)
(* it, was waiting for.  In particular nothing follows the record that     *)
(* finished the process.                                                   *)
Replays(h) ==
  h # << >> =>
    /\ h[1].type = "ProcessStarted"
    /\ \A i \in 2 .. Len(h) :
         /\ h[i].type = "EventReceived"
         /\ Accepts(applyHistory(Prefix(h, i - 1)), h[i].event)
============================================================================
