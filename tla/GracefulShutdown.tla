-------------------------- MODULE GracefulShutdown --------------------------
(***************************************************************************)
(* gracefulShutdown.ts: shutDown runs the onShutdown of a registration     *)
(* when a termination signal or an unrecoverable event comes, or when the  *)
(* application asks for it, and a timer ends the process when that takes   *)
(* too long.  All registrations share one flag.  Each has put its listener *)
(* on the same signals and events, so the first one hears them first.      *)
(***************************************************************************)
EXTENDS Naturals

CONSTANT Registrations   \* how many calls of gracefulShutdown were made

ASSUME RegistrationAssumption == Registrations \in Nat \ {0}

VARIABLES
  up,              \* the process runs
  isShuttingDown,
  timer,           \* the timer is set
  hook             \* the onShutdown of each registration

shutdownVars == <<up, isShuttingDown, timer, hook>>

ShutdownInit ==
  /\ up = TRUE
  /\ isShuttingDown = FALSE
  /\ timer = FALSE
  /\ hook = [r \in 1..Registrations |-> "idle"]

(* Mutant: no flag.                                                        *)
shutDownUnflagged(r) ==
  /\ isShuttingDown' = TRUE
  /\ timer' = TRUE
  /\ hook' = [hook EXCEPT ![r] = "running"]
  /\ UNCHANGED up

shutDown(r) ==
  IF isShuttingDown THEN UNCHANGED shutdownVars
  ELSE /\ isShuttingDown' = TRUE
       /\ timer' = TRUE
       /\ hook' = [hook EXCEPT ![r] = "running"]
       /\ UNCHANGED up

(* A signal or an unrecoverable event: listeners in order of registration. *)
Event == up /\ shutDown(1)

Manual(r) == up /\ shutDown(r)

HookReturns(r) ==
  /\ up /\ hook[r] = "running"
  /\ hook' = [hook EXCEPT ![r] = "done"]
  /\ UNCHANGED <<up, isShuttingDown, timer>>

(* catch: exit(1).                                                         *)
HookThrows(r) ==
  /\ up /\ hook[r] = "running"
  /\ up' = FALSE
  /\ UNCHANGED <<isShuttingDown, timer, hook>>

(* Mutant: the timer is cleared when onShutdown has returned.              *)
TimerFiresUnlessDone ==
  /\ up /\ timer /\ \A r \in 1..Registrations : hook[r] # "done"
  /\ up' = FALSE
  /\ UNCHANGED <<isShuttingDown, timer, hook>>

TimerFires ==
  /\ up /\ timer
  /\ up' = FALSE
  /\ UNCHANGED <<isShuttingDown, timer, hook>>

(* The timer is unref'd: once nothing else keeps the event loop busy, the  *)
(* process ends by itself.                                                 *)
Drains(idle) ==
  /\ up /\ isShuttingDown /\ idle
  /\ \A r \in 1..Registrations : hook[r] # "running"
  /\ up' = FALSE
  /\ UNCHANGED <<isShuttingDown, timer, hook>>

(* Signals, unhandled rejections and manual calls that race run one        *)
(* onShutdown, once.                                                       *)
ShutsDownOnce ==
  [][isShuttingDown /\ isShuttingDown' =>
       \A r \in 1..Registrations : hook'[r] = "running" => hook[r] = "running"]_shutdownVars

(* A process that began to shut down ends, whatever onShutdown does and    *)
(* whatever it leaves open: by itself or by the timer.                     *)
ShutdownEnds == isShuttingDown ~> ~up
=============================================================================
