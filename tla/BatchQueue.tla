----------------------------- MODULE BatchQueue -----------------------------
(***************************************************************************)
(* The log transport of pino-mssqlserver: the queue that dbTransport.ts    *)
(* fills, the loop of batchQueueProcessor.ts that empties it into the      *)
(* table a batch at a time, and close, which stops the loop and empties    *)
(* the queue itself.  The only await in a flush is the insert of a batch:  *)
(* while it runs logs are enqueued, the transport is closed, and the       *)
(* other flush goes on.  Once close has called back, pino lets the thread  *)
(* of the transport end, which ends the loop wherever it is; that it does  *)
(* not end before is assumed (a crash takes what is queued).               *)
(* Logs are numbered as they come, up to MaxLogs.                          *)
(* RequestLogging runs it behind pino-apollo, whose records are the logs.  *)
(***************************************************************************)
EXTENDS Integers, Sequences, SequencesExt, FiniteSets

CONSTANTS
  MaxLogs,     \* bound on the logs of a run
  batchLimit

VARIABLES
  enqueued,  \* how many logs have come
  queue,     \* the numbers of those not yet taken
  loop,      \* waiting (for its interval), inserting, stopped, ended (with the thread)
  closer,    \* open (close not called), inserting, closed (called back)
  batch,     \* the batch each flush is inserting
  table,     \* the logs inserted, in order
  dropped    \* the logs of the batches whose insert failed

Flushes == {"loop", "close"}

Init ==
  /\ enqueued = 0
  /\ queue = << >>
  /\ loop = "waiting"
  /\ closer = "open"
  /\ batch = [f \in Flushes |-> << >>]
  /\ table = << >>
  /\ dropped = {}

(* The source ends before close is called.                                 *)
Enqueue ==
  /\ closer = "open"
  /\ enqueued < MaxLogs
  /\ enqueued' = enqueued + 1
  /\ queue' = Append(queue, enqueued')
  /\ UNCHANGED <<loop, closer, batch, table, dropped>>

FirstBatch == SubSeq(queue, 1, IF Len(queue) < batchLimit THEN Len(queue) ELSE batchLimit)

\* Mutants: the batch is copied but not removed; it is taken from the end.
TakeCopy(f) == batch' = [batch EXCEPT ![f] = FirstBatch] /\ UNCHANGED queue
TakeLast(f) ==
  IF queue = << >> THEN UNCHANGED <<queue, batch>>
  ELSE /\ batch' = [batch EXCEPT ![f] = <<Last(queue)>>]
       /\ queue' = Front(queue)
(* queue.splice(0, batchLimit)                                             *)
Take(f) ==
  /\ batch' = [batch EXCEPT ![f] = FirstBatch]
  /\ queue' = SubSeq(queue, Len(FirstBatch) + 1, Len(queue))

(* The interval is over: the loop flushes.                                 *)
IntervalEnds ==
  /\ loop = "waiting"
  /\ Take("loop")
  /\ loop' = IF queue = << >> THEN "waiting" ELSE "inserting"
  /\ UNCHANGED <<enqueued, closer, table, dropped>>

\* Mutant: the flush is not awaited.
CloseUnawaited ==
  /\ closer = "open"
  /\ loop' = IF loop = "waiting" THEN "stopped" ELSE loop
  /\ Take("close")
  /\ closer' = "closed"
  /\ UNCHANGED <<enqueued, table, dropped>>

(* close: abort ends the wait of the loop, then close flushes.             *)
Close ==
  /\ closer = "open"
  /\ loop' = IF loop = "waiting" THEN "stopped" ELSE loop
  /\ Take("close")
  /\ closer' = IF queue = << >> THEN "closed" ELSE "inserting"
  /\ UNCHANGED <<enqueued, table, dropped>>

\* Mutants: an abort during a flush is missed; close takes one batch only.
LoopGoesOn == loop' = IF queue = << >> THEN "waiting" ELSE "inserting"
CloserStops == closer' = "closed"

(* What the loop does when its batch is done: it flushes on while the      *)
(* queue is not empty, also after an abort; then it waits, unless aborted. *)
LoopMoves ==
  loop' = IF queue # << >> THEN "inserting"
          ELSE IF closer = "open" THEN "waiting" ELSE "stopped"
CloserMoves == closer' = IF queue = << >> THEN "closed" ELSE "inserting"

Inserting(f) == IF f = "loop" THEN loop = "inserting" ELSE closer = "inserting"

(* The insert of a batch is over: the rows are there or, an error being    *)
(* caught and printed, they are not.  The next batch is taken at once.     *)
InsertEnds(f) ==
  /\ Inserting(f)
  /\ \/ table' = table \o batch[f] /\ UNCHANGED dropped
     \/ dropped' = dropped \cup Range(batch[f]) /\ UNCHANGED table
  /\ Take(f)
  /\ IF f = "loop" THEN LoopMoves /\ UNCHANGED closer
                   ELSE CloserMoves /\ UNCHANGED loop
  /\ UNCHANGED enqueued

(* The thread ends.  The batch that the loop was inserting stays in doubt: *)
(* the database may have its rows or not.                                  *)
ThreadEnds ==
  /\ closer = "closed" /\ loop \notin {"stopped", "ended"}
  /\ loop' = "ended"
  /\ UNCHANGED <<enqueued, queue, closer, batch, table, dropped>>

----------------------------------------------------------------------------
(* Each log that came is in one place only, once: still queued, in the     *)
(* batch of one flush, written or dropped with its batch; so no log is     *)
(* written twice though two flushes may empty the queue at once (flush).   *)
EveryLogOnce ==
  LET places == queue \o batch["loop"] \o batch["close"] \o table
  IN  /\ IsInjective(places)
      /\ Range(places) \cap dropped = {}
      /\ Range(places) \cup dropped = 1 .. enqueued

(* Until close is called, the logs are written in the order they came.     *)
WrittenInOrder ==
  closer = "open" =>
    \A i, j \in DOMAIN table : i < j => table[i] < table[j]

(* When close calls back, no log is left to the queue: what is neither     *)
(* written nor dropped is at most one batch, that of the loop (close).     *)
CloseEmptiesQueue ==
  closer = "closed" =>
    /\ queue = << >>
    /\ Cardinality((1 .. enqueued) \ (Range(table) \cup dropped)) <= batchLimit
    /\ loop # "waiting"

(* Every log that comes is written or dropped in the end, closed or not,   *)
(* except that one batch may be in doubt for ever: the one the loop was    *)
(* inserting when the thread ended, for which close had not waited (run,   *)
(* close).                                                                 *)
InDoubt == IF loop = "ended" THEN Range(batch["loop"]) ELSE {}
AllLeft == 1 .. enqueued \subseteq Range(table) \cup dropped \cup InDoubt
EveryLogLeaves == enqueued > 0 ~> AllLeft

(* close stops the loop, also when it comes during a flush (wait, run), if *)
(* the thread does not end first.                                          *)
CloseStopsLoop == closer # "open" ~> loop \in {"stopped", "ended"}
============================================================================
