----------------------------- MODULE EventStore -----------------------------
(***************************************************************************)
(* One stream of the two event stores that createEventStore can return.    *)
(* A stream is the sequence of its records in version order; the empty     *)
(* sequence is a stream that does not exist.                               *)
(***************************************************************************)
EXTENDS Integers, Sequences, SequencesExt

CONSTANT Backend

ASSUME BackendAssumption == Backend \in {"in-memory", "mssql"}

streamExists(stream) == stream # << >>

(* "in-memory": a missing stream is created, at version 1, whatever version *)
(* the caller expected; an existing one must be at the expected version.   *)
(* The per-stream lock makes the comparison and the push one step.         *)
ConflictsInMemory(stream, expected) ==
  streamExists(stream) /\ Len(stream) # expected
VersionInMemory(stream, expected) == Len(stream) + 1

(* "mssql": a row is inserted at expectedVersion + 1.  Only the unique     *)
(* index on (StreamId, StreamVersion) can refuse it; nothing asks that the *)
(* rows below it exist.                                                    *)
ConflictsMssql(stream, expected) ==
  \E i \in DOMAIN stream : stream[i].version = expected + 1
VersionMssql(stream, expected) == expected + 1

\* Mutant: the version is compared only by an append that starts a stream.
ConflictsOnStartOnly(stream, expected) == streamExists(stream) /\ expected = 0

(* appendEvent throws ConcurrencyError.                                    *)
Conflicts(stream, expected) ==
  IF Backend = "in-memory" THEN ConflictsInMemory(stream, expected)
                           ELSE ConflictsMssql(stream, expected)

(* The stream after appendEvent has written record r: loadEvents returns   *)
(* the records in version order, so r goes after those of lower versions.  *)
Written(stream, expected, r) ==
  LET version == IF Backend = "in-memory" THEN VersionInMemory(stream, expected)
                                          ELSE VersionMssql(stream, expected)
      below   == {i \in DOMAIN stream : stream[i].version < version}
  IN  InsertAt(stream, Cardinality(below) + 1, [r EXCEPT !.version = version])

(* The in-memory store hands out the array it goes on pushing to, unless   *)
(* there is no stream; SQL Server hands out a copy of the rows.            *)
LoadsLiveArray(stream) == Backend = "in-memory" /\ streamExists(stream)
============================================================================
