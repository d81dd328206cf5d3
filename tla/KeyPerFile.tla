----------------------------- MODULE KeyPerFile -----------------------------
(***************************************************************************)
(* key-per-file-configuration: the files of a folder are loaded into the   *)
(* environment, each into the variable of its name, and reloaded when      *)
(* chokidar says that they have changed.  A file is read when its event is *)
(* handled, not when it changed; events of one file come in order, those   *)
(* of several in any order, and a write that is still awaited when its     *)
(* file is deleted is not told.  The scan with which the watcher begins    *)
(* takes what it finds for added; before it nothing is told.               *)
(*                                                                         *)
(* The file of a variable is named by the variable here.  Bound: MaxWrites *)
(* writes and deletions.                                                   *)
(***************************************************************************)
EXTENDS Integers, Sequences, SequencesExt

CONSTANTS
  Variables,   \* the names of environment variables that have files
  Contents,    \* what each of them may contain
  Disks,       \* what may be in the files when all begins
  MaxWrites

Absent == "no file"
Unset == "unset"
Files == (UNION {Contents[v] : v \in Variables}) \cup {Absent}

ASSUME FilesAssumption == Disks \subseteq [Variables -> Files]

VARIABLES
  disk,      \* the content of each file, or Absent
  env,       \* process.env
  watcher,   \* starting (the scan is to come), watching, closed, or gone
             \* with its process
  events,    \* the events of each file still to come
  writes

fileVars == <<disk, env, watcher, events, writes>>

None == [v \in Variables |-> << >>]

Loaded(files) == [v \in Variables |-> IF files[v] = Absent THEN Unset ELSE files[v]]

FilesInit ==
  /\ disk \in Disks
  /\ env = Loaded(disk)
  /\ watcher = "starting"
  /\ events = None
  /\ writes = 0

(* The watcher's scan.                                                     *)
Scans ==
  /\ watcher = "starting"
  /\ watcher' = "watching"
  /\ events' = [v \in Variables |-> IF disk[v] = Absent THEN << >> ELSE <<"add">>]
  /\ UNCHANGED <<disk, env, writes>>

Awaited(v) == events[v] # << >> /\ Last(events[v]) \in {"add", "change"}
Told(v, new) ==
  events' = IF watcher = "watching" THEN [events EXCEPT ![v] = new] ELSE events

Write(v) ==
  /\ writes < MaxWrites /\ writes' = writes + 1
  /\ \E content \in Contents[v] \ {disk[v]} : disk' = [disk EXCEPT ![v] = content]
  /\ Told(v, IF Awaited(v) THEN events[v]
             ELSE Append(events[v], IF disk[v] = Absent THEN "add" ELSE "change"))
  /\ UNCHANGED <<env, watcher>>

(* A deletion cancels the event that is awaited, unless it comes too late. *)
Delete(v) ==
  /\ writes < MaxWrites /\ writes' = writes + 1
  /\ disk[v] # Absent
  /\ disk' = [disk EXCEPT ![v] = Absent]
  /\ \/ /\ Awaited(v)
        /\ Told(v, IF Last(events[v]) = "add" THEN Front(events[v])
                   ELSE Append(Front(events[v]), "unlink"))
     \/ Told(v, Append(events[v], "unlink"))
  /\ UNCHANGED <<env, watcher>>

Handled(v) == events' = [events EXCEPT ![v] = Tail(@)]

\* Mutant: no handler for files that are added.
LoadsChanged(v) ==
  /\ events[v] # << >> /\ Head(events[v]) \in {"add", "change"}
  /\ disk[v] # Absent
  /\ env' = IF Head(events[v]) = "add" THEN env ELSE [env EXCEPT ![v] = disk[v]]
  /\ Handled(v)
  /\ UNCHANGED <<disk, watcher, writes>>

(* on('add'), on('change')                                                 *)
_loadValue(v) ==
  /\ events[v] # << >> /\ Head(events[v]) \in {"add", "change"}
  /\ disk[v] # Absent
  /\ env' = [env EXCEPT ![v] = disk[v]]
  /\ Handled(v)
  /\ UNCHANGED <<disk, watcher, writes>>

(* on('unlink'): process.env makes a string of undefined.                  *)
_removeValue(v) ==
  /\ events[v] # << >> /\ Head(events[v]) = "unlink"
  /\ env' = [env EXCEPT ![v] = "undefined"]
  /\ Handled(v)
  /\ UNCHANGED <<disk, watcher, writes>>

(* readFileSync of a file that is gone throws, which nothing catches.      *)
LoadThrows(v) ==
  /\ events[v] # << >> /\ Head(events[v]) \in {"add", "change"}
  /\ disk[v] = Absent
  /\ watcher' = "gone"
  /\ events' = None
  /\ UNCHANGED <<disk, env, writes>>

close ==
  /\ watcher = "watching"
  /\ watcher' = "closed"
  /\ events' = None
  /\ UNCHANGED <<disk, env, writes>>

(* The process is started again, and loads what it finds.                  *)
load ==
  /\ watcher = "gone"
  /\ watcher' = "starting"
  /\ env' = Loaded(disk)
  /\ UNCHANGED <<disk, events, writes>>

Handles(v) == _loadValue(v) \/ _removeValue(v)
Settled == watcher = "watching" /\ events = None

(* Once all events are handled, the variable of every file there is has    *)
(* the file's content, whatever was written before, between and after load *)
(* and the watcher's scan (load).                                          *)
EnvFollowsFiles ==
  Settled => \A v \in Variables : disk[v] # Absent => env[v] = disk[v]
=============================================================================
