--------------------- MODULE TenantConfigurationProofs ---------------------
(***************************************************************************)
(* Theorems about TenantConfiguration and the KeyPerFile it reads, for any *)
(* files, contents and tenants: the environment follows the files, and the *)
(* ways to read the configuration agree.                                   *)
(***************************************************************************)
EXTENDS TenantConfiguration, SequenceTheorems, FiniteSetTheorems,
        WellFoundedInduction, TLAPS

-----------------------------------------------------------------------------
(* The environment follows the files.                                      *)

Events == {"add", "change", "unlink"}

FilesTypeOK ==
  /\ disk \in [Variables -> Files]
  /\ env \in [Variables -> Files \cup {Unset, "undefined"}]
  /\ watcher \in {"starting", "watching", "closed", "gone"}
  /\ events \in [Variables -> Seq(Events)]

(* What is in a file is in its variable, or an event that has it read is   *)
(* the last to come.                                                       *)
ReadOrAwaited ==
  watcher = "watching" => \A v \in Variables :
    disk[v] # Absent => Awaited(v) \/ (events[v] = << >> /\ env[v] = disk[v])

FilesInv == FilesTypeOK /\ ReadOrAwaited

(* When the first event goes, the last one stays.                          *)
LEMMA LastOfTail ==
  ASSUME NEW s \in Seq(Events), s # << >>
  PROVE  /\ Tail(s) \in Seq(Events)
         /\ Tail(s) # << >> => Last(Tail(s)) = Last(s)
         /\ Tail(s) = << >> => Head(s) = Last(s)
<1>1. /\ Tail(s) \in Seq(Events) /\ Len(Tail(s)) = Len(s) - 1
      /\ \A i \in 1 .. Len(Tail(s)) : Tail(s)[i] = s[i + 1]
  BY HeadTailProperties
<1>2. Len(s) \in Nat /\ Len(s) # 0 /\ Head(s) = s[1]
  BY EmptySeq, HeadTailProperties
<1> DEFINE t == Tail(s)
<1> HIDE DEF t
<1>3. t # << >> => t[Len(t)] = s[Len(s)]
  <2>1. t # << >> => Len(t) \in 1 .. Len(t)
    BY <1>1, EmptySeq DEF t
  <2> QED
    BY <1>1, <1>2, <2>1 DEF t
<1>4. t = << >> => Len(s) = 1
  <2>1. t \in Seq(Events) /\ Len(t) = Len(s) - 1
    BY <1>1 DEF t
  <2>2. t = << >> => Len(t) = 0
    BY <2>1, EmptySeq
  <2> QED
    BY <1>2, <2>1, <2>2
<1> QED
  BY <1>1, <1>2, <1>3, <1>4 DEF Last, t

LEMMA LastOfAppend ==
  ASSUME NEW s \in Seq(Events), NEW e \in Events
  PROVE  /\ Append(s, e) \in Seq(Events) /\ Append(s, e) # << >>
         /\ Last(Append(s, e)) = e
BY AppendProperties DEF Last

LEMMA FrontType ==
  ASSUME NEW s \in Seq(Events), s # << >>
  PROVE  Front(s) \in Seq(Events)
<1> DEFINE m == Len(s)
<1>1. m \in Nat /\ m # 0
  BY EmptySeq
<1>2. \A i \in 1 .. m - 1 : s[i] \in Events
  BY <1>1, ElementOfSeq
<1>3. SubSeq(s, 1, m - 1) \in Seq(Events)
  BY <1>1, <1>2, SubSeqProperties
<1> QED
  BY <1>3 DEF Front

(* Only the events and the file of v change, and only while watching.      *)
ToldOnly(v, new) ==
  /\ new \in Seq(Events)
  /\ Told(v, new)

LEMMA ToldType ==
  ASSUME FilesTypeOK, NEW v \in Variables, NEW new, ToldOnly(v, new)
  PROVE  /\ events' \in [Variables -> Seq(Events)]
         /\ watcher = "watching" => events'[v] = new
         /\ \A u \in Variables : u # v => events'[u] = events[u]
BY DEF FilesTypeOK, ToldOnly, Told

LEMMA FilesInvInit == FilesInit => FilesInv
<1> SUFFICES ASSUME FilesInit  PROVE  FilesInv
  OBVIOUS
<1>1. disk \in [Variables -> Files]
  BY FilesAssumption DEF FilesInit
<1>2. env \in [Variables -> Files \cup {Unset, "undefined"}]
  BY <1>1 DEF FilesInit, Loaded
<1> QED
  BY <1>1, <1>2 DEF FilesInit, None, FilesInv, FilesTypeOK, ReadOrAwaited

LEMMA WriteStep ==
  ASSUME FilesInv, NEW v \in Variables, Write(v)
  PROVE  FilesInv'
<1> DEFINE e == IF disk[v] = Absent THEN "add" ELSE "change"
           new == IF Awaited(v) THEN events[v] ELSE Append(events[v], e)
<1>1. events[v] \in Seq(Events) /\ e \in Events
  BY DEF FilesInv, FilesTypeOK, Events
<1>2. /\ new \in Seq(Events) /\ new # << >>
      /\ Last(new) \in {"add", "change"}
  BY <1>1, LastOfAppend DEF Awaited
<1>3. ToldOnly(v, new)
  BY <1>2 DEF ToldOnly, Write
<1> HIDE DEF new
<1>4. /\ events' \in [Variables -> Seq(Events)]
      /\ watcher = "watching" => events'[v] = new
      /\ \A u \in Variables : u # v => events'[u] = events[u]
  BY <1>3, ToldType DEF FilesInv
<1>5. disk' \in [Variables -> Files] /\ \A u \in Variables : u # v => disk'[u] = disk[u]
  BY DEF Write, FilesInv, FilesTypeOK, Files
<1>6. env' = env /\ watcher' = watcher
  BY DEF Write
<1>7. ReadOrAwaited'
  BY <1>2, <1>4, <1>5, <1>6 DEF FilesInv, ReadOrAwaited, Awaited
<1> QED
  BY <1>4, <1>5, <1>6, <1>7 DEF FilesInv, FilesTypeOK

LEMMA DeleteStep ==
  ASSUME FilesInv, NEW v \in Variables, Delete(v)
  PROVE  FilesInv'
<1>1. events[v] \in Seq(Events)
  BY DEF FilesInv, FilesTypeOK
<1>2. \E new : ToldOnly(v, new)
  <2>1. CASE Awaited(v) /\ Told(v, IF Last(events[v]) = "add" THEN Front(events[v])
                                   ELSE Append(Front(events[v]), "unlink"))
    <3>1. Front(events[v]) \in Seq(Events)
      BY <1>1, <2>1, FrontType DEF Awaited
    <3>2. Append(Front(events[v]), "unlink") \in Seq(Events)
      BY <3>1, LastOfAppend DEF Events
    <3> QED
      BY <2>1, <3>1, <3>2 DEF ToldOnly
  <2>2. CASE Told(v, Append(events[v], "unlink"))
    <3>1. Append(events[v], "unlink") \in Seq(Events)
      BY <1>1, LastOfAppend DEF Events
    <3> QED
      BY <2>2, <3>1 DEF ToldOnly
  <2> QED
    BY <2>1, <2>2 DEF Delete
<1>3. /\ events' \in [Variables -> Seq(Events)]
      /\ \A u \in Variables : u # v => events'[u] = events[u]
  BY <1>2, ToldType DEF FilesInv
<1>4. /\ disk' \in [Variables -> Files] /\ disk'[v] = Absent
      /\ \A u \in Variables : u # v => disk'[u] = disk[u]
  <2>1. Absent \in Files /\ disk \in [Variables -> Files]
    <3>1. Absent \in Files
      BY DEF Files
    <3> QED
      BY <3>1 DEF FilesInv, FilesTypeOK
  <2>2. disk' = [disk EXCEPT ![v] = Absent]
    BY DEF Delete
  <2> HIDE DEF Absent
  <2> QED
    BY <2>1, <2>2
<1>5. env' = env /\ watcher' = watcher
  BY DEF Delete
<1>6. ReadOrAwaited'
  BY <1>3, <1>4, <1>5 DEF FilesInv, ReadOrAwaited, Awaited
<1> QED
  BY <1>3, <1>4, <1>5, <1>6 DEF FilesInv, FilesTypeOK

LEMMA HandlesStep ==
  ASSUME FilesInv, NEW v \in Variables, Handles(v)
  PROVE  FilesInv'
<1>1. events[v] \in Seq(Events) /\ events[v] # << >>
  BY DEF FilesInv, FilesTypeOK, Handles, _loadValue, _removeValue
<1>2. disk' = disk /\ watcher' = watcher /\ events' = [events EXCEPT ![v] = Tail(@)]
  BY DEF Handles, _loadValue, _removeValue, Handled
<1> DEFINE tail == Tail(events[v])
<1>3. /\ tail \in Seq(Events)
      /\ tail # << >> => Last(tail) = Last(events[v])
      /\ tail = << >> => Head(events[v]) = Last(events[v])
  BY <1>1, LastOfTail
<1> HIDE DEF tail
<1>4. /\ events' \in [Variables -> Seq(Events)] /\ events'[v] = tail
      /\ \A u \in Variables : u # v => events'[u] = events[u]
  BY <1>2, <1>3 DEF FilesInv, FilesTypeOK, tail
<1>5. /\ env' \in [Variables -> Files \cup {Unset, "undefined"}]
      /\ \A u \in Variables : u # v => env'[u] = env[u]
      /\ Head(events[v]) \in {"add", "change"} => env'[v] = disk[v]
  BY DEF Handles, _loadValue, _removeValue, FilesInv, FilesTypeOK
<1>6. ReadOrAwaited'
  <2> SUFFICES ASSUME watcher = "watching", NEW u \in Variables, disk[u] # Absent
               PROVE  Awaited(u)' \/ (events'[u] = << >> /\ env'[u] = disk[u])
    BY <1>2 DEF ReadOrAwaited
  <2>1. Awaited(u) \/ (events[u] = << >> /\ env[u] = disk[u])
    BY DEF FilesInv, ReadOrAwaited
  <2>2. CASE u = v
    <3>1. Last(events[v]) \in {"add", "change"}
      BY <1>1, <2>1, <2>2 DEF Awaited
    <3>2. CASE tail = << >>
      BY <1>3, <1>4, <1>5, <2>2, <3>1, <3>2
    <3>3. CASE tail # << >>
      BY <1>3, <1>4, <2>2, <3>1, <3>3 DEF Awaited
    <3> QED
      BY <3>2, <3>3
  <2>3. CASE u # v
    BY <1>4, <1>5, <2>1, <2>3 DEF Awaited
  <2> QED
    BY <2>2, <2>3
<1> QED
  BY <1>2, <1>4, <1>5, <1>6 DEF FilesInv, FilesTypeOK

LEMMA ScanStep ==
  ASSUME FilesInv, Scans
  PROVE  FilesInv'
<1>1. /\ <<"add">> \in Seq(Events) /\ << >> \in Seq(Events)
      /\ <<"add">> # << >> /\ Last(<<"add">>) = "add"
  BY DEF Events, Last
<1>2. /\ watcher' = "watching" /\ disk' = disk /\ env' = env
      /\ events' \in [Variables -> Seq(Events)]
      /\ \A v \in Variables : disk[v] # Absent => events'[v] = <<"add">>
  BY <1>1 DEF Scans
<1> QED
  BY <1>1, <1>2 DEF FilesInv, FilesTypeOK, ReadOrAwaited, Awaited

(* Nothing is asked of a process that is not watching.                     *)
LEMMA NotWatchingStep ==
  ASSUME FilesInv, (\E v \in Variables : LoadThrows(v)) \/ close \/ load
  PROVE  FilesInv'
<1>1. None \in [Variables -> Seq(Events)]
  BY DEF None
<1>2. Loaded(disk) \in [Variables -> Files \cup {Unset, "undefined"}]
  BY DEF Loaded, FilesInv, FilesTypeOK
<1> QED
  BY <1>1, <1>2 DEF LoadThrows, close, load, FilesInv, FilesTypeOK, ReadOrAwaited

(* load: once its events are handled, the variable of every file there is  *)
(* has the file's content.                                                 *)
THEOREM EnvironmentFollowsFiles == Spec => []EnvFollowsFiles
<1>1. Init => FilesInv
  BY FilesInvInit DEF Init
<1>2. FilesInv /\ [Next]_vars => FilesInv'
  <2> SUFFICES ASSUME FilesInv, [Next]_vars  PROVE  FilesInv'
    OBVIOUS
  <2>1. CASE UNCHANGED fileVars
    BY <2>1 DEF fileVars, FilesInv, FilesTypeOK, ReadOrAwaited, Awaited
  <2>2. ASSUME NEW v \in Variables, Write(v)  PROVE  FilesInv'
    BY <2>2, WriteStep
  <2>3. ASSUME NEW v \in Variables, Delete(v)  PROVE  FilesInv'
    BY <2>3, DeleteStep
  <2>4. ASSUME NEW v \in Variables, Handles(v)  PROVE  FilesInv'
    BY <2>4, HandlesStep
  <2>5. CASE Scans
    BY <2>5, ScanStep
  <2>6. ASSUME NEW v \in Variables, LoadThrows(v)  PROVE  FilesInv'
    BY <2>6, NotWatchingStep
  <2>7. CASE close \/ load
    BY <2>7, NotWatchingStep
  <2> QED
    BY <2>1, <2>2, <2>3, <2>4, <2>5, <2>6, <2>7
    DEF Next, vars, Read, Restarts, TimerFires
<1>3. FilesInv => EnvFollowsFiles
  <2> SUFFICES ASSUME FilesInv, Settled, NEW v \in Variables, disk[v] # Absent
               PROVE  env[v] = disk[v]
    BY DEF EnvFollowsFiles
  <2>1. events[v] = << >>
    BY DEF Settled, None
  <2> QED
    BY <2>1 DEF Settled, FilesInv, ReadOrAwaited, Awaited
<1> QED
  BY <1>1, <1>2, <1>3, PTL DEF Spec

-----------------------------------------------------------------------------
(* The ways to read the configuration agree.                               *)

(* Of some positions, one is the last.                                     *)
LEMMA LastPosition ==
  ASSUME NEW n \in Nat, NEW S \in SUBSET (1 .. n), S # {}
  PROVE  \E m \in S : \A i \in S : i <= m
<1> DEFINE later(m) == {i \in S : i > m}
           T == {later(m) : m \in S}
<1>1. IsFiniteSet(S)
  <2>1. IsFiniteSet(1 .. n)
    BY FS_Interval
  <2> QED
    BY <2>1, FS_Subset
<1>2. T \subseteq FiniteSubsetsOf(S) /\ T # {}
  <2>1. \A m \in S : later(m) \in SUBSET S
    OBVIOUS
  <2>2. \A m \in S : IsFiniteSet(later(m))
    <3> HIDE DEF later
    <3> QED
      BY <1>1, <2>1, FS_Subset
  <2> HIDE DEF later
  <2> QED
    BY <2>1, <2>2 DEF FiniteSubsetsOf
<1> HIDE DEF T
<1>3. PICK X \in T : \A Y \in T : <<Y, X>> \notin StrictSubsetOrdering(S)
  BY <1>2, FS_StrictSubsetOrderingWellFounded, WFMin
<1>4. PICK m \in S : X = later(m)
  BY <1>3 DEF T
<1>5. ASSUME NEW j \in S, j > m
      PROVE  FALSE
  <2>1. later(j) \in T /\ later(j) \in SUBSET S /\ later(m) \in SUBSET S
    BY DEF T
  <2>2. j \in later(m) /\ j \notin later(j) /\ \A i \in later(j) : i \in later(m)
    BY <1>5
  <2>3. <<later(j), later(m)>> \in StrictSubsetOrdering(S)
    <3> HIDE DEF later
    <3> QED
      BY <2>1, <2>2 DEF StrictSubsetOrdering
  <2> QED
    BY <1>3, <1>4, <2>1, <2>3
<1> QED
  BY <1>5

(* A tenant found by an id has this id.                                    *)
LEMMA FoundById ==
  ASSUME NEW tenants, NEW id \in DOMAIN TenantsById(tenants)
  PROVE  TenantsById(tenants)[id].tenantId = id /\ id # Unset
<1> DEFINE n == Len(Codes)
           S == {i \in DOMAIN Codes : tenants[Codes[i]].tenantId = id}
<1>1. n \in Nat /\ DOMAIN Codes = 1 .. n
  BY CodesAssumption, LenProperties
<1>2. id \in {tenants[c].tenantId : c \in Range(Codes)} /\ id # Unset
  BY DEF TenantsById
<1>3. S # {} /\ S \in SUBSET (1 .. n)
  <2>1. PICK c \in Range(Codes) : tenants[c].tenantId = id
    BY <1>2
  <2>2. PICK i \in DOMAIN Codes : Codes[i] = c
    BY DEF Range
  <2> QED
    BY <1>1, <2>1, <2>2
<1>4. \E m \in S : \A i \in S : i <= m
  <2> HIDE DEF S, n
  <2> QED
    BY <1>1, <1>3, LastPosition
<1> DEFINE at == CHOOSE i \in DOMAIN Codes :
                   /\ tenants[Codes[i]].tenantId = id
                   /\ \A j \in DOMAIN Codes : tenants[Codes[j]].tenantId = id => j <= i
<1>5. tenants[Codes[at]].tenantId = id
  BY <1>4
<1>6. TenantsById(tenants)[id] = tenants[Codes[at]]
  BY DEF TenantsById
<1> HIDE DEF at
<1> QED
  BY <1>2, <1>5, <1>6

(* What a section has of its own wins.                                     *)
LEMMA Merged ==
  ASSUME NEW defaults, NEW section, NEW k \in Keys
  PROVE  deepmerge(defaults, section)[k] =
           IF section[k] = Unset THEN defaults[k] ELSE section[k]
BY DEF deepmerge

(* getValue, getAll and getTenantFromId: whatever the two snapshots, a     *)
(* tenant is listed exactly if it is answered for, and a key alone is the  *)
(* key of the section.                                                     *)
LEMMA SnapshotsAgree ==
  ASSUME NEW defaults, NEW tenants, NEW id \in DOMAIN TenantsById(tenants)
  PROVE  /\ Serves(defaults, tenants, id) <=>
              \E t \in getAllTenants(defaults, tenants) : t.tenantId = id
         /\ \A k \in Keys : TenantsById(tenants)[id][k] # "" =>
              /\ getSection(defaults, tenants, id)[k] = getKey(defaults, tenants, id, k)
              /\ TenantsById(tenants)[id][k] # Unset =>
                   getKey(defaults, tenants, id, k) = TenantsById(tenants)[id][k]
<1> DEFINE byId == TenantsById(tenants)
<1>1. \A x \in DOMAIN byId : byId[x].tenantId = x /\ x # Unset
  BY FoundById
<1> HIDE DEF byId
<1>2. "tenantId" \in Keys
  BY DEF Keys
<1>3. \A x \in DOMAIN byId : deepmerge(defaults, byId[x]).tenantId = x
  <2> SUFFICES ASSUME NEW x \in DOMAIN byId
               PROVE  deepmerge(defaults, byId[x]).tenantId = x
    OBVIOUS
  <2>1. byId[x]["tenantId"] = x /\ x # Unset
    BY <1>1
  <2>2. deepmerge(defaults, byId[x])["tenantId"] = x
    BY <1>2, <2>1, Merged
  <2> QED
    BY <2>2
<1>4. Serves(defaults, tenants, id) <=> deepmerge(defaults, byId[id]).enabled # "false"
  BY DEF Serves, getSection, byId
<1>5. \A t : t \in getAllTenants(defaults, tenants) <=>
        \E x \in DOMAIN byId : t = deepmerge(defaults, byId[x]) /\ t.enabled # "false"
  BY DEF getAllTenants, Range, byId
<1>6. Serves(defaults, tenants, id) <=>
        \E t \in getAllTenants(defaults, tenants) : t.tenantId = id
  <2> DEFINE merged(x) == deepmerge(defaults, byId[x])
  <2> id \in DOMAIN byId
    BY DEF byId
  <2> HIDE DEF merged
  <2>1. ASSUME NEW t \in getAllTenants(defaults, tenants), t.tenantId = id
        PROVE  merged(id).enabled # "false"
    <3>1. PICK x \in DOMAIN byId : t = merged(x) /\ t.enabled # "false"
      BY <1>5 DEF merged
    <3>2. x = id
      BY <1>3, <2>1, <3>1 DEF merged
    <3> QED
      BY <3>1, <3>2
  <2>2. ASSUME merged(id).enabled # "false"
        PROVE  merged(id) \in getAllTenants(defaults, tenants) /\ merged(id).tenantId = id
    BY <1>3, <1>5, <2>2 DEF merged
  <2> QED
    BY <1>4, <2>1, <2>2 DEF merged
<1>7. \A k \in Keys : byId[id][k] # "" =>
        /\ getSection(defaults, tenants, id)[k] = getKey(defaults, tenants, id, k)
        /\ byId[id][k] # Unset => getKey(defaults, tenants, id, k) = byId[id][k]
  <2> SUFFICES ASSUME NEW k \in Keys, byId[id][k] # ""
               PROVE  /\ getSection(defaults, tenants, id)[k] = getKey(defaults, tenants, id, k)
                      /\ byId[id][k] # Unset =>
                           getKey(defaults, tenants, id, k) = byId[id][k]
    OBVIOUS
  <2>1. getSection(defaults, tenants, id)[k] =
          IF byId[id][k] = Unset THEN defaults[k] ELSE byId[id][k]
    BY Merged, ZenonT(60) DEF getSection, byId
  <2>2. getKey(defaults, tenants, id, k) =
          IF byId[id][k] \in {Unset, ""} THEN defaults[k] ELSE byId[id][k]
    BY DEF getKey, byId
  <2> QED
    BY <2>1, <2>2
<1> QED
  BY <1>6, <1>7 DEF byId

THEOREM ConfigurationReadsAgree == Spec => []ReadsAgree
<1>1. ReadsAgree
  BY SnapshotsAgree DEF ReadsAgree
<1> QED
  BY <1>1, PTL
=============================================================================
