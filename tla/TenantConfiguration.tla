------------------------ MODULE TenantConfiguration ------------------------
(***************************************************************************)
(* The tenant configuration of multitenancy-core, read from an environment *)
(* that KeyPerFile changes meanwhile.  The defaults and the tenants are    *)
(* each read from the environment by a function behind a debounce of its   *)
(* own (immediate): the first call reads, calls within 5 s of the last get *)
(* what it read, and the timer of each is told apart, since the two are    *)
(* set one after the other.  A variable is a section (a tenant's code, or  *)
(* Defaults) and a key; Keys has the ones the code knows and one other.    *)
(* Multitenancy is on.                                                     *)
(***************************************************************************)
EXTENDS KeyPerFile, FiniteSets

CONSTANT Codes   \* the codes of the tenants, as the environment has them

ASSUME CodesAssumption == Codes \in Seq(STRING)

Keys == {"tenantId", "enabled", "prop"}
Sections == {"Defaults"} \cup Range(Codes)
Parts == {"defaults", "tenants"}

VARIABLES
  snapshot,  \* what each debounced function returned last
  armed,     \* its timer is set
  recent     \* it was called again since its timer was set

snapshotVars == <<snapshot, armed, recent>>
vars == <<fileVars, snapshotVars>>

(* _loadFromEnv                                                            *)
Section(s) ==
  [k \in Keys |-> IF <<s, k>> \in Variables THEN env[<<s, k>>] ELSE Unset]
_getDefaults == Section("Defaults")
_getTenants == [c \in Range(Codes) |-> Section(c)]

Fresh(part) == IF part = "defaults" THEN _getDefaults ELSE _getTenants

Init ==
  /\ FilesInit
  /\ snapshot = [part \in Parts |-> Fresh(part)]
  /\ armed = {} /\ recent = {}

(* What the next call of a debounced function returns.                     *)
\* Mutant: read once, kept for good.
Kept(part) == snapshot[part]
Current(part) == IF part \in armed THEN snapshot[part] ELSE Fresh(part)

----------------------------------------------------------------------------
(* The tenants by id: of two codes with one id, the later one.             *)
TenantsById(tenants) ==
  [id \in {tenants[c].tenantId : c \in Range(Codes)} \ {Unset, ""} |->
     LET at == CHOOSE i \in DOMAIN Codes :
                 /\ tenants[Codes[i]].tenantId = id
                 /\ \A j \in DOMAIN Codes : tenants[Codes[j]].tenantId = id => j <= i
     IN  tenants[Codes[at]]]

\* Mutant: the defaults win.
MergeDefaults(defaults, section) ==
  [k \in Keys |-> IF defaults[k] = Unset THEN section[k] ELSE defaults[k]]
deepmerge(defaults, section) ==
  [k \in Keys |-> IF section[k] = Unset THEN defaults[k] ELSE section[k]]

(* getValue of a tenant: its whole section, and one key of it.             *)
getSection(defaults, tenants, id) == deepmerge(defaults, TenantsById(tenants)[id])
getKey(defaults, tenants, id, k) ==
  LET value == TenantsById(tenants)[id][k]
  IN  IF value \in {Unset, ""} THEN defaults[k] ELSE value

(* tenantService: the ids it lists, and those it answers for.              *)
getAllTenants(defaults, tenants) ==
  {section \in {deepmerge(defaults, t) : t \in Range(TenantsById(tenants))} :
     section.enabled # "false"}
Serves(defaults, tenants, id) ==
  /\ id \in DOMAIN TenantsById(tenants)
  /\ getSection(defaults, tenants, id).enabled # "false"

----------------------------------------------------------------------------
(* Every read calls both functions.                                        *)
Read ==
  /\ watcher # "gone"
  /\ snapshot' = [part \in Parts |-> Current(part)]
  /\ armed' = Parts
  /\ recent' = recent \cup armed
  /\ UNCHANGED fileVars

(* The timer fires: it is set again if there was a call meanwhile.         *)
TimerFires(part) ==
  /\ part \in armed
  /\ IF part \in recent THEN recent' = recent \ {part} /\ UNCHANGED armed
     ELSE armed' = armed \ {part} /\ UNCHANGED recent
  /\ UNCHANGED <<fileVars, snapshot>>

Restarts == load /\ armed' = {} /\ recent' = {} /\ UNCHANGED snapshot

Next ==
  \/ \E v \in Variables :
       (Write(v) \/ Delete(v) \/ Handles(v) \/ LoadThrows(v)) /\ UNCHANGED snapshotVars
  \/ (Scans \/ close) /\ UNCHANGED snapshotVars
  \/ Restarts \/ Read
  \/ \E part \in Parts : TimerFires(part)

(* The watcher scans and tells, timers fire, the process is started again. *)
Spec ==
  /\ Init /\ [][Next]_vars
  /\ WF_vars(Scans /\ UNCHANGED snapshotVars)
  /\ WF_vars(Restarts)
  /\ \A v \in Variables : WF_vars((Handles(v) \/ LoadThrows(v)) /\ UNCHANGED snapshotVars)
  /\ \A part \in Parts : WF_vars(TimerFires(part))

----------------------------------------------------------------------------
Seen(s, k) == IF s = "Defaults" THEN Current("defaults")[k] ELSE Current("tenants")[s][k]

(* If reads leave pauses of 5 s again and again, they see every file as it *)
(* is in the end, whatever happened to the files, the events and the       *)
(* process on the way; without pauses they may not (debounce, load).       *)
PausesShowFiles ==
  []<>(armed = {}) =>
    <>[](watcher = "closed" \/
         \A s \in Sections, k \in Keys :
           <<s, k>> \in Variables /\ disk[<<s, k>>] # Absent => Seen(s, k) = disk[<<s, k>>])

(* The ways to read the configuration agree, whichever moments the two     *)
(* snapshots are of: a tenant is listed exactly if it is answered for; a   *)
(* key alone is the key of the section, and a tenant's own value if it has *)
(* one, unless that is empty (getValue, getAll, getTenantFromId).          *)
ReadsAgree ==
  LET defaults == Current("defaults")
      tenants == Current("tenants")
      byId == TenantsById(tenants)
  IN  \A id \in DOMAIN byId :
        /\ Serves(defaults, tenants, id) <=>
             \E t \in getAllTenants(defaults, tenants) : t.tenantId = id
        /\ \A k \in Keys : byId[id][k] # "" =>
             /\ getSection(defaults, tenants, id)[k] = getKey(defaults, tenants, id, k)
             /\ byId[id][k] # Unset => getKey(defaults, tenants, id, k) = byId[id][k]
=============================================================================
