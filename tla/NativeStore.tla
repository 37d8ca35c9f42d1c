----------------------------- MODULE NativeStore -----------------------------
(***************************************************************************)
(* The native data of the cores (native_store/): two hosts, the service    *)
(* and the desktop application, share one data root, and whichever runs a  *)
(* core must own it, also after the other died and left a core behind.     *)
(*                                                                         *)
(* The lease is an OS lock, which dies with its host, and a marker file,   *)
(* `active`, which does not.  Whoever takes the lock repairs the tree,     *)
(* imports the database of older versions once, and checks the cache.      *)
(*                                                                         *)
(* Owners and permissions are not modelled; an error anywhere before a     *)
(* process exists drops the lease as a crash of the host does.             *)
(***************************************************************************)
EXTENDS Naturals, FiniteSets

CONSTANTS
  StoreHosts,    \* host processes
  CoreKinds,     \* kinds of core that are launched
  LegacyKinds,   \* what the configuration of the older version may name
  MaxCores,      \* bound: core processes ever spawned
  MaxVersions    \* bound: writes of the older version's core

VARIABLES
  lease,     \* holder of lease.lock, or Unlocked
  active,    \* the dirty marker
  nh,        \* the hosts
  live,      \* core processes that run on native data
  spawned,   \* how many were ever spawned
  legacy,    \* the databases of the older version, by slot
  legacyOf,  \* core the older version's configuration names
  backups,   \* migration/<slot>.backup
  migrated,  \* migration markers
  caches     \* v1/<kind>/cache

nvars == <<lease, active, nh, live, spawned, legacy, legacyOf, backups, migrated, caches>>

Unlocked == "unlocked"
Absent == "absent"
Unfinished == "unfinished"   \* written in place, or copied under a writer
Damaged == "damaged"         \* by the core that owned it

Slots == {"cache", "selector"}
Slot(k) == IF k = "Meow" THEN "selector" ELSE "cache"
AllKinds == {"Mihomo", "ClashPremium", "ClashRust", "ChimeraClient", "Meow"}

(* Every core that is launched has a kind, and no host bears the name of   *)
(* the free lock or of the older version's core.                           *)
ASSUME NativeAssumption ==
  /\ MaxCores \in Nat /\ MaxVersions \in Nat
  /\ CoreKinds \subseteq AllKinds
  /\ {Unlocked, "older"} \intersect StoreHosts = {}

(* cache_format and the kind that reads it.                                *)
FormatOf(k) ==
  CASE k \in {"Mihomo", "ClashPremium"} -> "bolt"
    [] k \in {"ClashRust", "ChimeraClient"} -> "yaml"
    [] k = "Meow" -> "json"

Clean == [tag |-> "none", id |-> 0]
Idle0 == [pc |-> "idle", kind |-> "none", source |-> "none", core |-> 0, half |-> FALSE]
NoLegacy == [format |-> "absent", version |-> 0, lockedBy |-> Unlocked]

NativeInit ==
  /\ lease = Unlocked /\ active = Clean
  /\ nh = [h \in StoreHosts |-> Idle0]
  /\ live = {} /\ spawned = 0
  /\ \E s \in Slots, f \in {"yaml", "bolt", "json", "empty", "unknown", "absent"} :
       legacy = [x \in Slots |-> IF x = s THEN [NoLegacy EXCEPT !.format = f] ELSE NoLegacy]
  /\ legacyOf \in LegacyKinds
  /\ backups = [s \in Slots |-> Absent] /\ migrated = [s \in Slots |-> FALSE]
  /\ caches = [k \in AllKinds |-> Absent]

Goes(h, pc) == nh' = [nh EXCEPT ![h].pc = pc, ![h].half = FALSE]

(* The lease is dropped; the file descriptors of the migration are closed. *)
Unlocks(h) ==
  /\ lease' = Unlocked /\ nh' = [nh EXCEPT ![h] = Idle0]
  /\ legacy' = [s \in Slots |-> IF legacy[s].lockedBy = h
                                THEN [legacy[s] EXCEPT !.lockedBy = Unlocked] ELSE legacy[s]]

(***************************************************************************)
(* acquire                                                                 *)
(***************************************************************************)
(* try_lock; Busy while another host, or this host's last lease, holds it. *)
AcquireLease(h, k) ==
  /\ nh[h].pc = "idle" /\ lease = Unlocked
  /\ lease' = h
  /\ nh' = [nh EXCEPT ![h] = [Idle0 EXCEPT !.pc = "gate", !.kind = k]]
  /\ UNCHANGED <<active, live, spawned, legacy, legacyOf, backups, migrated, caches>>

(* Mutant: a marker without a record is taken for a stale one.             *)
VerdictsLax(m) ==
  IF m.tag # "record" THEN {"dead"}
  ELSE IF m.id \in live THEN {"alive", "unsure"} ELSE {"dead", "unsure"}

(* recorded_process_is_alive: only a record answers; its identity may not  *)
(* be readable.                                                            *)
Verdicts(m) ==
  IF m.tag # "record" THEN {"unsure"}
  ELSE IF m.id \in live THEN {"alive", "unsure"} ELSE {"dead", "unsure"}

Gate(h, verdict) ==
  /\ nh[h].pc = "gate"
  /\ \/ active = Clean /\ verdict = "dead" /\ Goes(h, "migrate") /\ UNCHANGED <<active, lease, legacy>>
     \/ active # Clean /\ verdict \in Verdicts(active) /\
          IF verdict = "dead" THEN /\ active' = Clean /\ Goes(h, "migrate")
                                   /\ UNCHANGED <<lease, legacy>>
          ELSE Unlocks(h) /\ UNCHANGED active
  /\ UNCHANGED <<live, spawned, legacyOf, backups, migrated, caches>>

(* The kind whose database the old one is; a bbolt file is nobody's unless *)
(* the old configuration says so.                                          *)
SourceKinds(s) ==
  IF s = "selector" THEN IF legacy[s].format = "json" THEN {"Meow"} ELSE {}
  ELSE CASE legacy[s].format = "yaml" ->
              {IF legacyOf = "ChimeraClient" THEN "ChimeraClient" ELSE "ClashRust"}
         [] legacy[s].format = "bolt" -> {legacyOf} \intersect {"Mihomo", "ClashPremium"}
         [] OTHER -> {}

(* bbolt takes the same advisory lock; the selector file has none.         *)
LegacyBusy(s) == s = "cache" /\ legacy[s].lockedBy # Unlocked

(* migrate, migrate_meow: whether there is anything to import ...          *)
Migrate(h) ==
  LET k == nh[h].kind
      s == Slot(k)
      skip == caches[k] # Absent \/ migrated[s] \/ legacy[s].format = "absent" IN
  /\ nh[h].pc = "migrate"
  /\ \/ skip /\ Goes(h, "cache") /\ UNCHANGED <<lease, legacy>>
     \/ ~skip /\ LegacyBusy(s) /\ Unlocks(h)
     \/ /\ ~skip /\ ~LegacyBusy(s) /\ s = "cache" /\ legacy[s].format = "empty"
        /\ Goes(h, "cache") /\ UNCHANGED <<lease, legacy>>
     \/ /\ ~skip /\ ~LegacyBusy(s) /\ (s = "cache" => legacy[s].format # "empty")
        /\ IF SourceKinds(s) = {} THEN Unlocks(h)
           ELSE /\ nh' = [nh EXCEPT ![h].pc = "backup",
                                    ![h].source = CHOOSE x \in SourceKinds(s) : TRUE]
                /\ legacy' = IF s = "cache" /\ legacy[s].lockedBy = Unlocked
                             THEN [legacy EXCEPT ![s].lockedBy = h] ELSE legacy
                /\ UNCHANGED lease
  /\ UNCHANGED <<active, live, spawned, legacyOf, backups, migrated, caches>>

Snapshot(s) ==
  IF legacy[s].lockedBy = "older" THEN Unfinished
  ELSE IF legacy[s].version = 0 THEN "import0" ELSE "import1"

(* Mutant: copy_file writes the file under its own name.                   *)
CopyInPlace(old, s, half) == IF half THEN Snapshot(s) ELSE Unfinished

(* copy_file: bytes go to <name>.import, are synced, and take the name in  *)
(* one rename.                                                             *)
CopyFile(old, s, half) == IF half THEN Snapshot(s) ELSE old

(* ... the backup, unless there is one ...                                 *)
BackUp(h) ==
  LET s == Slot(nh[h].kind) IN
  /\ nh[h].pc = "backup"
  /\ IF backups[s] # Absent /\ ~nh[h].half THEN Goes(h, "import") /\ UNCHANGED backups
     ELSE /\ backups' = [backups EXCEPT ![s] = CopyFile(@, s, nh[h].half)]
          /\ IF nh[h].half THEN Goes(h, "import") ELSE nh' = [nh EXCEPT ![h].half = TRUE]
  /\ UNCHANGED <<lease, active, live, spawned, legacy, legacyOf, migrated, caches>>

(* ... the copy into the home of the kind it belongs to, whichever kind is *)
(* asked for ...                                                           *)
Import(h) ==
  LET s == Slot(nh[h].kind) IN
  /\ nh[h].pc = "import"
  /\ IF caches[nh[h].source] # Absent /\ ~nh[h].half THEN Goes(h, "mark") /\ UNCHANGED caches
     ELSE /\ caches' = [caches EXCEPT ![nh[h].source] = CopyFile(@, s, nh[h].half)]
          /\ IF nh[h].half THEN Goes(h, "mark") ELSE nh' = [nh EXCEPT ![h].half = TRUE]
  /\ UNCHANGED <<lease, active, live, spawned, legacy, legacyOf, backups, migrated>>

(* ... and the marker that ends it.                                        *)
MarkMigrated(h) ==
  LET s == Slot(nh[h].kind) IN
  /\ nh[h].pc = "mark"
  /\ migrated' = [migrated EXCEPT ![s] = TRUE]
  /\ legacy' = [legacy EXCEPT ![s].lockedBy = IF @ = h THEN Unlocked ELSE @]
  /\ Goes(h, "cache")
  /\ UNCHANGED <<lease, active, live, spawned, legacyOf, backups, caches>>

Sound(k) == caches[k] \notin {Unfinished, Damaged}

(* check_cache: a missing or empty file becomes what the core expects of a *)
(* new one; a foreign or broken one is refused.                            *)
Checked(k) ==
  caches' = [caches EXCEPT ![k] = IF @ # Absent THEN @
                                  ELSE IF FormatOf(k) = "bolt" THEN "empty" ELSE "default"]

CheckCache(h) ==
  /\ nh[h].pc = "cache"
  /\ IF Sound(nh[h].kind)
     THEN Checked(nh[h].kind) /\ Goes(h, "leased") /\ UNCHANGED <<lease, legacy>>
     ELSE Unlocks(h) /\ UNCHANGED caches
  /\ UNCHANGED <<active, live, spawned, legacyOf, backups, migrated>>

(***************************************************************************)
(* The lease                                                               *)
(***************************************************************************)
(* prepare_spawn, before every spawn: the cache is checked again, then the *)
(* marker is truncated ...                                                 *)
PrepareSpawn(h) ==
  /\ nh[h].pc = "leased" /\ spawned < MaxCores
  /\ IF Sound(nh[h].kind)
     THEN active' = [tag |-> "torn", id |-> 0] /\ Goes(h, "marking")
     ELSE UNCHANGED active /\ Goes(h, "exited")
  /\ UNCHANGED <<lease, live, spawned, legacy, legacyOf, backups, migrated, caches>>

(* ... and names the kind: a process may exist from here on.               *)
MarkDirty(h) ==
  /\ nh[h].pc = "marking"
  /\ active' = [tag |-> "kind", id |-> 0] /\ Goes(h, "prepared")
  /\ UNCHANGED <<lease, live, spawned, legacy, legacyOf, backups, migrated, caches>>

SpawnCore(h) ==
  /\ nh[h].pc = "prepared"
  /\ spawned' = spawned + 1 /\ live' = live \union {spawned + 1}
  /\ nh' = [nh EXCEPT ![h].pc = "spawned", ![h].core = spawned + 1]
  /\ UNCHANGED <<lease, active, legacy, legacyOf, backups, migrated, caches>>

(* Supervisor::spawn fails: what it may have started is reaped, and the    *)
(* marker goes (spawn_configured).                                         *)
SpawnFails(h) ==
  /\ nh[h].pc \in {"marking", "prepared"} /\ Goes(h, "exited")
  /\ UNCHANGED <<lease, active, live, spawned, legacy, legacyOf, backups, migrated, caches>>

(* record_started: the epoch record takes the marker's place in one        *)
(* rename; if it cannot, the supervisor is cancelled.                      *)
RecordStarted(h) ==
  /\ nh[h].pc = "spawned"
  /\ active' = [tag |-> "record", id |-> nh[h].core] /\ Goes(h, "running")
  /\ UNCHANGED <<lease, live, spawned, legacy, legacyOf, backups, migrated, caches>>

(* The core works on its cache, and may leave it broken when it dies.      *)
CoreWrites(h) ==
  /\ nh[h].pc = "running" /\ nh[h].core \in live
  /\ caches' = [caches EXCEPT ![nh[h].kind] = "own"]
  /\ UNCHANGED <<lease, active, nh, live, spawned, legacy, legacyOf, backups, migrated>>

(* The process ends: by itself, by a stop that was confirmed, or because   *)
(* its record could not be written.                                        *)
CoreEnds(h, breaks) ==
  /\ nh[h].pc \in {"spawned", "running"}
  /\ live' = live \ {nh[h].core}
  /\ caches' = IF breaks THEN [caches EXCEPT ![nh[h].kind] = Damaged] ELSE caches
  /\ Goes(h, "exited")
  /\ UNCHANGED <<lease, active, spawned, legacy, legacyOf, backups, migrated>>

(* The supervisor restarts the core under the same lease.                  *)
RestartCore(h) ==
  /\ nh[h].pc = "exited" /\ nh[h].core # 0 /\ nh[h].core \notin live /\ Goes(h, "leased")
  /\ UNCHANGED <<lease, active, live, spawned, legacy, legacyOf, backups, migrated, caches>>

(* confirm_stopped, and the lease is dropped with its instance.            *)
ConfirmStopped(h) ==
  /\ nh[h].pc = "exited"
  /\ active' = Clean /\ Unlocks(h)
  /\ UNCHANGED <<live, spawned, legacyOf, backups, migrated, caches>>

(* The host dies, or gives up with an error; Drop unlocks, nothing else.   *)
HostDies(h) ==
  /\ nh[h].pc # "idle" /\ Unlocks(h)
  /\ UNCHANGED <<active, live, spawned, legacyOf, backups, migrated, caches>>

(* A core left behind ends: reaped by its service's next boot, or alone.   *)
OrphanEnds(c) ==
  /\ c \in live /\ \A h \in StoreHosts : nh[h].core # c
  /\ live' = live \ {c}
  /\ UNCHANGED <<lease, active, nh, spawned, legacy, legacyOf, backups, migrated, caches>>

(* The core of an older version, which knows nothing of the lease.         *)
OlderOpens ==
  /\ legacy["cache"].format # "absent" /\ legacy["cache"].lockedBy = Unlocked
  /\ legacy["cache"].version < MaxVersions
  /\ legacy' = [legacy EXCEPT !["cache"].lockedBy = "older"]
  /\ UNCHANGED <<lease, active, nh, live, spawned, legacyOf, backups, migrated, caches>>

OlderCloses ==
  /\ legacy["cache"].lockedBy = "older"
  /\ legacy' = [legacy EXCEPT !["cache"].lockedBy = Unlocked, !["cache"].version = @ + 1]
  /\ UNCHANGED <<lease, active, nh, live, spawned, legacyOf, backups, migrated, caches>>

NativeNext ==
  \/ \E h \in StoreHosts :
       \/ \E k \in CoreKinds : AcquireLease(h, k)
       \/ \E v \in {"dead", "alive", "unsure"} : Gate(h, v)
       \/ Migrate(h) \/ BackUp(h) \/ Import(h) \/ MarkMigrated(h) \/ CheckCache(h)
       \/ PrepareSpawn(h) \/ MarkDirty(h) \/ SpawnCore(h) \/ SpawnFails(h)
       \/ RecordStarted(h) \/ CoreWrites(h) \/ (\E b \in BOOLEAN : CoreEnds(h, b))
       \/ RestartCore(h) \/ ConfirmStopped(h) \/ HostDies(h)
  \/ \E c \in live : OrphanEnds(c)
  \/ OlderOpens \/ OlderCloses

NativeSpec == NativeInit /\ [][NativeNext]_nvars

(***************************************************************************)
(* Properties                                                              *)
(***************************************************************************)
(* The state is well-typed; who works holds the lock.                      *)
NativeTypeOK ==
  /\ lease \in StoreHosts \union {Unlocked}
  /\ \A h \in StoreHosts : nh[h].pc # "idle" <=> lease = h
  /\ live \subseteq 1 .. spawned /\ spawned <= MaxCores
  /\ active.tag \in {"none", "torn", "kind", "record"}
  /\ \A k \in AllKinds : caches[k] \in {Absent, "empty", "default", "import0", "import1", "own",
                                        Unfinished, Damaged}

(* One core owns native data at a time, across both hosts, although a host *)
(* may die at any step and leave its core running (acquire's marker).      *)
OneCoreOnData == Cardinality(live) <= 1

(* The marker stays until death is proven: while a core runs there is one, *)
(* and no lease is given out (StoreLease).                                 *)
DirtyUntilProven ==
  live # {} => /\ active # Clean
               /\ \A h \in StoreHosts : nh[h].core \notin live =>
                    nh[h].pc \in {"idle", "gate"}

(* A crash anywhere in an import leaves no half-made database behind, and  *)
(* no snapshot is taken under the writer of an older version; a migration  *)
(* that is marked has its backup and its import.                           *)
MigrationWhole ==
  /\ \A s \in Slots : backups[s] # Unfinished
  /\ \A k \in AllKinds : caches[k] # Unfinished
  /\ \A s \in Slots : migrated[s] =>
       backups[s] # Absent /\ \E k \in AllKinds : Slot(k) = s /\ caches[k] # Absent

=============================================================================
