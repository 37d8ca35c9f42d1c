---------------------------- MODULE EdgesProofs ----------------------------
(***************************************************************************)
(* Proofs about what the daemon keeps and how it is reached.               *)
(*                                                                         *)
(* The native data of the cores, for any number of hosts, cores and writes *)
(* of an older version: one core owns the data at a time, its marker stays *)
(* until its death is proven, and a migration leaves nothing half made     *)
(* behind, wherever a host dies.  The controller client: no call acts      *)
(* twice, for every number of retries.  The commands: an update that       *)
(* succeeded takes effect.  The log parser: every line in one frame of its *)
(* own stream, the worst one reported, dates right over midnight.  The log *)
(* sink: every frame accounted for, files whole, bounded and retained.     *)
(* Last, all of them with the runtime store in the specification MCEdges.  *)
(***************************************************************************)
EXTENDS MCEdges, RuntimeStoreProofs, WellFoundedInduction, FiniteSetTheorems, TLAPS


Pcs == {"idle", "gate", "migrate", "backup", "import", "mark", "cache", "leased", "marking",
        "prepared", "spawned", "running", "exited"}
CacheContents == {Absent, "empty", "default", "import0", "import1", "own", Unfinished, Damaged}
HostRecs == [pc: Pcs, kind: AllKinds \union {"none"}, source: AllKinds \union {"none"},
             core: Nat, half: BOOLEAN]
Markers == [tag: {"none", "torn", "kind", "record"}, id: Nat]
Databases == [format: {"yaml", "bolt", "json", "empty", "unknown", "absent"}, version: Nat,
              lockedBy: StoreHosts \union {Unlocked, "older"}]

(* The hosts and what is on disk.                                          *)
HostsTyped == lease \in StoreHosts \union {Unlocked} /\ nh \in [StoreHosts -> HostRecs]
DiskTyped ==
  /\ active \in Markers /\ legacy \in [Slots -> Databases]
  /\ backups \in [Slots -> CacheContents] /\ migrated \in [Slots -> BOOLEAN]
  /\ caches \in [AllKinds -> CacheContents]
CoresTyped == spawned \in Nat /\ live \subseteq 1 .. spawned

(* Who works holds the lock, and knows for which kind.                     *)
HoldsLease ==
  \A h \in StoreHosts : /\ nh[h].pc # "idle" <=> lease = h
                        /\ nh[h].pc # "idle" => nh[h].kind \in AllKinds

(* prepare_spawn reserved the core that is spawned next.                   *)
Reserved ==
  /\ spawned <= MaxCores
  /\ \A h \in StoreHosts : nh[h].pc \in {"marking", "prepared"} => spawned < MaxCores

(* Past the gate and before a spawn, and after an end, nothing runs.       *)
Vacant == {"migrate", "backup", "import", "mark", "cache", "leased", "marking", "prepared",
           "exited"}

(* Every core that may run is named by whoever could let another in: by    *)
(* the marker, and by the host that owns it.                               *)
Ownership ==
  /\ \A c, d \in live : c = d
  /\ live # {} => active.tag # "none"
  /\ active.tag = "record" => live \subseteq {active.id}
  /\ \A h \in StoreHosts :
       /\ nh[h].pc \in Vacant => live = {}
       /\ nh[h].pc \in {"spawned", "running"} => live \subseteq {nh[h].core}
       /\ nh[h].pc = "prepared" => active.tag = "kind"

Importing == {"backup", "import", "mark"}

(* An import works on a database it locked, and on its own kind.           *)
Locked ==
  /\ legacy["selector"].lockedBy # "older"
  /\ \A h \in StoreHosts : nh[h].pc \in Importing =>
       /\ nh[h].source \in AllKinds /\ Slot(nh[h].source) = Slot(nh[h].kind)
       /\ Slot(nh[h].kind) = "cache" => legacy["cache"].lockedBy = h

(* What an import has finished so far is there.                            *)
Finished ==
  \A h \in StoreHosts :
    /\ nh[h].pc \in {"import", "mark"} => backups[Slot(nh[h].kind)] # Absent
    /\ nh[h].pc = "mark" => caches[nh[h].source] # Absent

NativeInv ==
  /\ HostsTyped /\ DiskTyped /\ CoresTyped /\ HoldsLease /\ Reserved /\ Ownership
  /\ Locked /\ Finished /\ MigrationWhole

(* A step of host h changes no other host's state.                         *)
Alone(h) == \A g \in StoreHosts : g # h => nh'[g] = nh[g]

(* Goes moves one host and keeps what it works on.                         *)
LEMMA GoesMoves ==
  ASSUME HostsTyped, NEW h \in StoreHosts, NEW pc \in Pcs, Goes(h, pc)
  PROVE  /\ nh' \in [StoreHosts -> HostRecs] /\ Alone(h)
         /\ nh'[h].pc = pc /\ nh'[h].kind = nh[h].kind
         /\ nh'[h].source = nh[h].source /\ nh'[h].core = nh[h].core
  BY DEF HostsTyped, HostRecs, Goes, Alone

(* Unlocks forgets one host, and frees what that host had locked.          *)
LEMMA UnlocksForgets ==
  ASSUME HostsTyped, DiskTyped, NEW h \in StoreHosts, Unlocks(h)
  PROVE  /\ nh' \in [StoreHosts -> HostRecs] /\ Alone(h) /\ lease' = Unlocked
         /\ nh'[h].pc = "idle"
         /\ legacy' \in [Slots -> Databases]
         /\ \A s \in Slots : legacy'[s].lockedBy =
              IF legacy[s].lockedBy = h THEN Unlocked ELSE legacy[s].lockedBy
<1>1. Idle0 \in HostRecs
  BY DEF Idle0, HostRecs, Pcs
<1>2. nh' = [nh EXCEPT ![h] = Idle0] /\ lease' = Unlocked /\ Idle0.pc = "idle"
  BY DEF Unlocks, Idle0
<1>3. nh' \in [StoreHosts -> HostRecs] /\ Alone(h) /\ nh'[h].pc = "idle"
  BY <1>1, <1>2 DEF HostsTyped, Alone
<1>4. ASSUME NEW s \in Slots
      PROVE  /\ legacy'[s] \in Databases
             /\ legacy'[s].lockedBy =
                  IF legacy[s].lockedBy = h THEN Unlocked ELSE legacy[s].lockedBy
  <2>1. legacy[s] \in Databases
    BY DEF DiskTyped
  <2>2. legacy'[s] = IF legacy[s].lockedBy = h
                     THEN [legacy[s] EXCEPT !.lockedBy = Unlocked] ELSE legacy[s]
    BY DEF Unlocks
  <2> QED
    BY <2>1, <2>2 DEF Databases
<1> QED
  BY <1>2, <1>3, <1>4 DEF Unlocks

(* The state the program starts in.                                        *)
LEMMA InitNative == NativeInit => NativeInv
<1> SUFFICES ASSUME NativeInit PROVE NativeInv
  OBVIOUS
<1>1. HostsTyped /\ HoldsLease
  BY NativeAssumption DEF NativeInit, HostsTyped, HoldsLease, HostRecs, Pcs, Idle0, Unlocked
<1>2. PICK s \in Slots, f \in {"yaml", "bolt", "json", "empty", "unknown", "absent"} :
        legacy = [x \in Slots |-> IF x = s THEN [NoLegacy EXCEPT !.format = f] ELSE NoLegacy]
  BY DEF NativeInit
<1>3. /\ NoLegacy \in Databases /\ [NoLegacy EXCEPT !.format = f] \in Databases
      /\ NoLegacy.lockedBy = Unlocked /\ [NoLegacy EXCEPT !.format = f].lockedBy = Unlocked
  BY DEF NoLegacy, Databases
<1>4. legacy \in [Slots -> Databases] /\ \A x \in Slots : legacy[x].lockedBy = Unlocked
  BY <1>2, <1>3
<1>5. DiskTyped
  BY <1>4 DEF NativeInit, DiskTyped, Markers, Clean, CacheContents, Absent
<1>6. CoresTyped /\ Reserved
  BY NativeAssumption DEF NativeInit, CoresTyped, Reserved, Idle0
<1>7. Ownership
  BY DEF NativeInit, Ownership, Clean, Idle0, Vacant
<1>8. Locked /\ Finished
  BY <1>4 DEF NativeInit, Locked, Finished, Idle0, Importing, Slots, Unlocked
<1>9. MigrationWhole
  BY DEF NativeInit, MigrationWhole, Absent, Unfinished
<1> QED
  BY <1>1, <1>5, <1>6, <1>7, <1>8, <1>9 DEF NativeInv

(* A move of the host that holds the lock.                                 *)
LEMMA GoesHolds ==
  ASSUME NativeInv, NEW h \in StoreHosts, NEW pc \in Pcs, Goes(h, pc),
         nh[h].pc # "idle", pc # "idle", lease' = lease
  PROVE  HostsTyped' /\ HoldsLease' /\ \A g \in StoreHosts : g # h => nh[g].pc = "idle"
<1>1. HostsTyped /\ HoldsLease
  BY DEF NativeInv
<1>2. /\ nh' \in [StoreHosts -> HostRecs] /\ Alone(h)
      /\ nh'[h].pc = pc /\ nh'[h].kind = nh[h].kind
  BY <1>1, GoesMoves
<1> QED
  BY <1>1, <1>2 DEF HostsTyped, HoldsLease, Alone

(* A step that leaves the databases alone, and starts no import.           *)
LEMMA ImportUntouched ==
  ASSUME NativeInv, NEW h \in StoreHosts, Alone(h),
         nh'[h].pc \notin Importing,
         \A s \in Slots : legacy'[s].lockedBy # legacy[s].lockedBy =>
            legacy[s].lockedBy = h /\ legacy'[s].lockedBy = Unlocked,
         UNCHANGED <<backups, migrated, caches>>
  PROVE  Locked' /\ Finished' /\ MigrationWhole'
<1>1. MigrationWhole'
  BY DEF NativeInv, MigrationWhole
<1>2. Finished'
  BY DEF NativeInv, Finished, Alone, Importing
<1>3. Locked'
  BY DEF NativeInv, Locked, Alone, Slots, Unlocked
<1> QED
  BY <1>1, <1>2, <1>3

(* Dropping the lease keeps the invariant, whatever the host was doing; if *)
(* the marker goes with it, nothing runs.                                  *)
LEMMA UnlocksKeeps ==
  ASSUME NativeInv, NEW h \in StoreHosts, Unlocks(h), nh[h].pc # "idle",
         UNCHANGED <<live, spawned, backups, migrated, caches>>,
         UNCHANGED active \/ (active' = Clean /\ live = {})
  PROVE  NativeInv'
<1>1. HostsTyped /\ HoldsLease /\ DiskTyped
  BY DEF NativeInv
<1>2. /\ nh' \in [StoreHosts -> HostRecs] /\ Alone(h) /\ lease' = Unlocked
      /\ nh'[h].pc = "idle"
      /\ legacy' \in [Slots -> Databases]
      /\ \A s \in Slots : legacy'[s].lockedBy =
           IF legacy[s].lockedBy = h THEN Unlocked ELSE legacy[s].lockedBy
  BY <1>1, UnlocksForgets
<1>3. HostsTyped' /\ HoldsLease'
  BY <1>1, <1>2, NativeAssumption DEF HostsTyped, HoldsLease, Alone
<1>4. DiskTyped' /\ CoresTyped'
  BY <1>2 DEF NativeInv, DiskTyped, CoresTyped, Clean, Markers
<1>5. Reserved'
  BY <1>2 DEF NativeInv, Reserved, Alone
<1>6. Ownership'
  BY <1>2 DEF NativeInv, Ownership, Alone, Vacant, Clean, HoldsLease
<1>7. Locked' /\ Finished' /\ MigrationWhole'
  BY <1>2, ImportUntouched DEF Importing
<1> QED
  BY <1>3, <1>4, <1>5, <1>6, <1>7 DEF NativeInv

(* try_lock.                                                               *)
LEMMA AcquireKeeps ==
  ASSUME NativeInv, NEW h \in StoreHosts, NEW k \in CoreKinds, AcquireLease(h, k)
  PROVE  NativeInv'
<1> DEFINE r == [Idle0 EXCEPT !.pc = "gate", !.kind = k]
<1>1. r \in HostRecs /\ r.pc = "gate" /\ r.kind = k /\ k \in AllKinds
  BY NativeAssumption DEF Idle0, HostRecs, Pcs
<1>2. nh' = [nh EXCEPT ![h] = r] /\ lease' = h /\ lease = Unlocked /\ nh[h].pc = "idle"
  BY DEF AcquireLease
<1> HIDE DEF r
<1>3. nh' \in [StoreHosts -> HostRecs] /\ Alone(h) /\ nh'[h].pc = "gate" /\ nh'[h].kind = k
  BY <1>1, <1>2 DEF NativeInv, HostsTyped, Alone
<1>4. HostsTyped' /\ HoldsLease'
  BY <1>1, <1>2, <1>3, NativeAssumption DEF NativeInv, HostsTyped, HoldsLease, Alone
<1>5. DiskTyped' /\ CoresTyped'
  BY DEF AcquireLease, NativeInv, DiskTyped, CoresTyped
<1>6. Reserved' /\ Ownership'
  BY <1>3 DEF AcquireLease, NativeInv, Reserved, Ownership, Alone, Vacant
<1>7. Locked' /\ Finished' /\ MigrationWhole'
  BY <1>3, ImportUntouched DEF AcquireLease, Importing
<1> QED
  BY <1>4, <1>5, <1>6, <1>7 DEF NativeInv

(* The lock holder moves on and leaves the databases alone.                *)
LEMMA GoesKeeps ==
  ASSUME NativeInv, NEW h \in StoreHosts, NEW pc \in Pcs, Goes(h, pc),
         nh[h].pc # "idle", pc # "idle", pc \notin Importing,
         UNCHANGED <<lease, legacy, live, spawned, backups, migrated, caches>>,
         active' \in Markers,
         pc \in Vacant => live = {},
         pc \in {"spawned", "running"} => live \subseteq {nh[h].core},
         pc = "prepared" => active'.tag = "kind", live # {} => active'.tag # "none",
         active'.tag = "record" => live \subseteq {active'.id},
         pc \in {"marking", "prepared"} => spawned < MaxCores
  PROVE  NativeInv'
<1>1. HostsTyped' /\ HoldsLease' /\ \A g \in StoreHosts : g # h => nh[g].pc = "idle"
  BY GoesHolds
<1>2. Alone(h) /\ nh'[h].pc = pc /\ nh'[h].core = nh[h].core
  BY GoesMoves DEF NativeInv
<1>3. DiskTyped' /\ CoresTyped' /\ Reserved'
  BY <1>2 DEF NativeInv, DiskTyped, CoresTyped, Reserved, Alone
<1>4. Ownership'
  BY <1>1, <1>2 DEF NativeInv, Ownership, Alone, Vacant
<1>5. Locked' /\ Finished' /\ MigrationWhole'
  BY <1>2, ImportUntouched
<1> QED
  BY <1>1, <1>3, <1>4, <1>5 DEF NativeInv

(* The dirty marker gives way only to a proof of death.                    *)
LEMMA GateKeeps ==
  ASSUME NativeInv, NEW h \in StoreHosts, NEW v, Gate(h, v)
  PROVE  NativeInv'
<1>1. CASE Unlocks(h) /\ UNCHANGED active
  BY <1>1, UnlocksKeeps DEF Gate
<1>2. CASE ~(Unlocks(h) /\ UNCHANGED active)
  <2>1. /\ Goes(h, "migrate") /\ UNCHANGED <<lease, legacy, live, spawned, backups, migrated, caches>>
        /\ nh[h].pc = "gate" /\ active' = Clean
    BY <1>2 DEF Gate
  <2>2. live = {}
    BY <1>2 DEF Gate, Verdicts, NativeInv, Ownership, Clean
  <2>3. Clean \in Markers /\ Clean.tag = "none" /\ "migrate" \in Pcs \ Importing
    BY DEF Clean, Markers, Pcs, Importing
  <2> QED
    BY <2>1, <2>2, <2>3, GoesKeeps
<1> QED
  BY <1>1, <1>2

(* The kind a database belongs to uses the slot it was found in.           *)
LEMMA SourceInSlot ==
  ASSUME NEW s \in Slots, NEW x \in SourceKinds(s)
  PROVE  x \in AllKinds /\ Slot(x) = s
  BY DEF SourceKinds, Slots, AllKinds, Slot

(* An import begins: the database is locked, and belongs to a kind.        *)
LEMMA BeginsImport ==
  ASSUME NativeInv, NEW h \in StoreHosts, nh[h].pc = "migrate", NEW s, s = Slot(nh[h].kind),
         ~LegacyBusy(s), SourceKinds(s) # {},
         nh' = [nh EXCEPT ![h].pc = "backup", ![h].source = CHOOSE x \in SourceKinds(s) : TRUE],
         legacy' = IF s = "cache" /\ legacy[s].lockedBy = Unlocked
                   THEN [legacy EXCEPT ![s].lockedBy = h] ELSE legacy,
         UNCHANGED <<lease, active, live, spawned, backups, migrated, caches>>
  PROVE  NativeInv'
<1> DEFINE x == CHOOSE x \in SourceKinds(s) : TRUE
<1>1. s \in Slots
  BY DEF Slot, Slots
<1>2. x \in AllKinds /\ Slot(x) = s
  BY <1>1, SourceInSlot
<1> HIDE DEF x
<1>3. /\ nh' \in [StoreHosts -> HostRecs] /\ Alone(h)
      /\ nh'[h].pc = "backup" /\ nh'[h].kind = nh[h].kind /\ nh'[h].source = x
  <2>1. nh' = [nh EXCEPT ![h].pc = "backup", ![h].source = x]
    BY DEF x
  <2> DEFINE r == [nh[h] EXCEPT !.pc = "backup", !.source = x]
  <2>2. nh \in [StoreHosts -> HostRecs] /\ nh' = [nh EXCEPT ![h] = r]
    BY <2>1 DEF NativeInv, HostsTyped
  <2>3. r \in HostRecs /\ r.pc = "backup" /\ r.kind = nh[h].kind /\ r.source = x
    BY <2>2, <1>2 DEF HostRecs, Pcs
  <2> HIDE DEF r
  <2> QED
    BY <2>2, <2>3 DEF Alone
<1>4. /\ legacy' \in [Slots -> Databases]
      /\ s = "cache" => legacy'["cache"].lockedBy = h
      /\ legacy'["selector"].lockedBy = legacy["selector"].lockedBy
  <2>1. legacy \in [Slots -> Databases]
    BY DEF NativeInv, DiskTyped
  <2>2. CASE s = "cache"
    <3>1. legacy' = [legacy EXCEPT !["cache"].lockedBy = h]
      BY <2>2 DEF LegacyBusy
    <3> QED
      BY <2>1, <2>2, <3>1 DEF Databases, Slots
  <2>3. CASE s # "cache"
    BY <2>1, <2>3
  <2> QED
    BY <2>2, <2>3
<1>5. HostsTyped' /\ HoldsLease' /\ \A g \in StoreHosts : g # h => nh[g].pc = "idle"
  BY <1>3 DEF NativeInv, HostsTyped, HoldsLease, Alone
<1>6. DiskTyped' /\ CoresTyped' /\ Reserved'
  BY <1>3, <1>4 DEF NativeInv, DiskTyped, CoresTyped, Reserved, Alone
<1>7. Ownership'
  BY <1>3 DEF NativeInv, Ownership, Alone, Vacant
<1>8. Locked' /\ Finished'
  BY <1>1, <1>2, <1>3, <1>4, <1>5 DEF NativeInv, Locked, Finished, Importing, Alone
<1>9. MigrationWhole'
  BY DEF NativeInv, MigrationWhole
<1> QED
  BY <1>5, <1>6, <1>7, <1>8, <1>9 DEF NativeInv

(* migrate, migrate_meow.                                                  *)
LEMMA MigrateKeeps ==
  ASSUME NativeInv, NEW h \in StoreHosts, Migrate(h)
  PROVE  NativeInv'
<1>1. CASE Unlocks(h)
  BY <1>1, UnlocksKeeps DEF Migrate
<1>2. CASE Goes(h, "cache") /\ UNCHANGED <<lease, legacy>>
  <2>1. /\ nh[h].pc = "migrate" /\ UNCHANGED <<active, live, spawned, backups, migrated, caches>>
    BY DEF Migrate
  <2>2. /\ live = {} /\ active \in Markers
        /\ active.tag = "record" => live \subseteq {active.id}
    BY <2>1 DEF NativeInv, Ownership, Vacant, DiskTyped
  <2>3. "cache" \in Pcs \ Importing
    BY DEF Pcs, Importing
  <2> QED
    BY <1>2, <2>1, <2>2, <2>3, GoesKeeps
<1>3. CASE ~Unlocks(h) /\ ~(Goes(h, "cache") /\ UNCHANGED <<lease, legacy>>)
  <2> DEFINE s == Slot(nh[h].kind)
  <2>1. /\ nh[h].pc = "migrate" /\ ~LegacyBusy(s) /\ SourceKinds(s) # {}
        /\ nh' = [nh EXCEPT ![h].pc = "backup",
                            ![h].source = CHOOSE x \in SourceKinds(s) : TRUE]
        /\ legacy' = IF s = "cache" /\ legacy[s].lockedBy = Unlocked
                     THEN [legacy EXCEPT ![s].lockedBy = h] ELSE legacy
        /\ UNCHANGED <<lease, active, live, spawned, backups, migrated, caches>>
    BY <1>3 DEF Migrate
  <2> QED
    BY <2>1, BeginsImport
<1> QED
  BY <1>1, <1>2, <1>3

(* What a copy leaves under the name: the old file, or a whole new one,    *)
(* because nobody writes a database that an import has locked.             *)
LEMMA CopyWhole ==
  ASSUME NativeInv, NEW h \in StoreHosts, nh[h].pc \in Importing,
         NEW old \in CacheContents, NEW half \in BOOLEAN
  PROVE  CopyFile(old, Slot(nh[h].kind), half) \in {old, "import0", "import1"}
         /\ (half => CopyFile(old, Slot(nh[h].kind), half) \in {"import0", "import1"})
<1>1. Slot(nh[h].kind) \in Slots /\ legacy[Slot(nh[h].kind)].lockedBy # "older"
  BY NativeAssumption DEF NativeInv, Locked, Slot, Slots
<1> QED
  BY <1>1 DEF CopyFile, Snapshot

(* A host in the middle of an import takes one step of it: it stays the    *)
(* only one at work, and no core runs.                                     *)
LEMMA ImportStep ==
  ASSUME NativeInv, NEW h \in StoreHosts, nh[h].pc \in Importing,
         Goes(h, "import") \/ Goes(h, "mark") \/ nh' = [nh EXCEPT ![h].half = TRUE],
         UNCHANGED <<lease, active, live, spawned, legacy>>
  PROVE  /\ HostsTyped' /\ HoldsLease' /\ CoresTyped' /\ Reserved' /\ Ownership' /\ Locked'
         /\ Alone(h) /\ nh'[h].kind = nh[h].kind /\ nh'[h].source = nh[h].source
         /\ \A g \in StoreHosts : g # h => nh[g].pc = "idle"
<1>1. /\ nh' \in [StoreHosts -> HostRecs] /\ Alone(h)
      /\ nh'[h].pc \in Importing /\ nh'[h].kind = nh[h].kind /\ nh'[h].source = nh[h].source
  <2>1. CASE Goes(h, "import")
    BY <2>1, GoesMoves DEF NativeInv, Pcs, Importing
  <2>2. CASE Goes(h, "mark")
    BY <2>2, GoesMoves DEF NativeInv, Pcs, Importing
  <2>3. CASE nh' = [nh EXCEPT ![h].half = TRUE]
    BY <2>3 DEF NativeInv, HostsTyped, HostRecs, Alone
  <2> QED
    BY <2>1, <2>2, <2>3
<1>2. HostsTyped' /\ HoldsLease' /\ \A g \in StoreHosts : g # h => nh[g].pc = "idle"
  BY <1>1 DEF NativeInv, HostsTyped, HoldsLease, Alone, Importing
<1>3. CoresTyped' /\ Reserved'
  BY <1>1 DEF NativeInv, CoresTyped, Reserved, Alone, Importing
<1>4. Ownership'
  BY <1>1 DEF NativeInv, Ownership, Alone, Vacant, Importing
<1>5. Locked'
  BY <1>1 DEF NativeInv, Locked, Alone
<1> QED
  BY <1>1, <1>2, <1>3, <1>4, <1>5

(* The backup.                                                             *)
LEMMA BackUpKeeps ==
  ASSUME NativeInv, NEW h \in StoreHosts, BackUp(h)
  PROVE  NativeInv'
<1> DEFINE s == Slot(nh[h].kind)
           c == CopyFile(backups[s], s, nh[h].half)
<1>1. nh[h].pc = "backup" /\ nh[h].pc \in Importing
  BY DEF BackUp, Importing
<1>2. s \in Slots /\ backups[s] \in CacheContents /\ nh[h].half \in BOOLEAN
  BY DEF Slot, Slots, NativeInv, DiskTyped, HostsTyped, HostRecs
<1>3. c \in {backups[s], "import0", "import1"} /\ (nh[h].half => c \in {"import0", "import1"})
  BY <1>1, <1>2, CopyWhole
<1>4. UNCHANGED <<lease, active, live, spawned, legacy, migrated, caches>>
  BY DEF BackUp
<1>5. \/ UNCHANGED backups /\ backups[s] # Absent /\ Goes(h, "import")
      \/ backups' = [backups EXCEPT ![s] = c] /\ nh[h].half /\ Goes(h, "import")
      \/ backups' = [backups EXCEPT ![s] = c] /\ nh' = [nh EXCEPT ![h].half = TRUE]
  BY DEF BackUp
<1> HIDE DEF c
<1>6. /\ HostsTyped' /\ HoldsLease' /\ CoresTyped' /\ Reserved' /\ Ownership' /\ Locked'
      /\ Alone(h) /\ nh'[h].kind = nh[h].kind /\ nh'[h].source = nh[h].source
      /\ \A g \in StoreHosts : g # h => nh[g].pc = "idle"
  BY <1>1, <1>4, <1>5, ImportStep
<1>7. /\ backups' \in [Slots -> CacheContents]
      /\ \A x \in Slots : /\ backups[x] # Absent => backups'[x] # Absent
                          /\ backups'[x] # Unfinished
  BY <1>2, <1>3, <1>5 DEF NativeInv, DiskTyped, MigrationWhole, CacheContents, Absent, Unfinished
<1>8. (nh'[h].pc = "import" /\ backups'[s] # Absent) \/ nh'[h].pc = "backup"
  <2>1. CASE Goes(h, "import") /\ UNCHANGED backups /\ backups[s] # Absent
    BY <2>1, GoesMoves DEF NativeInv, Pcs
  <2>2. CASE Goes(h, "import") /\ backups' = [backups EXCEPT ![s] = c] /\ nh[h].half
    <3>1. backups'[s] # Absent
      BY <2>2, <1>2, <1>3 DEF NativeInv, DiskTyped, Absent
    <3> QED
      BY <2>2, <3>1, GoesMoves DEF NativeInv, Pcs
  <2>3. CASE nh' = [nh EXCEPT ![h].half = TRUE]
    BY <1>1, <2>3 DEF NativeInv, HostsTyped, HostRecs
  <2> QED
    BY <1>5, <2>1, <2>2, <2>3
<1>9. DiskTyped' /\ MigrationWhole'
  BY <1>4, <1>7 DEF NativeInv, DiskTyped, MigrationWhole
<1>10. Finished'
  BY <1>4, <1>6, <1>8 DEF Finished, Alone
<1> QED
  BY <1>6, <1>9, <1>10 DEF NativeInv

(* A cache is written: it is not Absent afterwards, and whole.             *)
LEMMA CachesKept ==
  ASSUME NativeInv, NEW k \in AllKinds, NEW v \in CacheContents,
         v = caches[k] \/ v \notin {Absent, Unfinished},
         caches' = [caches EXCEPT ![k] = v], UNCHANGED <<backups, migrated>>
  PROVE  /\ caches' \in [AllKinds -> CacheContents] /\ MigrationWhole'
         /\ \A x \in AllKinds : caches[x] # Absent => caches'[x] # Absent
<1>1. /\ caches' \in [AllKinds -> CacheContents] /\ caches'[k] = v
      /\ \A x \in AllKinds : x # k => caches'[x] = caches[x]
  BY DEF NativeInv, DiskTyped
<1>2. \A x \in AllKinds : /\ caches[x] # Absent => caches'[x] # Absent
                          /\ caches'[x] # Unfinished
  BY <1>1 DEF NativeInv, MigrationWhole
<1> QED
  BY <1>1, <1>2 DEF NativeInv, MigrationWhole

(* The copy into the home of the kind it belongs to.                       *)
LEMMA ImportKeeps ==
  ASSUME NativeInv, NEW h \in StoreHosts, Import(h)
  PROVE  NativeInv'
<1> DEFINE s == Slot(nh[h].kind)
           k == nh[h].source
           c == CopyFile(caches[k], s, nh[h].half)
<1>1. nh[h].pc = "import" /\ nh[h].pc \in Importing
  BY DEF Import, Importing
<1>2. k \in AllKinds /\ caches[k] \in CacheContents /\ nh[h].half \in BOOLEAN
  BY <1>1 DEF NativeInv, Locked, DiskTyped, HostsTyped, HostRecs
<1>3. c \in {caches[k], "import0", "import1"} /\ (nh[h].half => c \in {"import0", "import1"})
  BY <1>1, <1>2, CopyWhole
<1>4. UNCHANGED <<lease, active, live, spawned, legacy, migrated, backups>>
  BY DEF Import
<1>5. \/ UNCHANGED caches /\ caches[k] # Absent /\ Goes(h, "mark")
      \/ caches' = [caches EXCEPT ![k] = c] /\ nh[h].half /\ Goes(h, "mark")
      \/ caches' = [caches EXCEPT ![k] = c] /\ nh' = [nh EXCEPT ![h].half = TRUE]
  BY DEF Import
<1> HIDE DEF c
<1>6. /\ HostsTyped' /\ HoldsLease' /\ CoresTyped' /\ Reserved' /\ Ownership' /\ Locked'
      /\ Alone(h) /\ nh'[h].kind = nh[h].kind /\ nh'[h].source = nh[h].source
      /\ \A g \in StoreHosts : g # h => nh[g].pc = "idle"
  BY <1>1, <1>4, <1>5, ImportStep
<1>7. c \in CacheContents /\ (c = caches[k] \/ c \notin {Absent, Unfinished})
  BY <1>2, <1>3 DEF CacheContents, Absent, Unfinished
<1>8. caches' \in [AllKinds -> CacheContents] /\ MigrationWhole'
  <2>1. CASE UNCHANGED caches
    BY <1>4, <2>1 DEF NativeInv, DiskTyped, MigrationWhole
  <2>2. CASE caches' = [caches EXCEPT ![k] = c]
    BY <1>2, <1>4, <1>7, <2>2, CachesKept
  <2> QED
    BY <1>5, <2>1, <2>2
<1>9. (nh'[h].pc = "mark" /\ caches'[k] # Absent) \/ nh'[h].pc = "import"
  <2>1. CASE Goes(h, "mark") /\ UNCHANGED caches /\ caches[k] # Absent
    BY <2>1, GoesMoves DEF NativeInv, Pcs
  <2>2. CASE Goes(h, "mark") /\ caches' = [caches EXCEPT ![k] = c] /\ nh[h].half
    <3>1. caches'[k] # Absent
      BY <2>2, <1>2, <1>3 DEF NativeInv, DiskTyped, Absent
    <3> QED
      BY <2>2, <3>1, GoesMoves DEF NativeInv, Pcs
  <2>3. CASE nh' = [nh EXCEPT ![h].half = TRUE]
    BY <1>1, <2>3 DEF NativeInv, HostsTyped, HostRecs
  <2> QED
    BY <1>5, <2>1, <2>2, <2>3
<1>10. DiskTyped'
  BY <1>4, <1>8 DEF NativeInv, DiskTyped
<1>11. Finished'
  BY <1>1, <1>4, <1>6, <1>9 DEF NativeInv, Finished, Alone
<1> QED
  BY <1>6, <1>8, <1>10, <1>11 DEF NativeInv

(* The marker that ends a migration.                                       *)
LEMMA MarkMigratedKeeps ==
  ASSUME NativeInv, NEW h \in StoreHosts, MarkMigrated(h)
  PROVE  NativeInv'
<1> DEFINE s == Slot(nh[h].kind)
<1>1. /\ nh[h].pc = "mark" /\ Goes(h, "cache") /\ s \in Slots
      /\ UNCHANGED <<lease, active, live, spawned, backups, caches>>
  BY DEF MarkMigrated, Slot, Slots
<1>2. HostsTyped' /\ HoldsLease' /\ \A g \in StoreHosts : g # h => nh[g].pc = "idle"
  BY <1>1, GoesHolds DEF Pcs
<1>3. Alone(h) /\ nh'[h].pc = "cache"
  BY <1>1, GoesMoves DEF NativeInv, Pcs
<1>4. /\ legacy' \in [Slots -> Databases]
      /\ \A x \in Slots : legacy'[x].lockedBy # "older" \/ legacy[x].lockedBy = "older"
  <2>1. legacy \in [Slots -> Databases]
    BY DEF NativeInv, DiskTyped
  <2>2. PICK b \in {Unlocked, legacy[s].lockedBy} : legacy' = [legacy EXCEPT ![s].lockedBy = b]
    BY DEF MarkMigrated
  <2> QED
    BY <1>1, <2>1, <2>2 DEF Databases, Unlocked
<1>5. migrated' \in [Slots -> BOOLEAN] /\ \A x \in Slots : migrated'[x] => migrated[x] \/ x = s
  BY <1>1 DEF MarkMigrated, NativeInv, DiskTyped
<1>6. DiskTyped' /\ CoresTyped' /\ Reserved'
  BY <1>1, <1>3, <1>4, <1>5 DEF NativeInv, DiskTyped, CoresTyped, Reserved, Alone
<1>7. Ownership'
  BY <1>1, <1>2, <1>3 DEF NativeInv, Ownership, Alone, Vacant
<1>8. Locked' /\ Finished'
  BY <1>2, <1>3, <1>4 DEF NativeInv, Locked, Finished, Importing, Alone, Slots
<1>9. backups[s] # Absent /\ \E k \in AllKinds : Slot(k) = s /\ caches[k] # Absent
  BY <1>1 DEF NativeInv, Finished, Locked, Importing
<1>10. MigrationWhole'
  BY <1>1, <1>5, <1>9 DEF NativeInv, MigrationWhole
<1> QED
  BY <1>2, <1>6, <1>7, <1>8, <1>10 DEF NativeInv

(* check_cache.                                                            *)
LEMMA CheckCacheKeeps ==
  ASSUME NativeInv, NEW h \in StoreHosts, CheckCache(h)
  PROVE  NativeInv'
<1>1. CASE Unlocks(h) /\ UNCHANGED caches
  BY <1>1, UnlocksKeeps DEF CheckCache
<1>2. CASE Checked(nh[h].kind) /\ Goes(h, "leased") /\ UNCHANGED <<lease, legacy>>
  <2> DEFINE k == nh[h].kind
             v == IF caches[k] # Absent THEN caches[k]
                  ELSE IF FormatOf(k) = "bolt" THEN "empty" ELSE "default"
  <2>1. nh[h].pc = "cache" /\ UNCHANGED <<active, live, spawned, backups, migrated>>
    BY DEF CheckCache
  <2>2. /\ k \in AllKinds /\ caches' = [caches EXCEPT ![k] = v]
        /\ v \in CacheContents /\ (v = caches[k] \/ v \notin {Absent, Unfinished})
    BY <1>2, <2>1 DEF Checked, NativeInv, HoldsLease, DiskTyped, CacheContents, Absent, Unfinished
  <2> HIDE DEF v
  <2>3. caches' \in [AllKinds -> CacheContents] /\ MigrationWhole'
    BY <2>1, <2>2, CachesKept
  <2>4. HostsTyped' /\ HoldsLease' /\ \A g \in StoreHosts : g # h => nh[g].pc = "idle"
    BY <1>2, <2>1, GoesHolds DEF Pcs
  <2>5. Alone(h) /\ nh'[h].pc = "leased"
    BY <1>2, GoesMoves DEF NativeInv, Pcs
  <2>6. DiskTyped' /\ CoresTyped' /\ Reserved'
    BY <1>2, <2>1, <2>3, <2>5 DEF NativeInv, DiskTyped, CoresTyped, Reserved, Alone
  <2>7. Ownership' /\ Locked' /\ Finished'
    BY <1>2, <2>1, <2>4, <2>5
    DEF NativeInv, Ownership, Vacant, Locked, Finished, Importing, Alone
  <2> QED
    BY <2>3, <2>4, <2>6, <2>7 DEF NativeInv
<1> QED
  BY <1>1, <1>2 DEF CheckCache

(* prepare_spawn, the spawn that fails, and the restart: the marker        *)
(* changes while nothing runs.                                             *)
LEMMA PreparesKeep ==
  ASSUME NativeInv, NEW h \in StoreHosts,
         PrepareSpawn(h) \/ MarkDirty(h) \/ SpawnFails(h) \/ RestartCore(h)
  PROVE  NativeInv'
<1>1. live = {} /\ nh[h].pc # "idle" /\ active \in Markers
  BY DEF PrepareSpawn, MarkDirty, SpawnFails, RestartCore, NativeInv, Ownership, Vacant, DiskTyped
<1>2. UNCHANGED <<lease, legacy, live, spawned, backups, migrated, caches>>
  BY DEF PrepareSpawn, MarkDirty, SpawnFails, RestartCore
<1>3. PICK pc \in {"marking", "exited", "prepared", "leased"} :
        /\ Goes(h, pc) /\ active' \in Markers
        /\ pc = "marking" => spawned < MaxCores
        /\ pc = "prepared" => spawned < MaxCores /\ active'.tag = "kind"
  <2>1. CASE PrepareSpawn(h)
    BY <1>1, <2>1 DEF PrepareSpawn, Markers
  <2>2. CASE MarkDirty(h)
    <3>1. spawned < MaxCores
      BY <2>2 DEF MarkDirty, NativeInv, Reserved
    <3> QED
      BY <2>2, <3>1 DEF MarkDirty, Markers
  <2>3. CASE SpawnFails(h) \/ RestartCore(h)
    BY <1>1, <2>3 DEF SpawnFails, RestartCore
  <2> QED
    BY <2>1, <2>2, <2>3
<1>4. pc \in Pcs /\ pc \notin Importing /\ pc # "idle"
  BY DEF Pcs, Importing
<1> QED
  BY <1>1, <1>2, <1>3, <1>4, GoesKeeps

(* The spawn: the one core there is has its marker already.                *)
LEMMA SpawnCoreKeeps ==
  ASSUME NativeInv, NEW h \in StoreHosts, SpawnCore(h)
  PROVE  NativeInv'
<1>1. /\ nh[h].pc = "prepared" /\ spawned \in Nat /\ spawned < MaxCores /\ spawned + 1 \in Nat
      /\ live = {} /\ active.tag = "kind" /\ MaxCores \in Nat
  BY NativeAssumption DEF SpawnCore, NativeInv, CoresTyped, Reserved, Ownership, Vacant
<1>2. /\ spawned' = spawned + 1 /\ live' = {spawned + 1}
      /\ UNCHANGED <<lease, active, legacy, backups, migrated, caches>>
  BY <1>1 DEF SpawnCore
<1>3. /\ nh' \in [StoreHosts -> HostRecs] /\ Alone(h)
      /\ nh'[h].pc = "spawned" /\ nh'[h].kind = nh[h].kind /\ nh'[h].core = spawned + 1
  <2> DEFINE r == [nh[h] EXCEPT !.pc = "spawned", !.core = spawned + 1]
  <2>1. nh \in [StoreHosts -> HostRecs] /\ nh' = [nh EXCEPT ![h] = r]
    BY DEF NativeInv, HostsTyped, SpawnCore
  <2>2. /\ r \in HostRecs /\ r.pc = "spawned" /\ r.kind = nh[h].kind
        /\ r.core = spawned + 1
    BY <1>1, <2>1 DEF HostRecs, Pcs
  <2> HIDE DEF r
  <2> QED
    BY <2>1, <2>2 DEF Alone
<1>4. HostsTyped' /\ HoldsLease' /\ \A g \in StoreHosts : g # h => nh[g].pc = "idle"
  BY <1>1, <1>2, <1>3 DEF NativeInv, HostsTyped, HoldsLease, Alone
<1>5. CoresTyped' /\ spawned' <= MaxCores
  BY <1>1, <1>2 DEF CoresTyped
<1>6. Reserved' /\ DiskTyped'
  BY <1>2, <1>3, <1>4, <1>5 DEF NativeInv, Reserved, DiskTyped, Alone
<1>7. Ownership'
  BY <1>1, <1>2, <1>3, <1>4 DEF Ownership, Alone, Vacant
<1>8. Locked' /\ Finished' /\ MigrationWhole'
  BY <1>2, <1>3, ImportUntouched DEF Importing
<1> QED
  BY <1>4, <1>5, <1>6, <1>7, <1>8 DEF NativeInv

(* record_started.                                                         *)
LEMMA RecordStartedKeeps ==
  ASSUME NativeInv, NEW h \in StoreHosts, RecordStarted(h)
  PROVE  NativeInv'
<1> DEFINE rec == [tag |-> "record", id |-> nh[h].core]
<1>1. /\ nh[h].pc = "spawned" /\ Goes(h, "running") /\ active' = rec
      /\ UNCHANGED <<lease, legacy, live, spawned, backups, migrated, caches>>
  BY DEF RecordStarted
<1>2. rec \in Markers /\ rec.tag = "record" /\ rec.id = nh[h].core
  BY DEF Markers, NativeInv, HostsTyped, HostRecs
<1>3. live \subseteq {nh[h].core}
  BY <1>1 DEF NativeInv, Ownership
<1>4. "running" \in Pcs \ Importing /\ "running" \notin Vacant
  BY DEF Pcs, Importing, Vacant
<1> HIDE DEF rec
<1> QED
  BY <1>1, <1>2, <1>3, <1>4, GoesKeeps

(* The core works on its cache.                                            *)
LEMMA CoreWritesKeeps ==
  ASSUME NativeInv, NEW h \in StoreHosts, CoreWrites(h)
  PROVE  NativeInv'
<1>1. /\ nh[h].kind \in AllKinds /\ caches' = [caches EXCEPT ![nh[h].kind] = "own"]
      /\ UNCHANGED <<lease, active, nh, live, spawned, legacy, backups, migrated>>
  BY DEF CoreWrites, NativeInv, HoldsLease
<1>2. "own" \in CacheContents /\ "own" \notin {Absent, Unfinished}
  BY DEF CacheContents, Absent, Unfinished
<1>3. /\ caches' \in [AllKinds -> CacheContents] /\ MigrationWhole'
      /\ \A x \in AllKinds : caches[x] # Absent => caches'[x] # Absent
  BY <1>1, <1>2, CachesKept
<1>4. HostsTyped' /\ DiskTyped' /\ CoresTyped' /\ HoldsLease' /\ Reserved' /\ Ownership' /\ Locked'
  BY <1>1, <1>3
  DEF NativeInv, HostsTyped, DiskTyped, CoresTyped, HoldsLease, Reserved, Ownership, Locked
<1>5. Finished'
  BY <1>1, <1>3 DEF NativeInv, Finished, Locked, Importing
<1> QED
  BY <1>3, <1>4, <1>5 DEF NativeInv

(* The core ends, and nothing runs: it was the only one.                   *)
LEMMA CoreEndsKeeps ==
  ASSUME NativeInv, NEW h \in StoreHosts, NEW b \in BOOLEAN, CoreEnds(h, b)
  PROVE  NativeInv'
<1>1. /\ nh[h].pc \in {"spawned", "running"} /\ Goes(h, "exited")
      /\ UNCHANGED <<lease, active, spawned, legacy, backups, migrated>>
      /\ nh[h].kind \in AllKinds
  BY DEF CoreEnds, NativeInv, HoldsLease
<1>2. live' = {}
  BY DEF CoreEnds, NativeInv, Ownership
<1>3. caches' \in [AllKinds -> CacheContents] /\ MigrationWhole'
  <2>1. CASE b
    <3>1. Damaged \in CacheContents /\ Damaged \notin {Absent, Unfinished}
      BY DEF CacheContents, Absent, Unfinished, Damaged
    <3>2. caches' = [caches EXCEPT ![nh[h].kind] = Damaged]
      BY <2>1 DEF CoreEnds
    <3> QED
      BY <1>1, <3>1, <3>2, CachesKept
  <2>2. CASE ~b
    BY <1>1, <2>2 DEF CoreEnds, NativeInv, DiskTyped, MigrationWhole
  <2> QED
    BY <2>1, <2>2
<1>4. HostsTyped' /\ HoldsLease' /\ \A g \in StoreHosts : g # h => nh[g].pc = "idle"
  BY <1>1, GoesHolds DEF Pcs
<1>5. Alone(h) /\ nh'[h].pc = "exited"
  BY <1>1, GoesMoves DEF NativeInv, Pcs
<1>6. DiskTyped' /\ CoresTyped' /\ Reserved'
  BY <1>1, <1>2, <1>3, <1>5 DEF NativeInv, DiskTyped, CoresTyped, Reserved, Alone
<1>7. Ownership'
  BY <1>2, <1>4, <1>5 DEF Ownership, Vacant, Alone
<1>8. Locked' /\ Finished'
  BY <1>1, <1>4, <1>5 DEF NativeInv, Locked, Finished, Importing, Alone
<1> QED
  BY <1>3, <1>4, <1>6, <1>7, <1>8 DEF NativeInv

(* A core left behind ends.                                                *)
LEMMA OrphanEndsKeeps ==
  ASSUME NativeInv, NEW c \in live, OrphanEnds(c)
  PROVE  NativeInv'
<1>1. /\ live' \subseteq live
      /\ UNCHANGED <<lease, active, nh, spawned, legacy, backups, migrated, caches>>
  BY DEF OrphanEnds
<1>2. Ownership' /\ CoresTyped'
  BY <1>1 DEF NativeInv, Ownership, CoresTyped
<1>3. HostsTyped' /\ DiskTyped' /\ HoldsLease' /\ Reserved' /\ Locked' /\ Finished' /\ MigrationWhole'
  BY <1>1
  DEF NativeInv, HostsTyped, DiskTyped, HoldsLease, Reserved, Locked, Finished, MigrationWhole
<1> QED
  BY <1>2, <1>3 DEF NativeInv

(* The core of an older version comes and goes; it cannot open a database  *)
(* that an import has locked.                                              *)
LEMMA OlderKeeps ==
  ASSUME NativeInv, OlderOpens \/ OlderCloses
  PROVE  NativeInv'
<1>1. UNCHANGED <<lease, active, nh, live, spawned, backups, migrated, caches>>
  BY DEF OlderOpens, OlderCloses
<1>2. legacy \in [Slots -> Databases]
  BY DEF NativeInv, DiskTyped
<1>3. /\ legacy' \in [Slots -> Databases] /\ legacy'["selector"] = legacy["selector"]
      /\ legacy["cache"].lockedBy \in {Unlocked, "older"}
  <2>1. CASE OlderOpens
    BY <1>2, <2>1 DEF OlderOpens, Databases, Slots
  <2>2. CASE OlderCloses
    <3> DEFINE d == [legacy["cache"] EXCEPT !.lockedBy = Unlocked, !.version = @ + 1]
    <3>1. legacy["cache"] \in Databases /\ legacy["cache"].version + 1 \in Nat
      BY <1>2 DEF Databases, Slots
    <3>2. legacy' = [legacy EXCEPT !["cache"] = d]
      BY <1>2, <2>2 DEF OlderCloses, Slots
    <3>3. d \in Databases
      BY <3>1 DEF Databases
    <3> HIDE DEF d
    <3> QED
      BY <1>2, <2>2, <3>2, <3>3 DEF OlderCloses, Slots
  <2> QED
    BY <2>1, <2>2
<1>4. \A h \in StoreHosts : legacy["cache"].lockedBy # h
  BY <1>3, NativeAssumption
<1>5. Locked'
  BY <1>1, <1>3, <1>4 DEF NativeInv, Locked
<1>6. DiskTyped'
  BY <1>1, <1>3 DEF NativeInv, DiskTyped
<1>7. HostsTyped' /\ CoresTyped' /\ HoldsLease' /\ Reserved' /\ Ownership' /\ Finished' /\ MigrationWhole'
  BY <1>1
  DEF NativeInv, HostsTyped, CoresTyped, HoldsLease, Reserved, Ownership, Finished, MigrationWhole
<1> QED
  BY <1>5, <1>6, <1>7 DEF NativeInv

(* The invariant is inductive: one step per operation of the store.        *)
THEOREM NativeInvariant == NativeSpec => []NativeInv
<1>1. NativeInv /\ [NativeNext]_nvars => NativeInv'
  <2> SUFFICES ASSUME NativeInv, [NativeNext]_nvars PROVE NativeInv'
    OBVIOUS
  <2>1. ASSUME NEW h \in StoreHosts, NEW k \in CoreKinds, AcquireLease(h, k) PROVE NativeInv'
    BY <2>1, AcquireKeeps
  <2>2. ASSUME NEW h \in StoreHosts, NEW v, Gate(h, v) PROVE NativeInv'
    BY <2>2, GateKeeps
  <2>3. ASSUME NEW h \in StoreHosts,
               Migrate(h) \/ BackUp(h) \/ Import(h) \/ MarkMigrated(h) \/ CheckCache(h)
        PROVE  NativeInv'
    BY <2>3, MigrateKeeps, BackUpKeeps, ImportKeeps, MarkMigratedKeeps, CheckCacheKeeps
  <2>4. ASSUME NEW h \in StoreHosts,
               PrepareSpawn(h) \/ MarkDirty(h) \/ SpawnCore(h) \/ SpawnFails(h) \/ RestartCore(h)
        PROVE  NativeInv'
    BY <2>4, PreparesKeep, SpawnCoreKeeps
  <2>5. ASSUME NEW h \in StoreHosts, NEW b \in BOOLEAN,
               RecordStarted(h) \/ CoreWrites(h) \/ CoreEnds(h, b)
        PROVE  NativeInv'
    BY <2>5, RecordStartedKeeps, CoreWritesKeeps, CoreEndsKeeps
  <2>6. ASSUME NEW h \in StoreHosts, ConfirmStopped(h) PROVE NativeInv'
    <3>1. live = {}
      BY <2>6 DEF ConfirmStopped, NativeInv, Ownership, Vacant
    <3> QED
      BY <2>6, <3>1, UnlocksKeeps DEF ConfirmStopped
  <2>7. ASSUME NEW h \in StoreHosts, HostDies(h) PROVE NativeInv'
    BY <2>7, UnlocksKeeps DEF HostDies
  <2>8. ASSUME NEW c \in live, OrphanEnds(c) PROVE NativeInv'
    BY <2>8, OrphanEndsKeeps
  <2>9. CASE OlderOpens \/ OlderCloses
    BY <2>9, OlderKeeps
  <2>10. CASE UNCHANGED nvars
    BY <2>10 DEF nvars, NativeInv, HostsTyped, DiskTyped, CoresTyped, HoldsLease, Reserved, Ownership,
                 Locked, Finished, MigrationWhole
  <2> QED
    BY <2>1, <2>2, <2>3, <2>4, <2>5, <2>6, <2>7, <2>8, <2>9, <2>10 DEF NativeNext
<1> QED
  BY InitNative, <1>1, PTL DEF NativeSpec

(* The type invariant of the store.                                        *)
THEOREM NativeTypes == NativeSpec => []NativeTypeOK
<1>1. NativeInv => NativeTypeOK
  BY DEF NativeInv, NativeTypeOK, HostsTyped, DiskTyped, CoresTyped, HoldsLease, Reserved, CacheContents,
         Markers
<1> QED
  BY <1>1, NativeInvariant, PTL

(* OneCoreOnData: however many hosts share the data root, and wherever     *)
(* they die, two cores never run on it at once (native_store's lease and   *)
(* marker).                                                                *)
THEOREM DataHasOneCore == NativeSpec => []OneCoreOnData
<1>1. NativeInv => OneCoreOnData
  <2> SUFFICES ASSUME NativeInv PROVE Cardinality(live) <= 1
    BY DEF OneCoreOnData
  <2>1. \A c, d \in live : c = d
    BY DEF NativeInv, Ownership
  <2>2. CASE live = {}
    BY <2>2, FS_EmptySet
  <2>3. CASE live # {}
    <3>1. PICK c \in live : live = {c}
      BY <2>1, <2>3
    <3> QED
      BY <3>1, FS_Singleton
  <2> QED
    BY <2>2, <2>3
<1> QED
  BY <1>1, NativeInvariant, PTL

(* DirtyUntilProven: while a core runs the marker is there, and no host    *)
(* that does not own it gets past the gate.                                *)
THEOREM MarkerUntilProven == NativeSpec => []DirtyUntilProven
<1>1. NativeInv => DirtyUntilProven
  BY DEF NativeInv, DirtyUntilProven, Ownership, HostsTyped, HostRecs, Pcs, Vacant, Clean
<1> QED
  BY <1>1, NativeInvariant, PTL

(* MigrationWhole: no crash leaves a half-made database, no import copies  *)
(* a database under its writer, and a marked migration has its backup and  *)
(* its import.                                                             *)
THEOREM MigrationsWhole == NativeSpec => []MigrationWhole
<1>1. NativeInv => MigrationWhole
  BY DEF NativeInv
<1> QED
  BY <1>1, NativeInvariant, PTL

-----------------------------------------------------------------------------
(***************************************************************************)
(* The controller client: that a failed attempt may be repeated is         *)
(* harmless only because the endpoints flagged retry_safe read or remove a *)
(* named object, and because a removal that was carried out leaves nothing *)
(* to remove.  Attempts adds just that to AtMostOnce.                      *)
(***************************************************************************)
(* Calls have an endpoint of the table or, before the first, none.         *)
Called == Endpoints \union {[op |-> "none", method |-> "GET", safe |-> FALSE]}

Calls ==
  [endpoint: Called, phase: {"idle", "send", "sleep", "done"},
   result: {"none", "ok", "body"} \union Errors, left: Int, tries: Int]

Shape ==
  /\ call \in Calls
  /\ applied \in Nat /\ held \in BOOLEAN

(* What earlier attempts of the call may have done.                        *)
Attempts ==
  /\ call.phase = "idle" => applied = 0
  /\ call.phase = "sleep" => call.endpoint.safe
  /\ call.phase = "send" /\ ~call.endpoint.safe => applied = 0
  /\ Effect(call.endpoint) = "removes" => applied = 0 \/ (applied = 1 /\ ~held)
  /\ Effect(call.endpoint) = "acts" /\ call.phase # "done" => applied = 0
  /\ Effect(call.endpoint) = "acts" => applied <= 1
  /\ call.phase \in {"idle", "send", "sleep"} => call.result = "none"

Inductive == Shape /\ Attempts

(* Every endpoint has one of the three effects.                            *)
LEMMA EffectKinds == \A e : Effect(e) \in {"reads", "removes", "acts"}
  BY DEF Effect

(* What is flagged as safe to repeat reads or removes: the flags of the    *)
(* endpoints (RequestMetadata) against what the controller does.           *)
LEMMA SafeIsRepeatable == \A e \in Called : e.safe => Effect(e) # "acts"
<1> SUFFICES ASSUME NEW e \in Called, e.safe PROVE Effect(e) # "acts"
  OBVIOUS
<1>1. e \in Endpoints
  BY DEF Called
<1>2. e.op \in {"close_connection", "storage_delete"} \/
      (e.method = "GET" /\ e.op \notin {"group_delay", "proxy_delay", "provider_proxy_delay",
                                        "healthcheck_proxy_provider"})
  BY <1>1 DEF Endpoints, Meta, ConfigsApi, ConnectionsApi, MaintenanceApi, ProxiesApi, RulesApi,
              StorageApi, DnsApi, LogsApi, TrafficApi, MemoryApi, VersionApi
<1> QED
  BY <1>2 DEF Effect

(* What a change of the phase and of a counter leaves as it was.           *)
LEMMA Counted ==
  ASSUME NEW c \in Calls, NEW d, NEW phase \in {"idle", "send", "sleep", "done"}, NEW n \in Int,
         \/ d = [c EXCEPT !.phase = phase, !.left = n]
         \/ d = [c EXCEPT !.phase = phase, !.tries = n]
  PROVE  d \in Calls /\ d.endpoint = c.endpoint /\ d.phase = phase /\ d.result = c.result
  BY DEF Calls

(* No call has been made.                                                  *)
LEMMA InductiveInit == ClientInit => Inductive
<1> SUFFICES ASSUME ClientInit PROVE Inductive
  OBVIOUS
<1>1. Effect(call.endpoint) = "reads"
  BY DEF ClientInit, Effect
<1> QED
  BY <1>1 DEF ClientInit, Inductive, Shape, Calls, Attempts, Called

(* A failed attempt is repeated only if the endpoint is flagged.           *)
LEMMA FailedShape ==
  ASSUME Shape, call.phase = "send", call.result = "none",
         NEW error \in Errors, Failed(error)
  PROVE  /\ call' \in Calls
         /\ call'.endpoint = call.endpoint
         /\ \/ call'.phase = "done"
            \/ call'.phase = "sleep" /\ call.endpoint.safe /\ call'.result = "none"
<1>1. CASE GivesUp(error)
  <2>1. call' = [call EXCEPT !.phase = "done", !.result = error]
    BY <1>1 DEF Failed
  <2> QED
    BY <2>1 DEF Shape, Calls
<1>2. CASE ~GivesUp(error)
  <2>1. call' = [call EXCEPT !.phase = "sleep", !.left = @ - 1]
    BY <1>2 DEF Failed
  <2>2. call.endpoint.safe
    BY <1>2 DEF GivesUp, IsRetryable
  <2>3. call \in Calls /\ call.left - 1 \in Int
    BY SMTT(40) DEF Shape, Calls
  <2>4. call' \in Calls /\ call'.endpoint = call.endpoint /\ call'.phase = "sleep" /\ call'.result = call.result
    BY ZenonT(40), <2>1, <2>3, Counted
  <2> QED
    BY <2>2, <2>4
<1> QED
  BY <1>1, <1>2

(* Every step of a call keeps what its attempts may have done.             *)
LEMMA InductiveNext == Inductive /\ [ClientNext]_avars => Inductive'
<1> SUFFICES ASSUME Inductive, [ClientNext]_avars PROVE Inductive'
  OBVIOUS
<1> USE DEF Inductive
<1>1. ASSUME NEW e \in Endpoints, Begin(e) PROVE Inductive'
  <2>1. call'.endpoint = e /\ call'.phase = "send" /\ call'.result = "none"
    BY <1>1 DEF Begin
  <2>2. applied = 0 /\ applied' = 0
    BY <1>1 DEF Begin, Attempts
  <2>3. Shape'
    BY <1>1, ClientAssumption DEF Begin, Shape, Calls, Called
  <2> QED
    BY <2>1, <2>2, <2>3 DEF Attempts
<1>2. CASE PipeBusy
  <2>1. call'.endpoint = call.endpoint /\ call'.phase = "send" /\ call'.result = call.result /\ Shape'
    BY <1>2 DEF PipeBusy, Shape, Calls
  <2> QED
    BY <1>2, <2>1 DEF PipeBusy, Attempts
<1>3. CASE NotSent
  <2>1. PICK error \in {"busy", "connect"} : Failed(error)
    BY <1>3 DEF NotSent
  <2>2. call.phase = "send" /\ call.result = "none" /\ UNCHANGED <<applied, held>>
    BY <1>3 DEF NotSent, Attempts
  <2> QED
    BY <2>1, <2>2, FailedShape, SafeIsRepeatable DEF Attempts, Shape, Calls, Errors
<1>4. ASSUME call.phase = "send", CarriedOut,
             call'.endpoint = call.endpoint, call'.phase = "done" \/ call.endpoint.safe
      PROVE  /\ applied' \in Nat /\ held' \in BOOLEAN
             /\ Effect(call'.endpoint) = "removes" => applied' = 0 \/ (applied' = 1 /\ ~held')
             /\ Effect(call'.endpoint) = "acts" => call'.phase = "done" /\ applied' <= 1
  <2>1. Effect(call.endpoint) \in {"reads", "removes", "acts"}
    BY EffectKinds
  <2>2. Effect(call.endpoint) = "acts" => ~call.endpoint.safe /\ applied = 0
    BY <1>4, SafeIsRepeatable DEF Attempts, Shape, Calls
  <2>3. CASE Effect(call.endpoint) = "acts"
    BY <1>4, <2>2, <2>3 DEF CarriedOut, Shape, Calls
  <2>4. CASE Effect(call.endpoint) = "reads"
    BY <1>4, <2>4 DEF CarriedOut, Shape, Calls
  <2>5. CASE Effect(call.endpoint) = "removes"
    <3>1. applied = 0 \/ (applied = 1 /\ ~held)
      BY <2>5 DEF Attempts
    <3>2. held' \in BOOLEAN /\ ~held'
      BY <1>4, <2>5 DEF CarriedOut
    <3>3. CASE held
      <4>1. applied = 0 /\ applied' = applied + 1
        BY <3>1, <3>3, <1>4, <2>5 DEF CarriedOut
      <4>2. applied' = 1
        BY <4>1
      <4> QED
        BY <4>2, <3>2, <1>4, <2>5
    <3>4. CASE ~held
      <4>1. applied' = applied
        BY <3>4, <1>4, <2>5 DEF CarriedOut
      <4>2. applied' \in Nat
        BY <4>1 DEF Shape
      <4> QED
        BY <4>1, <4>2, <3>1, <3>2, <1>4, <2>5
    <3> QED
      BY <3>3, <3>4
  <2> QED
    BY <2>1, <2>3, <2>4, <2>5
<1>5. CASE Answers
  <2>1. /\ call.phase = "send" /\ CarriedOut
        /\ call'.endpoint = call.endpoint /\ call'.phase = "done"
        /\ call' \in Calls
    BY <1>5 DEF Answers, Shape, Calls
  <2> QED
    BY <2>1, <1>4 DEF Attempts, Shape, Calls
<1>6. CASE Fails
  <2>1. call.phase = "send" /\ call.result = "none"
    BY <1>6 DEF Fails, Attempts
  <2>2. PICK error \in Errors : Failed(error) /\ (CarriedOut \/ UNCHANGED <<applied, held>>)
    BY <1>6 DEF Fails, Errors
  <2>3. /\ call' \in Calls
        /\ call'.endpoint = call.endpoint
        /\ \/ call'.phase = "done"
           \/ call'.phase = "sleep" /\ call.endpoint.safe /\ call'.result = "none"
    BY <2>1, <2>2, FailedShape
  <2>4. CASE CarriedOut
    BY <2>1, <2>3, <2>4, <1>4 DEF Attempts, Shape, Calls
  <2>5. CASE UNCHANGED <<applied, held>>
    <3>1. Effect(call.endpoint) = "acts" => ~call.endpoint.safe
      BY SafeIsRepeatable DEF Shape, Calls
    <3>2. Shape'
      BY <2>3, <2>5 DEF Shape, Calls
    <3>3. Effect(call'.endpoint) = Effect(call.endpoint)
      BY <2>3
    <3> QED
      BY <2>1, <2>3, <2>5, <3>1, <3>2, <3>3 DEF Attempts
  <2> QED
    BY <2>2, <2>4, <2>5
<1>7. CASE Wake
  <2>1. call.phase = "sleep" /\ call'.endpoint = call.endpoint /\ call'.phase = "send"
        /\ call'.result = call.result /\ Shape'
    <3>1. call \in Calls /\ 0 \in Int
      BY DEF Shape, Calls
    <3>2. call.phase = "sleep" /\ call' = [call EXCEPT !.phase = "send", !.tries = 0]
          /\ UNCHANGED <<applied, held>>
      BY SMTT(40), <1>7 DEF Wake
    <3>3. call' \in Calls /\ call'.endpoint = call.endpoint /\ call'.phase = "send" /\ call'.result = call.result
      BY ZenonT(40), <3>1, <3>2, Counted
    <3> QED
      BY <3>2, <3>3 DEF Shape
  <2> QED
    BY <1>7, <2>1 DEF Wake, Attempts
<1>8. CASE Forget
  <2>1. call'.phase = "idle" /\ call'.result = "none" /\ applied' = 0 /\ Shape'
    BY <1>8 DEF Forget, Shape, Calls
  <2> QED
    BY <2>1 DEF Attempts
<1>9. CASE UNCHANGED avars
  BY <1>9 DEF avars, Attempts, Shape, Calls
<1> QED
  BY <1>1, <1>2, <1>3, <1>5, <1>6, <1>7, <1>8, <1>9 DEF ClientNext

(* Nothing that happens each time it is asked for happens twice in a call, *)
(* however many attempts the policy allows and whichever answers are lost  *)
(* (execute, is_retryable, the RequestMetadata of all endpoints).          *)
THEOREM ActsOnce == ClientSpec => []AtMostOnce
<1>1. Inductive => AtMostOnce
  BY EffectKinds DEF Inductive, Shape, Calls, Attempts, AtMostOnce
<1> QED
  BY InductiveInit, InductiveNext, <1>1, PTL DEF ClientSpec

(* How many attempts are left bounds how often the request was carried     *)
(* out; a busy pipe ends the call before anything is sent.                 *)
Tallied ==
  /\ call.left \in 0 .. MaxRetries /\ call.tries \in 0 .. (MaxPipeTries - 1)
  /\ call.phase \in {"send", "sleep"} => applied + call.left <= MaxRetries
  /\ applied <= MaxRetries + 1
  /\ call.result = "busy" /\ ~call.endpoint.safe => applied = 0

(* A failed attempt costs one of those that are left, or ends the call.    *)
LEMMA FailedTallied ==
  ASSUME Inductive, Tallied, call.phase = "send", NEW error \in Errors, Failed(error),
         applied' \in Nat, applied' <= applied + 1, error = "busy" => applied' = applied
  PROVE  Tallied'
<1>1. /\ call \in Calls /\ MaxRetries \in Nat /\ applied \in Nat /\ call.left \in 0 .. MaxRetries
      /\ applied + call.left <= MaxRetries /\ call.result = "none"
  BY ClientAssumption DEF Inductive, Shape, Tallied, Attempts
<1>2. CASE GivesUp(error)
  <2>1. call' = [call EXCEPT !.phase = "done", !.result = error] BY <1>2 DEF Failed
  <2>2. /\ call'.left = call.left /\ call'.tries = call.tries /\ call'.phase = "done" /\ call'.result = error
        /\ call'.endpoint = call.endpoint
    BY <1>1, <2>1 DEF Calls
  <2>3. applied' <= MaxRetries + 1 BY <1>1
  <2>4. ~call.endpoint.safe => applied = 0 BY DEF Inductive, Attempts
  <2> QED BY <2>2, <2>3, <2>4 DEF Tallied
<1>3. CASE ~GivesUp(error)
  <2>1. call' = [call EXCEPT !.phase = "sleep", !.left = call.left - 1] /\ call.left # 0
    BY <1>1, <1>3 DEF Failed, GivesUp, Calls
  <2>2. /\ call'.left = call.left - 1 /\ call'.tries = call.tries /\ call'.phase = "sleep" /\ call'.result = "none"
    BY <1>1, <2>1 DEF Calls
  <2>3. /\ call'.left \in 0 .. MaxRetries /\ applied' + call'.left <= MaxRetries /\ applied' <= MaxRetries + 1
    BY <1>1, <2>1, <2>2
  <2> QED BY <2>2, <2>3 DEF Tallied
<1> QED BY <1>2, <1>3

(* Carrying a request out counts once at most.                             *)
LEMMA CarriedOnce ==
  ASSUME Inductive, CarriedOut
  PROVE  applied' \in Nat /\ applied' <= applied + 1
<1>1. applied \in Nat BY DEF Inductive, Shape
<1>2. applied' = applied \/ applied' = applied + 1 BY DEF CarriedOut
<1> QED BY <1>1, <1>2

(* Every step of a call keeps the tally.                                   *)
LEMMA TalliedNext == Inductive /\ Tallied /\ [ClientNext]_avars => Tallied'
<1> SUFFICES ASSUME Inductive, Tallied, [ClientNext]_avars PROVE Tallied' OBVIOUS
<1>1. call \in Calls /\ MaxRetries \in Nat /\ MaxPipeTries \in Nat \ {0} /\ applied \in Nat
  BY ClientAssumption DEF Inductive, Shape
<1>2. ASSUME NEW e \in Endpoints, Begin(e) PROVE Tallied'
  <2>1. /\ call'.left = MaxRetries /\ call'.tries = 0 /\ call'.result = "none" /\ applied' = applied
    BY <1>2 DEF Begin
  <2>2. applied = 0 BY <1>2 DEF Begin, Inductive, Attempts
  <2>3. MaxRetries \in 0 .. MaxRetries /\ 0 \in 0 .. (MaxPipeTries - 1) /\ 0 + MaxRetries <= MaxRetries
    BY <1>1
  <2> QED BY <1>1, <2>1, <2>2, <2>3 DEF Tallied
<1>3. CASE PipeBusy
  <2>1. /\ call.phase = "send" /\ call.tries < MaxPipeTries - 1 /\ call' = [call EXCEPT !.tries = @ + 1]
        /\ applied' = applied
    BY <1>3 DEF PipeBusy
  <2>2. /\ call'.left = call.left /\ call'.tries = call.tries + 1 /\ call'.phase = call.phase
        /\ call'.result = call.result /\ call'.endpoint = call.endpoint
    BY <1>1, <2>1 DEF Calls
  <2>3. call.tries + 1 \in 0 .. (MaxPipeTries - 1) BY <1>1, <2>1 DEF Tallied
  <2> QED BY <2>1, <2>2, <2>3 DEF Tallied
<1>4. CASE NotSent
  <2>1. PICK error \in {"busy", "connect"} : Failed(error) BY <1>4 DEF NotSent
  <2>2. call.phase = "send" /\ applied' = applied BY <1>4 DEF NotSent
  <2>3. applied' \in Nat /\ applied' <= applied + 1 /\ error \in Errors BY <1>1, <2>2 DEF Errors
  <2> QED BY <2>1, <2>2, <2>3, FailedTallied
<1>5. CASE Answers
  <2>1. PICK result \in {"ok", "body"} : call' = [call EXCEPT !.phase = "done", !.result = result]
    BY <1>5 DEF Answers
  <2>2. call.phase = "send" /\ applied' \in Nat /\ applied' <= applied + 1 BY <1>5, CarriedOnce DEF Answers
  <2>3. /\ call'.left = call.left /\ call'.tries = call.tries /\ call'.phase = "done" /\ call'.result # "busy"
    BY <1>1, <2>1 DEF Calls
  <2>4. applied' <= MaxRetries + 1
    <3>1. applied + call.left <= MaxRetries /\ call.left \in 0 .. MaxRetries BY <2>2 DEF Tallied
    <3> QED BY <1>1, <2>2, <3>1
  <2> QED BY <2>3, <2>4 DEF Tallied
<1>6. CASE Fails
  <2>1. PICK error \in {"lost", "gateway", "status"} : Failed(error) /\ (CarriedOut \/ UNCHANGED <<applied, held>>)
    BY <1>6 DEF Fails
  <2>2. call.phase = "send" /\ error \in Errors /\ error # "busy" BY <1>6 DEF Fails, Errors
  <2>3. applied' \in Nat /\ applied' <= applied + 1
    <3>1. CASE CarriedOut BY <3>1, CarriedOnce
    <3>2. CASE UNCHANGED <<applied, held>> BY <1>1, <3>2
    <3> QED BY <2>1, <3>1, <3>2
  <2> QED BY <2>1, <2>2, <2>3, FailedTallied
<1>7. CASE Wake
  <2>1. /\ call.phase = "sleep" /\ call' = [call EXCEPT !.phase = "send", !.tries = 0] /\ applied' = applied
    BY <1>7 DEF Wake
  <2>2. /\ call'.left = call.left /\ call'.tries = 0 /\ call'.phase = "send"
        /\ call'.result = call.result /\ call'.endpoint = call.endpoint
    BY <1>1, <2>1 DEF Calls
  <2>3. 0 \in 0 .. (MaxPipeTries - 1) BY <1>1
  <2> QED BY <2>1, <2>2, <2>3 DEF Tallied
<1>8. CASE Forget
  <2>1. /\ call' = [call EXCEPT !.phase = "idle", !.result = "none"] /\ applied' = 0
    BY <1>8 DEF Forget
  <2>2. /\ call'.left = call.left /\ call'.tries = call.tries /\ call'.phase = "idle" /\ call'.result = "none"
    BY <1>1, <2>1 DEF Calls
  <2>3. 0 <= MaxRetries + 1 BY <1>1
  <2> QED BY <2>1, <2>2, <2>3 DEF Tallied
<1>9. CASE UNCHANGED avars
  BY <1>9 DEF avars, Tallied
<1> QED BY <1>2, <1>3, <1>4, <1>5, <1>6, <1>7, <1>8, <1>9 DEF ClientNext

(* The tally of every call of the client (execute, retry_send).            *)
THEOREM CallsAreTallied == ClientSpec => [](Inductive /\ Tallied)
<1>1. ClientInit => Tallied
  <2> SUFFICES ASSUME ClientInit PROVE Tallied OBVIOUS
  <2>1. call.left = 0 /\ call.tries = 0 /\ call.phase = "idle" /\ call.result = "none" /\ applied = 0
    BY DEF ClientInit
  <2>2. 0 \in 0 .. MaxRetries /\ 0 \in 0 .. (MaxPipeTries - 1) /\ 0 <= MaxRetries + 1 BY ClientAssumption
  <2> QED BY <2>1, <2>2 DEF Tallied
<1> QED BY <1>1, InductiveInit, InductiveNext, TalliedNext, PTL DEF ClientSpec

(* A call has at most max_retries further attempts, on a pipe that is      *)
(* tried for a bounded time (ExponentialRetry, retry_send).                *)
THEOREM ClientTypes == ClientSpec => []ClientTypeOK
<1>1. Inductive /\ Tallied => ClientTypeOK
  <2> SUFFICES ASSUME Inductive, Tallied PROVE ClientTypeOK OBVIOUS
  <2>1. call \in Calls /\ applied \in Nat BY DEF Inductive, Shape
  <2>2. call.endpoint.op = "none" \/ call.endpoint \in Endpoints BY <2>1 DEF Calls, Called
  <2>3. applied \in 0 .. (MaxRetries + 1) BY <2>1, ClientAssumption DEF Tallied
  <2> QED BY <2>1, <2>2, <2>3 DEF ClientTypeOK, Calls, Tallied
<1> QED BY <1>1, CallsAreTallied, PTL

(* An error of a busy pipe means that nothing was sent, unless the call    *)
(* may be repeated (execute, retry_send).                                  *)
THEOREM BusyMeansUnsent == ClientSpec => []BusyIsUnsent
<1>1. Tallied => BusyIsUnsent BY DEF Tallied, BusyIsUnsent
<1> QED BY <1>1, CallsAreTallied, PTL

-----------------------------------------------------------------------------
(***************************************************************************)
(* The commands: an update that says it succeeded has put the new version  *)
(* in place before the last start.  What is left to do is a suffix of the  *)
(* update's steps (Planned), so the start comes after the copy; the copy   *)
(* found no process of the entry (Hosted); and from then on every start,   *)
(* by whomever, takes the new file (Replaced).                             *)
(***************************************************************************)
StopReplaceStart == <<"stop", "stopping", "stopped", "replace", "start", "started">>
StepNames ==
  {"absent", "copy", "register", "halt", "unregister", "start", "started", "stop", "stopping", "stopped",
   "restart", "plan", "replace"}
Plans == {"none", "Seed", "ReplaceOffline", "StopReplaceStart", "UpToDate"}
Ops == {"install", "uninstall", "start", "stop", "restart", "update"}
CommandRecs ==
  [op: Ops \union {"none"}, todo: Seq(StepNames), ver: Versions, plan: Plans, result: {"none", "Ok", "Err"}]
DaemonRecs == [pc: {"none", "up", "serving", "ended"}, ver: 0 .. MaxVersion, token: BOOLEAN, shut: BOOLEAN,
            closing: BOOLEAN]
Services == [reg: {"none", "usr", "data"}, state: {"stopped", "running", "stopping"}]

(* A copy follows the look at the registration, and registering the copy.  *)
Follows(a, b) == (b = "copy" => a = "absent") /\ (b = "register" => a = "copy")
Planned(c) ==
  /\ c \in CommandRecs
  /\ \A i \in 1 .. Len(c.todo) - 1 : Follows(c.todo[i], c.todo[i + 1])
  /\ c.plan = "StopReplaceStart" =>
       /\ Len(c.todo) <= 6
       /\ \A i \in 1 .. Len(c.todo) : c.todo[i] = StopReplaceStart[6 - Len(c.todo) + i]
  /\ c.result # "none" => Len(c.todo) = 0

CommandsTyped ==
  /\ platform \in {"linux", "windows"}
  /\ files \in [Places -> Versions \union {Missing, Mangled}]
  /\ svc \in Services /\ svc.reg \in {"none", InstallTarget}
  /\ host \in DaemonRecs
  /\ issued \in 0 .. MaxCommands /\ mishaps \in 0 .. MaxMishaps
Hosted ==
  /\ host.pc # "none" <=> svc.state # "stopped"
  /\ svc.state # "stopped" => svc.reg # "none"
  /\ host.pc # "none" => host.ver \in Versions
Unclaimed == Len(cli.todo) > 0 /\ cli.todo[1] \in {"copy", "register"} => svc.reg = "none"
Replaced ==
  cli.plan = "StopReplaceStart" /\ cli.result # "Err" /\ Len(cli.todo) <= 2 =>
    /\ files["data"] = cli.ver
    /\ platform # "linux" /\ host.pc # "none" => host.ver = cli.ver
CommandsIInv == CommandsTyped /\ Planned(cli) /\ Hosted /\ Unclaimed /\ Replaced

(* What is left after the first step.                                      *)
LEMMA TailSteps ==
  ASSUME NEW S, NEW todo \in Seq(S), todo # <<>>
  PROVE  /\ Tail(todo) \in Seq(S) /\ Len(Tail(todo)) = Len(todo) - 1 /\ Len(todo) \in Nat /\ Len(todo) > 0
         /\ \A i \in 1 .. Len(Tail(todo)) : Tail(todo)[i] = todo[i + 1]
OBVIOUS

(* A command goes on with its next step.                                   *)
LEMMA CommandGoesOn ==
  ASSUME Planned(cli), cli.todo # <<>>, Onwards
  PROVE  /\ Planned(cli')
         /\ cli'.ver = cli.ver /\ cli'.plan = cli.plan /\ cli'.op = cli.op /\ cli'.result # "Err"
         /\ Len(cli'.todo) = Len(cli.todo) - 1
         /\ Len(cli'.todo) > 0 => Follows(cli.todo[1], cli'.todo[1])
<1>1. PICK t : t = Tail(cli.todo)
  OBVIOUS
<1>2. cli \in CommandRecs /\ cli.todo \in Seq(StepNames) /\ Len(cli.todo) \in Nat /\ Len(cli.todo) > 0
  BY DEF Planned, CommandRecs
<1>3. t \in Seq(StepNames) /\ Len(t) = Len(cli.todo) - 1 /\ \A i \in 1 .. Len(t) : t[i] = cli.todo[i + 1]
  BY <1>1, <1>2, TailSteps
<1>4. cli' = [cli EXCEPT !.todo = t, !.result = IF t = <<>> THEN "Ok" ELSE "none"]
  BY <1>1 DEF Onwards, GoesOn
<1>5. /\ cli' \in CommandRecs /\ cli'.todo = t /\ cli'.ver = cli.ver /\ cli'.plan = cli.plan /\ cli'.op = cli.op
      /\ cli'.result = IF t = <<>> THEN "Ok" ELSE "none"
  BY <1>2, <1>3, <1>4 DEF CommandRecs
<1>6. t = <<>> => Len(t) = 0
  OBVIOUS
<1>7. \A i \in 1 .. Len(t) - 1 : Follows(t[i], t[i + 1])
  BY <1>2, <1>3 DEF Planned
<1>8. Len(t) > 0 => Follows(cli.todo[1], t[1])
  BY <1>2, <1>3 DEF Planned
<1>9. cli.plan = "StopReplaceStart" =>
        Len(t) <= 6 /\ \A i \in 1 .. Len(t) : t[i] = StopReplaceStart[6 - Len(t) + i]
  <2> SUFFICES ASSUME cli.plan = "StopReplaceStart"
               PROVE  Len(t) <= 6 /\ \A i \in 1 .. Len(t) : t[i] = StopReplaceStart[6 - Len(t) + i]
    OBVIOUS
  <2>1. /\ Len(cli.todo) <= 6
        /\ \A i \in 1 .. Len(cli.todo) : cli.todo[i] = StopReplaceStart[6 - Len(cli.todo) + i]
    BY DEF Planned
  <2>0. PICK n, m : n = Len(cli.todo) /\ m = Len(t)
    OBVIOUS
  <2>2. n = Len(cli.todo) /\ n \in Nat /\ n > 0 /\ m = Len(t) /\ m \in Nat /\ m = n - 1
    BY <1>2, <1>3, <2>0
  <2>3. \A i \in 1 .. m : i + 1 \in 1 .. n /\ 6 - n + (i + 1) = 6 - m + i
    BY <2>2
  <2>4. \A i \in 1 .. m : t[i] = cli.todo[i + 1] /\ cli.todo[i + 1] = StopReplaceStart[6 - n + (i + 1)]
    BY <1>3, <2>1, <2>2, <2>3
  <2>5. \A i \in 1 .. m : t[i] = StopReplaceStart[6 - m + i]
    BY <2>3, <2>4
  <2>6. n <= 6 /\ m <= 6
    BY <2>1, <2>2
  <2> HIDE DEF StopReplaceStart
  <2> QED BY <2>2, <2>5, <2>6
<1> QED BY <1>3, <1>5, <1>6, <1>7, <1>8, <1>9 DEF Planned

(* Or it fails.                                                            *)
LEMMA CommandFails ==
  ASSUME Planned(cli), Err
  PROVE  Planned(cli') /\ cli'.result = "Err" /\ cli'.plan = cli.plan /\ Len(cli'.todo) = 0
<1>0. << >> \in Seq(StepNames) /\ cli \in CommandRecs
  BY DEF Planned
<1>1. cli' \in CommandRecs /\ cli'.todo = <<>> /\ cli'.result = "Err" /\ cli'.plan = cli.plan
  BY <1>0 DEF Err, CommandRecs
<1>2. Len(cli'.todo) = 0
  BY <1>1
<1> QED BY <1>1, <1>2 DEF Planned

(* The step a command is at.                                               *)
LEMMA CommandAt ==
  ASSUME Planned(cli), NEW step, At(step)
  PROVE  /\ cli.todo # <<>> /\ Len(cli.todo) \in Nat /\ Len(cli.todo) > 0 /\ cli.todo[1] = step
         /\ cli.plan = "StopReplaceStart" =>
              Len(cli.todo) <= 6 /\ step = StopReplaceStart[7 - Len(cli.todo)]
<1>1. cli.todo \in Seq(StepNames) /\ cli.todo # <<>> /\ Head(cli.todo) = step
  BY DEF At, Planned, CommandRecs
<1>2. Len(cli.todo) \in Nat /\ Len(cli.todo) > 0 /\ cli.todo[1] = step
  BY <1>1
<1>3. PICK n : n = Len(cli.todo) /\ n \in Nat /\ n > 0
  BY <1>2
<1>4. 1 \in 1 .. n /\ 6 - n + 1 = 7 - n
  BY <1>3
<1>5. cli.plan = "StopReplaceStart" => n <= 6 /\ cli.todo[1] = StopReplaceStart[6 - n + 1]
  BY <1>3, <1>4 DEF Planned
<1> QED BY <1>1, <1>2, <1>3, <1>4, <1>5

(* The start comes last, after the copy.                                   *)
LEMMA StepPlaces ==
  ASSUME NEW n \in 1 .. 6
  PROVE  /\ StopReplaceStart[7 - n] = "replace" <=> n = 3
         /\ StopReplaceStart[7 - n] \in {"start", "started"} <=> n <= 2
         /\ StopReplaceStart[7 - n] \notin {"absent", "copy", "register", "halt", "unregister", "restart", "plan"}
BY DEF StopReplaceStart

(* The steps are lists.                                                    *)
LEMMA StepLists ==
  /\ InstallSteps \in Seq(StepNames) /\ UninstallSteps \in Seq(StepNames)
  /\ StartSteps \in Seq(StepNames) /\ StartSteps # <<>>
  /\ StopSteps \in Seq(StepNames)
  /\ StopSteps \o StartSteps \in Seq(StepNames) /\ StopSteps \o StartSteps # <<>>
  /\ StopSteps \o <<"replace">> \o StartSteps \in Seq(StepNames)
  /\ StopSteps \o <<"replace">> \o StartSteps # <<>>
  /\ Len(StopSteps \o <<"replace">> \o StartSteps) > 2
  /\ <<"restart">> \in Seq(StepNames) /\ <<"plan">> \in Seq(StepNames) /\ <<"replace">> \in Seq(StepNames)
  /\ << >> \in Seq(StepNames)
<1>1. InstallSteps \in Seq(StepNames) /\ UninstallSteps \in Seq(StepNames)
  BY DEF InstallSteps, UninstallSteps, StepNames
<1>2. StartSteps \in Seq(StepNames) /\ StartSteps # <<>>
  BY DEF StartSteps, StepNames
<1>3. StopSteps \in Seq(StepNames)
  BY DEF StopSteps, StepNames
<1>4. <<"restart">> \in Seq(StepNames) /\ <<"plan">> \in Seq(StepNames) /\ <<"replace">> \in Seq(StepNames)
  BY DEF StepNames
<1>5. StopSteps \o StartSteps \in Seq(StepNames) /\ StopSteps \o StartSteps # <<>>
  BY DEF StopSteps, StartSteps, StepNames
<1>6. StopSteps \o <<"replace">> \o StartSteps \in Seq(StepNames)
  BY DEF StopSteps, StartSteps, StepNames
<1>7. /\ StopSteps \o <<"replace">> \o StartSteps # <<>>
      /\ Len(StopSteps \o <<"replace">> \o StartSteps) > 2
  BY DEF StopSteps, StartSteps
<1> QED BY <1>1, <1>2, <1>3, <1>4, <1>5, <1>6, <1>7

(* A new list of steps is a plan, unless it is the update's own.           *)
LEMMA CommandPlans ==
  ASSUME NEW c \in CommandRecs, NEW todo, c.todo = todo, c.plan # "StopReplaceStart",
         todo \in {InstallSteps, UninstallSteps, StartSteps, StopSteps, <<"restart">>, <<"plan">>,
                   StopSteps \o StartSteps, <<"replace">>, <<>>},
         c.result # "none" => todo = <<>>
  PROVE  Planned(c) /\ (todo # <<>> => todo[1] \notin {"copy", "register"})
<1>1. /\ \A i \in 1 .. Len(todo) - 1 : Follows(todo[i], todo[i + 1])
      /\ todo # <<>> => todo[1] \notin {"copy", "register"}
  BY SMTT(40) DEF InstallSteps, UninstallSteps, StartSteps, StopSteps, Follows
<1>2. c.result # "none" => Len(todo) = 0
  OBVIOUS
<1> QED BY <1>1, <1>2 DEF Planned

(* And the update's own is one.                                            *)
LEMMA UpdatePlans ==
  ASSUME NEW c \in CommandRecs, c.result = "none",
         c.todo = StopSteps \o <<"replace">> \o StartSteps
  PROVE  Planned(c) /\ c.todo[1] = "stop"
<1>1. PICK t : t = StopSteps \o <<"replace">> \o StartSteps
  OBVIOUS
<1>2. Len(t) = 6 /\ \A i \in 1 .. 6 : t[i] = StopReplaceStart[i]
  BY <1>1 DEF StopSteps, StartSteps, StopReplaceStart
<1>3. t[1] = "stop" /\ \A i \in 1 .. 5 : Follows(t[i], t[i + 1])
  BY <1>2 DEF StopReplaceStart, Follows
<1>4. \A i \in 1 .. 6 : 6 - 6 + i = i
  OBVIOUS
<1> HIDE DEF StopReplaceStart
<1>5. \A i \in 1 .. Len(t) : t[i] = StopReplaceStart[6 - Len(t) + i]
  BY <1>2, <1>4
<1>6. \A i \in 1 .. Len(t) - 1 : Follows(t[i], t[i + 1])
  BY <1>2, <1>3
<1> QED BY SMTT(40), <1>1, <1>2, <1>3, <1>5, <1>6 DEF Planned

(* Before the first command nothing is there.                              *)
LEMMA CommandsInitially == CommandsInit => CommandsIInv
<1> SUFFICES ASSUME CommandsInit PROVE CommandsIInv
  OBVIOUS
<1>0. 1 \in Versions
  BY CommandsAssumption DEF Versions
<1>1. /\ cli = NoCommand /\ NoCommand \in CommandRecs /\ NoCommand.todo = << >>
      /\ NoCommand.plan = "none" /\ NoCommand.result = "none"
  BY <1>0 DEF CommandsInit, NoCommand, CommandRecs, Plans
<1>2. Planned(cli)
  BY <1>1 DEF Planned
<1>3. /\ svc \in Services /\ svc.reg = "none" /\ svc.state = "stopped"
      /\ host \in DaemonRecs /\ host.pc = "none"
  BY CommandsAssumption DEF CommandsInit, Services, NoHost, DaemonRecs
<1>4. CommandsTyped
  BY <1>3, CommandsAssumption DEF CommandsInit, CommandsTyped
<1> QED BY <1>1, <1>2, <1>3, <1>4 DEF CommandsIInv, Hosted, Unclaimed, Replaced

(* A daemon that is launched runs the file of its entry.                   *)
LEMMA LaunchedIsNew ==
  ASSUME CommandsIInv, Launches, DaemonLaunched
  PROVE  /\ svc' \in Services /\ svc'.reg = svc.reg /\ svc'.state = "running" /\ svc.reg # "none"
         /\ host' \in DaemonRecs /\ host'.pc = "up" /\ host'.ver = files[svc.reg] /\ host'.ver \in Versions
         /\ platform # "linux" => svc.reg = "data"
<1>1. files[svc.reg] \in Versions /\ files[svc.reg] \in 0 .. MaxVersion
  BY CommandsAssumption DEF Launches, Versions
<1>2. /\ svc' \in Services /\ svc'.reg = svc.reg /\ svc'.state = "running"
  BY DEF DaemonLaunched, CommandsIInv, CommandsTyped, Services
<1>3. host' \in DaemonRecs /\ host'.pc = "up" /\ host'.ver = files[svc.reg]
  BY <1>1 DEF DaemonLaunched, NoHost, DaemonRecs
<1>4. platform # "linux" => svc.reg = "data"
  BY DEF Launches, CommandsIInv, CommandsTyped, InstallTarget
<1> QED BY <1>1, <1>2, <1>3, <1>4 DEF Launches

(* A process that ended leaves its entry stopped.                          *)
LEMMA ExitedIsGone ==
  ASSUME CommandsIInv, Exited
  PROVE  /\ svc' \in Services /\ svc'.reg = svc.reg /\ svc'.state = "stopped"
         /\ host' \in DaemonRecs /\ host'.pc = "none"
BY CommandsAssumption DEF Exited, CommandsIInv, CommandsTyped, Services, NoHost, DaemonRecs

(* The daemon's own steps.                                                 *)
LEMMA DaemonKeeps ==
  CommandsIInv /\ (DaemonStep \/ AutoStart \/ ServerFails \/ HostCrashes) => CommandsIInv'
<1> SUFFICES ASSUME CommandsIInv, DaemonStep \/ AutoStart \/ ServerFails \/ HostCrashes PROVE CommandsIInv'
  OBVIOUS
<1>0. /\ UNCHANGED <<platform, files, cli, issued>> /\ mishaps' \in 0 .. MaxMishaps
  BY CommandsAssumption
     DEF DaemonStep, PublishToken, Serve, ServerEnds, SignalHandled, StopPending, ServiceStopped,
         AutoStart, ServerFails, HostCrashes, Mishap, CommandsIInv, CommandsTyped
<1>1. CASE Exited
  BY <1>0, <1>1, ExitedIsGone
     DEF CommandsIInv, CommandsTyped, Hosted, Unclaimed, Replaced, InstallTarget
<1>2. CASE AutoStart
  <2>1. Launches /\ DaemonLaunched
    BY <1>2 DEF AutoStart
  <2> QED BY <1>0, <2>1, LaunchedIsNew
          DEF CommandsIInv, CommandsTyped, Hosted, Unclaimed, Replaced, InstallTarget
<1>3. ASSUME /\ host' \in DaemonRecs /\ host'.ver = host.ver /\ (host'.pc # "none" <=> host.pc # "none")
             /\ svc' \in Services /\ svc'.reg = svc.reg /\ (svc'.state # "stopped" <=> svc.state # "stopped")
      PROVE  CommandsIInv'
  BY <1>0, <1>3 DEF CommandsIInv, CommandsTyped, Hosted, Unclaimed, Replaced, InstallTarget
<1>4. host \in DaemonRecs /\ svc \in Services
  BY DEF CommandsIInv, CommandsTyped
<1>5. CASE PublishToken \/ Serve \/ ServerEnds \/ StopPending
  <2>1. /\ host' \in DaemonRecs /\ host'.ver = host.ver /\ (host'.pc # "none" <=> host.pc # "none")
    BY <1>4, <1>5 DEF PublishToken, Serve, ServerEnds, StopPending, DaemonRecs
  <2>2. /\ svc' \in Services /\ svc'.reg = svc.reg /\ (svc'.state # "stopped" <=> svc.state # "stopped")
    BY <1>4, <1>5 DEF PublishToken, Serve, ServerEnds, StopPending, Services
  <2> QED BY <1>3, <2>1, <2>2
<1>6. CASE ServerFails
  <2>1. CASE platform = "windows"
    <3>1. /\ host' \in DaemonRecs /\ host'.ver = host.ver /\ (host'.pc # "none" <=> host.pc # "none")
          /\ svc' = svc
      BY <1>4, <1>6, <2>1 DEF ServerFails, DaemonRecs
    <3> QED BY <1>3, <1>4, <3>1
  <2>2. CASE platform # "windows"
    BY <1>1, <1>6, <2>2 DEF ServerFails
  <2> QED BY <2>1, <2>2
<1> QED BY <1>1, <1>2, <1>5, <1>6 DEF DaemonStep, SignalHandled, ServiceStopped, HostCrashes

(* Counting steps.                                                         *)
LEMMA StepCount ==
  ASSUME NEW n \in Nat, n > 0, NEW m, m = n - 1
  PROVE  (n <= 6 => n \in 1 .. 6) /\ (n # 3 /\ m <= 2 => n <= 2)
OBVIOUS

(* A command that goes on or fails, with the daemon, its entry and the     *)
(* files as they were, but for a request to stop.                          *)
LEMMA WaitingKeeps ==
  ASSUME CommandsIInv, cli.todo # <<>>, Onwards \/ Err,
         UNCHANGED <<platform, files, svc, issued>>, mishaps' \in 0 .. MaxMishaps,
         host' \in DaemonRecs, host'.pc = host.pc, host'.ver = host.ver,
         cli.todo[1] = "absent" /\ Onwards => svc.reg = "none",
         cli.plan = "StopReplaceStart" /\ Onwards => cli.todo[1] # "replace"
  PROVE  CommandsIInv'
<1>1. CommandsTyped' /\ Hosted'
  BY DEF CommandsIInv, CommandsTyped, Hosted, InstallTarget
<1>2. CASE Err
  BY <1>1, <1>2, CommandFails DEF CommandsIInv, Unclaimed, Replaced
<1>3. CASE Onwards
  <2>1. /\ Planned(cli') /\ cli'.ver = cli.ver /\ cli'.plan = cli.plan /\ cli'.result # "Err"
        /\ Len(cli'.todo) = Len(cli.todo) - 1
        /\ Len(cli'.todo) > 0 => Follows(cli.todo[1], cli'.todo[1])
    BY <1>3, CommandGoesOn DEF CommandsIInv
  <2>2. At(cli.todo[1]) /\ Len(cli.todo) \in Nat /\ Len(cli.todo) > 0
    <3>1. cli.todo \in Seq(StepNames)
      BY DEF CommandsIInv, Planned, CommandRecs
    <3> QED BY <3>1 DEF At
  <2>3. Unclaimed'
    BY <1>3, <2>1, <2>2 DEF Unclaimed, Follows, CommandsIInv
  <2>4. PICK n : n = Len(cli.todo) /\ n \in Nat /\ n > 0
    BY <2>2
  <2>5. Replaced'
    <3>1. cli.result = "none"
      BY <2>2 DEF CommandsIInv, Planned, CommandRecs
    <3>2. ASSUME cli.plan = "StopReplaceStart" PROVE n \in 1 .. 6 /\ n # 3
      <4>1. n <= 6 /\ cli.todo[1] = StopReplaceStart[7 - n]
        BY <2>2, <2>4, <3>2, CommandAt DEF CommandsIInv
      <4>2. n \in 1 .. 6
        BY <2>4, <4>1, StepCount
      <4>3. cli.todo[1] # "replace"
        BY <1>3, <3>2
      <4> QED BY <4>1, <4>2, <4>3, StepPlaces
    <3>3. PICK m : m = Len(cli'.todo) /\ m = n - 1
      BY <2>1, <2>4
    <3>4. cli.plan = "StopReplaceStart" /\ Len(cli'.todo) <= 2 => Len(cli.todo) <= 2
      <4>1. n # 3 /\ m <= 2 => n <= 2
        BY <2>4, <3>3, StepCount
      <4> QED BY <2>4, <3>2, <3>3, <4>1
    <3>5. cli.plan = "StopReplaceStart" /\ Len(cli.todo) <= 2 =>
            /\ files["data"] = cli.ver
            /\ platform # "linux" /\ host.pc # "none" => host.ver = cli.ver
      BY <3>1 DEF Replaced, CommandsIInv
    <3>6. files' = files /\ platform' = platform
      OBVIOUS
    <3> QED BY <2>1, <3>4, <3>5, <3>6 DEF Replaced
  <2> QED BY <1>1, <2>1, <2>3, <2>5 DEF CommandsIInv
<1> QED BY <1>2, <1>3

(* A command that takes new steps.                                         *)
LEMMA PlanningKeeps ==
  ASSUME CommandsIInv, Planned(cli'), UNCHANGED <<platform, files, svc, host, mishaps>>,
         issued' \in 0 .. MaxCommands,
         cli'.todo # <<>> => cli'.todo[1] \notin {"copy", "register"},
         cli'.plan = "StopReplaceStart" => Len(cli'.todo) > 2
  PROVE  CommandsIInv'
<1>1. CommandsTyped' /\ Hosted'
  BY DEF CommandsIInv, CommandsTyped, Hosted, InstallTarget
<1>0. cli'.todo \in Seq(StepNames)
  BY DEF Planned, CommandRecs
<1>2. Unclaimed'
  BY <1>0 DEF Unclaimed
<1>3. Replaced'
  <2>2. cli'.plan = "StopReplaceStart" => ~(Len(cli'.todo) <= 2)
    BY <1>0, CommandsAssumption
  <2> QED BY <2>2 DEF Replaced
<1> QED BY <1>1, <1>2, <1>3 DEF CommandsIInv

(* Every command begins with its first step.                               *)
LEMMA IssueKeeps ==
  ASSUME CommandsIInv, NEW op \in Ops, NEW ver \in Versions, Issue(op, ver)
  PROVE  CommandsIInv'
<1>1. PICK t : t = Steps(op)
  OBVIOUS
<1>2. t \in {InstallSteps, UninstallSteps, StartSteps, StopSteps, <<"restart">>, <<"plan">>}
  BY <1>1 DEF Steps
<1>3. t \in Seq(StepNames)
  BY <1>2, StepLists
<1>4. PICK c : c = [NoCommand EXCEPT !.op = op, !.ver = ver, !.todo = t]
  OBVIOUS
<1>5. c \in CommandRecs /\ c.todo = t /\ c.plan = "none" /\ c.result = "none"
  BY <1>3, <1>4 DEF NoCommand, CommandRecs, Plans
<1>6. cli' = c
  BY <1>1, <1>4 DEF Issue
<1>7. Planned(c) /\ (t # <<>> => t[1] \notin {"copy", "register"})
  BY <1>2, <1>5, CommandPlans
<1>8. issued' \in 0 .. MaxCommands /\ UNCHANGED <<platform, files, svc, host, mishaps>>
  BY CommandsAssumption DEF Issue, CommandsIInv, CommandsTyped
<1> QED BY <1>5, <1>6, <1>7, <1>8, PlanningKeeps

(* restart: stop, then start.                                              *)
LEMMA RestartKeeps ==
  ASSUME CommandsIInv, NEW status, Restart(status)
  PROVE  CommandsIInv'
<1>1. cli.todo # <<>> /\ cli.todo[1] = "restart" /\ cli.plan # "StopReplaceStart"
  <2>1. cli.todo # <<>> /\ Len(cli.todo) \in Nat /\ Len(cli.todo) > 0 /\ cli.todo[1] = "restart"
    BY CommandAt DEF Restart, CommandsIInv
  <2>2. PICK n : n = Len(cli.todo) /\ n \in Nat /\ n > 0
    BY <2>1
  <2>3. cli.plan = "StopReplaceStart" => n <= 6 /\ "restart" = StopReplaceStart[7 - n]
    BY <2>2, CommandAt DEF Restart, CommandsIInv
  <2> QED BY SMTT(40), <2>1, <2>2, <2>3, StepPlaces
<1>2. UNCHANGED <<platform, files, svc, host, issued, mishaps>>
  BY DEF Restart, Still
<1>3. mishaps \in 0 .. MaxMishaps /\ issued \in 0 .. MaxCommands /\ host \in DaemonRecs
  BY DEF CommandsIInv, CommandsTyped
<1>4. CASE Err
  BY <1>1, <1>2, <1>3, <1>4, WaitingKeeps DEF Err
<1>5. CASE \E t \in {StartSteps, StopSteps \o StartSteps} : GoesOn(t)
  <2>1. PICK t \in {StartSteps, StopSteps \o StartSteps} : GoesOn(t)
    BY <1>5
  <2>2. t \in Seq(StepNames) /\ t # <<>>
    BY <2>1, StepLists
  <2>3. cli' = [cli EXCEPT !.todo = t, !.result = "none"]
    BY <2>1, <2>2 DEF GoesOn
  <2>4. cli \in CommandRecs
    BY DEF CommandsIInv, Planned
  <2>5. cli' \in CommandRecs /\ cli'.todo = t /\ cli'.plan = cli.plan /\ cli'.result = "none"
    BY <2>2, <2>3, <2>4 DEF CommandRecs
  <2>6. Planned(cli') /\ t[1] \notin {"copy", "register"}
    BY <1>1, <2>2, <2>5, CommandPlans
  <2> QED BY <1>1, <1>2, <1>3, <2>5, <2>6, PlanningKeeps
<1> QED BY <1>4, <1>5 DEF Restart

(* plan_update.                                                            *)
LEMMA PlanKeeps == CommandsIInv /\ Plan => CommandsIInv'
<1> SUFFICES ASSUME CommandsIInv, Plan PROVE CommandsIInv'
  OBVIOUS
<1>1. PICK plan : /\ plan \in {"Seed", "ReplaceOffline", "StopReplaceStart", "UpToDate"}
                  /\ cli' = [cli EXCEPT !.plan = plan, !.todo = UpdateSteps(plan),
                                        !.result = IF UpdateSteps(plan) = <<>> THEN "Ok" ELSE "none"]
  BY DEF Plan, PlanUpdate
<1>2. PICK t : t = UpdateSteps(plan)
  OBVIOUS
<1>3. /\ plan # "StopReplaceStart" => t \in {<<"replace">>, <<>>}
      /\ plan = "StopReplaceStart" => t = StopSteps \o <<"replace">> \o StartSteps
  BY <1>1, <1>2 DEF UpdateSteps
<1>4. t \in Seq(StepNames) /\ (plan = "StopReplaceStart" => Len(t) > 2 /\ t # <<>>)
  BY <1>3, StepLists
<1>5. cli \in CommandRecs
  BY DEF CommandsIInv, Planned
<1>6. /\ cli' \in CommandRecs /\ cli'.todo = t /\ cli'.plan = plan
      /\ cli'.result = IF t = <<>> THEN "Ok" ELSE "none"
  BY <1>1, <1>2, <1>4, <1>5 DEF CommandRecs, Plans
<1>7. CASE plan = "StopReplaceStart"
  BY <1>3, <1>4, <1>6, <1>7, UpdatePlans, PlanningKeeps DEF Plan, Still, CommandsIInv, CommandsTyped
<1>8. CASE plan # "StopReplaceStart"
  BY <1>3, <1>4, <1>6, <1>8, CommandPlans, PlanningKeeps DEF Plan, Still, CommandsIInv, CommandsTyped
<1> QED BY <1>7, <1>8

(* std::fs::copy of a version, whole, in part, or refused.                 *)
LEMMA CopyKeeps ==
  ASSUME CommandsIInv, NEW p \in Places, Copy(p) \/ CopyFails(p), NEW step \in {"copy", "replace"}, At(step),
         step = "replace" => p = "data"
  PROVE  CommandsIInv'
<1>1. /\ cli.todo # <<>> /\ Len(cli.todo) \in Nat /\ Len(cli.todo) > 0 /\ cli.todo[1] = step
      /\ cli.plan = "StopReplaceStart" =>
           Len(cli.todo) <= 6 /\ step = StopReplaceStart[7 - Len(cli.todo)]
  BY CommandAt DEF CommandsIInv
<1>2. UNCHANGED <<platform, svc, host, issued>> /\ mishaps' \in 0 .. MaxMishaps
  BY CommandsAssumption DEF Copy, CopyFails, Mishap, CommandsIInv, CommandsTyped
<1>3. files' \in [Places -> Versions \union {Missing, Mangled}]
  <2>1. cli.ver \in Versions /\ files \in [Places -> Versions \union {Missing, Mangled}]
    BY DEF CommandsIInv, CommandsTyped, Planned, CommandRecs
  <2> QED BY <2>1 DEF Copy, CopyFails
<1>4. CommandsTyped' /\ Hosted'
  BY <1>2, <1>3 DEF CommandsIInv, CommandsTyped, Hosted, InstallTarget
<1>5. CASE Err
  BY <1>4, <1>5, CommandFails DEF CommandsIInv, Unclaimed, Replaced
<1>6. CASE ~InUse(p) /\ Onwards /\ files' = [files EXCEPT ![p] = cli.ver]
  <2>1. /\ Planned(cli') /\ cli'.ver = cli.ver /\ cli'.plan = cli.plan /\ cli'.result # "Err"
        /\ Len(cli'.todo) = Len(cli.todo) - 1
        /\ Len(cli'.todo) > 0 => Follows(cli.todo[1], cli'.todo[1])
    BY <1>1, <1>6, CommandGoesOn DEF CommandsIInv
  <2>2. Unclaimed'
    BY <1>1, <1>2, <2>1 DEF Unclaimed, Follows, CommandsIInv
  <2>3. Replaced'
    <3> SUFFICES ASSUME cli.plan = "StopReplaceStart"
                 PROVE  /\ files'["data"] = cli.ver
                        /\ platform # "linux" => host.pc = "none"
      BY <1>2, <2>1 DEF Replaced
    <3>1. step = "replace"
      <4>1. PICK n : n = Len(cli.todo) /\ n \in 1 .. 6
        BY <1>1
      <4>2. step = StopReplaceStart[7 - n]
        BY <1>1, <4>1
      <4> QED BY <4>1, <4>2, StepPlaces
    <3>2. files'["data"] = cli.ver
      BY <1>6, <3>1 DEF CommandsIInv, CommandsTyped, Places
    <3>3. platform # "linux" => host.pc = "none"
      BY <1>6, <3>1 DEF InUse, CommandsIInv, CommandsTyped, Hosted, InstallTarget
    <3> QED BY <3>2, <3>3
  <2> QED BY <1>4, <2>1, <2>2, <2>3 DEF CommandsIInv
<1> QED BY <1>5, <1>6 DEF Copy, CopyFails

(* install: the entry is made after it was found missing.                  *)
LEMMA InstallKeeps == CommandsIInv /\ (CheckAbsent \/ InstallCopy \/ Register) => CommandsIInv'
<1> SUFFICES ASSUME CommandsIInv, CheckAbsent \/ InstallCopy \/ Register PROVE CommandsIInv'
  OBVIOUS
<1>0. Planned(cli) /\ CommandsTyped /\ Hosted /\ host \in DaemonRecs /\ mishaps \in 0 .. MaxMishaps
  BY DEF CommandsIInv, CommandsTyped
<1>1. CASE CheckAbsent
  <2>1. cli.todo # <<>> /\ cli.todo[1] = "absent"
    BY <1>0, <1>1, CommandAt DEF CheckAbsent
  <2>2. UNCHANGED <<platform, files, svc, host, issued, mishaps>> /\ (Onwards \/ Err)
    BY <1>1 DEF CheckAbsent, Still
  <2>3. CASE svc.reg = "none"
    BY <1>0, <2>1, <2>2, <2>3, WaitingKeeps
  <2>4. CASE svc.reg # "none"
    <3>1. Err
      BY <1>1, <2>4 DEF CheckAbsent
    <3>2. CommandsTyped' /\ Hosted'
      BY <1>0, <2>2 DEF CommandsTyped, Hosted, InstallTarget
    <3> QED BY <1>0, <3>1, <3>2, CommandFails DEF CommandsIInv, Unclaimed, Replaced
  <2> QED BY <2>3, <2>4
<1>2. CASE InstallCopy
  <2>1. InstallTarget \in Places
    BY DEF InstallTarget, Places
  <2> QED BY <1>2, <2>1, CopyKeeps DEF InstallCopy
<1>3. CASE Register
  <2>1. At("register")
    BY <1>3 DEF Register
  <2>2. /\ cli.todo # <<>> /\ Len(cli.todo) \in Nat /\ Len(cli.todo) > 0 /\ cli.todo[1] = "register"
        /\ cli.plan # "StopReplaceStart"
    <3>1. /\ cli.todo # <<>> /\ Len(cli.todo) \in Nat /\ Len(cli.todo) > 0 /\ cli.todo[1] = "register"
          /\ cli.plan = "StopReplaceStart" =>
               Len(cli.todo) <= 6 /\ "register" = StopReplaceStart[7 - Len(cli.todo)]
      BY <1>0, <2>1, CommandAt
    <3>2. PICK n : n = Len(cli.todo) /\ n \in Nat /\ n > 0
      BY <3>1
    <3>3. cli.plan = "StopReplaceStart" => n <= 6 /\ "register" = StopReplaceStart[7 - n]
      BY <3>1, <3>2
    <3>4. n <= 6 => n \in 1 .. 6
      BY <3>2, StepCount
    <3> QED BY <3>1, <3>3, <3>4, StepPlaces
  <2>3. svc.reg = "none" /\ svc.state = "stopped" /\ host.pc = "none"
    BY <1>0, <2>2 DEF CommandsIInv, Unclaimed, Hosted, CommandsTyped, Services
  <2>4. UNCHANGED <<platform, files, host, issued>> /\ mishaps' \in 0 .. MaxMishaps
    BY <1>0, <1>3, CommandsAssumption DEF Register, Mishap
  <2>5. CASE svc' = [reg |-> InstallTarget, state |-> "stopped"] /\ Onwards
    <3>1. /\ Planned(cli') /\ cli'.plan = cli.plan
          /\ Len(cli'.todo) > 0 => Follows(cli.todo[1], cli'.todo[1])
      BY <1>0, <2>2, <2>5, CommandGoesOn
    <3>2. svc' \in Services /\ svc'.reg = InstallTarget /\ svc'.state = "stopped"
      BY <2>5 DEF Services, InstallTarget
    <3>3. CommandsTyped'
      BY <1>0, <2>4, <3>2 DEF CommandsTyped, InstallTarget
    <3>4. Hosted'
      BY <2>3, <2>4, <3>2 DEF Hosted
    <3>5. Unclaimed' /\ Replaced'
      BY <2>2, <3>1 DEF Unclaimed, Follows, Replaced
    <3> QED BY <3>1, <3>3, <3>4, <3>5 DEF CommandsIInv
  <2>6. CASE Err /\ UNCHANGED svc
    <3>1. CommandsTyped' /\ Hosted'
      BY <1>0, <2>4, <2>6 DEF CommandsTyped, Hosted, InstallTarget
    <3> QED BY <1>0, <2>6, <3>1, CommandFails DEF CommandsIInv, Unclaimed, Replaced
  <2> QED BY <1>3, <2>5, <2>6 DEF Register
<1> QED BY <1>1, <1>2, <1>3

(* A request to stop is all that a waiting command does.                   *)
LEMMA StopsKeep ==
  ASSUME CommandsIInv, NEW status, Halt(status) \/ StopRequest(status) \/ StopConfirm(status)
                                   \/ StartConfirm(status) \/ StopReturned
  PROVE  CommandsIInv'
<1>0. Planned(cli) /\ host \in DaemonRecs /\ mishaps \in 0 .. MaxMishaps
  BY DEF CommandsIInv, CommandsTyped
<1>1. PICK step \in {"halt", "stop", "stopped", "started", "stopping"} : At(step)
  BY DEF Halt, StopRequest, StopConfirm, StartConfirm, StopReturned
<1>2. cli.todo # <<>> /\ cli.todo[1] = step
  BY <1>0, <1>1, CommandAt
<1>3. Onwards \/ Err
  BY DEF Halt, StopRequest, StopConfirm, StartConfirm, StopReturned
<1>4. UNCHANGED <<platform, files, svc, issued, mishaps>>
  BY DEF Halt, StopRequest, StopConfirm, StartConfirm, StopReturned, Still
<1>5. host' \in DaemonRecs /\ host'.pc = host.pc /\ host'.ver = host.ver
  BY <1>0 DEF Halt, StopRequest, StopConfirm, StartConfirm, StopReturned, Still, DaemonRecs
<1>6. cli.todo[1] # "absent" /\ cli.todo[1] # "replace"
  BY <1>1, <1>2
<1> QED BY <1>0, <1>2, <1>3, <1>4, <1>5, <1>6, WaitingKeeps

(* The daemon goes, or comes, while the command takes its step: as if one  *)
(* had followed the other.                                                 *)
LEMMA StepWithDaemon ==
  ASSUME CommandsIInv, Onwards, UNCHANGED <<platform, files, issued, mishaps>>, NEW step, At(step),
         step \in {"start", "stopping", "unregister"},
         svc' \in Services, svc'.reg \in {"none", InstallTarget}, host' \in DaemonRecs,
         host'.pc # "none" <=> svc'.state # "stopped", svc'.state # "stopped" => svc'.reg # "none",
         host'.pc # "none" => /\ host'.ver = files[svc'.reg] /\ host'.ver \in Versions
                              /\ platform # "linux" => svc'.reg = "data"
  PROVE  CommandsIInv'
<1>0. Planned(cli) /\ cli.result \in {"none", "Ok", "Err"}
  BY DEF CommandsIInv, Planned, CommandRecs
<1>1. /\ cli.todo # <<>> /\ Len(cli.todo) \in Nat /\ Len(cli.todo) > 0 /\ cli.todo[1] = step
      /\ cli.plan = "StopReplaceStart" => Len(cli.todo) <= 6 /\ step = StopReplaceStart[7 - Len(cli.todo)]
  BY <1>0, CommandAt
<1>2. /\ Planned(cli') /\ cli'.ver = cli.ver /\ cli'.plan = cli.plan /\ cli'.result # "Err"
      /\ Len(cli'.todo) = Len(cli.todo) - 1
      /\ Len(cli'.todo) > 0 => Follows(cli.todo[1], cli'.todo[1])
  BY <1>0, <1>1, CommandGoesOn
<1>3. CommandsTyped'
  BY DEF CommandsIInv, CommandsTyped, InstallTarget
<1>4. Hosted'
  BY DEF Hosted
<1>5. Unclaimed'
  BY <1>1, <1>2 DEF Unclaimed, Follows
<1>6. PICK n, m : n = Len(cli.todo) /\ n \in Nat /\ n > 0 /\ m = Len(cli'.todo) /\ m = n - 1
  BY <1>1, <1>2
<1>7. ASSUME cli.plan = "StopReplaceStart", m <= 2
      PROVE  files["data"] = cli.ver
  <2>1. n <= 6 /\ step = StopReplaceStart[7 - n]
    BY <1>1, <1>6, <1>7
  <2>2. n \in 1 .. 6
    BY <1>6, <2>1, StepCount
  <2>3. n # 3
    BY <2>1, <2>2, StepPlaces
  <2>4. n <= 2
    BY <1>6, <1>7, <2>3, StepCount
  <2>5. cli.result = "none"
    BY <1>0, <1>1 DEF Planned
  <2> QED BY <1>6, <1>7, <2>4, <2>5 DEF CommandsIInv, Replaced
<1>8. files' = files /\ platform' = platform
  OBVIOUS
<1>9. Replaced'
  BY <1>2, <1>6, <1>7, <1>8 DEF Replaced
<1> QED BY <1>2, <1>3, <1>4, <1>5, <1>9 DEF CommandsIInv

(* start, the time out of stop, and unregister.                            *)
LEMMA StartsKeep ==
  ASSUME CommandsIInv, NEW status, StartRequest(status) \/ StopTimesOut \/ Unregister
  PROVE  CommandsIInv'
<1>0. /\ Planned(cli) /\ CommandsTyped /\ Hosted /\ host \in DaemonRecs /\ mishaps \in 0 .. MaxMishaps
      /\ svc \in Services /\ svc.reg \in {"none", InstallTarget}
  BY DEF CommandsIInv, CommandsTyped
<1>1. CASE Err /\ UNCHANGED <<svc, host>>
  <2>1. UNCHANGED <<platform, files, issued, mishaps>>
    BY <1>1 DEF StartRequest, StopTimesOut, Unregister
  <2>2. CommandsTyped' /\ Hosted'
    BY <1>0, <1>1, <2>1 DEF CommandsTyped, Hosted, InstallTarget
  <2> QED BY <1>0, <1>1, <2>2, CommandFails DEF CommandsIInv, Unclaimed, Replaced
<1>2. CASE StartRequest(status) /\ status = "Stopped" /\ Launches
  <2>1. DaemonLaunched /\ Onwards /\ At("start") /\ UNCHANGED <<platform, files, issued, mishaps>>
    BY <1>2 DEF StartRequest
  <2> QED BY <1>0, <1>2, <2>1, LaunchedIsNew, StepWithDaemon
<1>3. CASE StopTimesOut
  <2>1. Exited /\ Onwards /\ At("stopping") /\ UNCHANGED <<platform, files, issued, mishaps>>
    BY <1>3 DEF StopTimesOut
  <2>2. svc' \in Services /\ svc'.reg = svc.reg /\ svc'.state = "stopped" /\ host' \in DaemonRecs /\ host'.pc = "none"
    BY <2>1, ExitedIsGone
  <2> QED BY <1>0, <2>1, <2>2, StepWithDaemon
<1>4. CASE Unregister /\ host.pc = "none"
  <2>1. /\ Onwards /\ At("unregister") /\ UNCHANGED <<platform, files, host, issued, mishaps>>
        /\ svc' = [reg |-> "none", state |-> "stopped"]
    BY <1>4 DEF Unregister
  <2>2. svc' \in Services /\ svc'.reg = "none" /\ svc'.state = "stopped"
    BY <2>1 DEF Services
  <2>3. host' \in DaemonRecs /\ host'.pc = "none"
    BY <1>0, <1>4, <2>1
  <2> QED BY <1>0, <2>1, <2>2, <2>3, StepWithDaemon
<1> QED BY <1>1, <1>2, <1>3, <1>4 DEF StartRequest, Unregister

(***************************************************************************)
(* The invariant of the commands and the daemon they install, start, stop, *)
(* update and remove.                                                      *)
(***************************************************************************)
THEOREM CommandsInvariant == CommandsSpec => []CommandsIInv
<1>1. CommandsIInv /\ [CommandsNext]_cvars => CommandsIInv'
  <2> SUFFICES ASSUME CommandsIInv, [CommandsNext]_cvars PROVE CommandsIInv'
    OBVIOUS
  <2>1. CASE UNCHANGED cvars
    BY <2>1 DEF cvars, CommandsIInv, CommandsTyped, Planned, Hosted, Unclaimed, Replaced, InstallTarget
  <2>2. CASE CommandStep
    <3>1. CASE Replace
      BY <3>1, CopyKeeps DEF Replace, UpdateTarget, Places
    <3> QED BY <2>2, <3>1, InstallKeeps, StopsKeep, StartsKeep, RestartKeeps, PlanKeeps DEF CommandStep
  <2>3. ASSUME NEW op \in Ops, NEW v \in Versions, Issue(op, v) PROVE CommandsIInv'
    BY <2>3, IssueKeeps
  <2> QED BY <2>1, <2>2, <2>3, DaemonKeeps DEF CommandsNext, Ops
<1> QED BY <1>1, CommandsInitially, PTL DEF CommandsSpec

(***************************************************************************)
(* The state is what the commands and the daemon can make of it.           *)
(***************************************************************************)
THEOREM CommandsTypes == CommandsSpec => []CommandsTypeOK
<1>1. CommandsIInv => CommandsTypeOK
  BY DEF CommandsIInv, CommandsTyped, Planned, CommandRecs, Services, DaemonRecs, Hosted, CommandsTypeOK
<1> QED BY <1>1, CommandsInvariant, PTL

(***************************************************************************)
(* An update that stopped, replaced and started the service and said it    *)
(* succeeded has left no older daemon running, for any number of versions, *)
(* commands and crashes and whoever else starts the service meanwhile.     *)
(***************************************************************************)
THEOREM UpdateIsEffective == CommandsSpec => []UpdateTakesEffect
<1>1. CommandsIInv => UpdateTakesEffect
  <2> SUFFICES ASSUME CommandsIInv, Updated, platform # "linux", host.pc # "none" PROVE host.ver >= cli.ver
    BY DEF UpdateTakesEffect
  <2>1. cli.todo \in Seq(StepNames) /\ cli.ver \in Versions
    BY DEF CommandsIInv, Planned, CommandRecs
  <2>2. Len(cli.todo) <= 2
    <3>1. Len(cli.todo) = 0
      BY DEF CommandsIInv, Planned, Updated
    <3> QED BY <3>1
  <2>3. host.ver = cli.ver
    BY <2>2 DEF CommandsIInv, Replaced, Updated
  <2> QED BY <2>1, <2>3, CommandsAssumption DEF Versions
<1> QED BY <1>1, CommandsInvariant, PTL

-----------------------------------------------------------------------------
(***************************************************************************)
(* The date of premium: a line's time of day is compared with the one      *)
(* before it, or at first with the clock; less than half a day apart, the  *)
(* order of the two tells whether midnight lies between them.              *)
(***************************************************************************)
Clocks == [known: BOOLEAN, date: Nat, last: Nat, hour: Nat, true: Nat, unix: Nat]
Dated ==
  /\ premium \in Clocks
  /\ premium.known => /\ premium.true = premium.date * Day + premium.last /\ premium.last \in 0 .. Day - 1
                      /\ premium.unix = premium.true

(* A time is its day and its hour, ...                                     *)
LEMMA DayAndHour ==
  ASSUME NEW day \in Nat \ {0}, NEW t \in Nat
  PROVE  t = (t \div day) * day + (t % day) /\ t % day \in 0 .. day - 1 /\ t \div day \in Nat
OBVIOUS

(* ... which are unique.                                                   *)
LEMMA OneDay ==
  ASSUME NEW day \in Nat \ {0}, NEW q \in Nat, NEW h \in 0 .. day - 1
  PROVE  (q * day + h) % day = h /\ (q * day + h) \div day = q
OBVIOUS

(* One day has two halves.                                                 *)
LEMMA HalfDay == \A h \in 0 .. Day \div 2 - 1 : Day \in Nat \ {0} /\ Day = 2 * (Day \div 2) /\ Day \div 2 \in Nat \ {0}
<1>1. Day \in Nat /\ Day % 2 = 0
  BY ParserAssumption
<1> QED BY <1>1

(* Some hours later the hour has grown, or it is the next day.             *)
Shifted(day, q, h, gap, t) ==
  \/ h + gap < day /\ t % day = h + gap /\ t \div day = q
  \/ ~(h + gap < day) /\ t % day = h + gap - day /\ t \div day = q + 1

(* That is what the calendar does.                                         *)
LEMMA Later ==
  ASSUME NEW day \in Nat \ {0}, NEW q \in Nat, NEW h \in 0 .. day - 1, NEW gap \in Nat, gap < day,
         NEW t, t = q * day + h + gap
  PROVE  Shifted(day, q, h, gap, t)
<1> USE DEF Shifted
<1>1. CASE h + gap < day
  <2>1. PICK x : x = h + gap /\ x \in 0 .. day - 1
    BY <1>1
  <2>2. t = q * day + x
    BY <2>1
  <2> QED BY <1>1, <2>1, <2>2, OneDay
<1>2. CASE ~(h + gap < day)
  <2>1. PICK x, p : x = h + gap - day /\ x \in 0 .. day - 1 /\ p = q + 1 /\ p \in Nat
    BY <1>2
  <2>2. t = p * day + x
    BY <2>1
  <2>3. (p * day + x) % day = x /\ (p * day + x) \div day = p
    BY <2>1, OneDay
  <2>4. t % day = x /\ t \div day = p
    BY <2>2, <2>3
  <2> QED BY <1>2, <2>1, <2>4
<1> QED BY <1>1, <1>2

(* premium_unix_ms infers the true day, from the line before or the clock. *)
LEMMA DayInferred ==
  ASSUME NEW half \in Nat \ {0}, NEW day, day = 2 * half, NEW q \in Nat, NEW h \in 0 .. day - 1,
         NEW gap \in 0 .. half - 1, NEW hour, NEW d,
         \/ h + gap < day /\ hour = h + gap /\ d = q
         \/ ~(h + gap < day) /\ hour = h + gap - day /\ d = q + 1
  PROVE  /\ (IF h - hour > half THEN q + 1 ELSE q) = d
         /\ (IF h - hour > half THEN d - 1 ELSE d) = q
OBVIOUS

(* The date of a line is that of the day it was printed.                   *)
LEMMA PremiumKeeps == Dated /\ PremiumNext => Dated'
<1> SUFFICES ASSUME Dated, PremiumNext PROVE Dated'
  OBVIOUS
<1>1. PICK gap \in 0 .. Day, delay \in 0 .. Day \div 2 - 1 :
        (premium.known => gap < Day \div 2) /\ PushPremium(gap, delay)
  BY DEF PremiumNext
<1>2. PICK half : half = Day \div 2
  OBVIOUS
<1>3. Day \in Nat \ {0} /\ Day = 2 * half /\ half \in Nat \ {0}
  BY <1>1, <1>2, HalfDay
<1>4. PICK t, hour, date : /\ t = premium.true + gap /\ hour = t % Day
                           /\ date = PremiumDate(premium, hour, t + delay)
  OBVIOUS
<1>5. premium' = [known |-> TRUE, date |-> date, last |-> hour, hour |-> hour, true |-> t,
                  unix |-> date * Day + hour]
  BY <1>1, <1>4 DEF PushPremium
<1>6. premium.true \in Nat /\ premium.date \in Nat /\ gap \in Nat
  BY <1>1, <1>3 DEF Dated, Clocks
<1>7. t \in Nat
  BY <1>4, <1>6
<1>8. t = (t \div Day) * Day + hour /\ hour \in 0 .. Day - 1 /\ t \div Day \in Nat
  BY <1>3, <1>4, <1>7, DayAndHour
<1>a. Day \in Nat \ {0} /\ hour \in 0 .. Day - 1
  BY <1>3, <1>8
<1>9. date = t \div Day
  <2>1. CASE premium.known
    <3>1. PICK last, day : last = premium.last /\ day = premium.date
      OBVIOUS
    <3>2. /\ premium.true = day * Day + last /\ last \in 0 .. Day - 1 /\ day \in Nat
          /\ gap \in 0 .. half - 1
      BY <1>1, <1>2, <1>3, <1>6, <2>1, <3>1 DEF Dated
    <3>3. t = day * Day + last + gap
      BY <1>4, <3>2
    <3>4. date = IF last - (t % Day) > half THEN day + 1 ELSE day
      BY <1>2, <1>4, <2>1, <3>1 DEF PremiumDate
    <3>5. gap < Day
      BY <1>3, <3>2
    <3>6. PICK r, d : r = t % Day /\ d = t \div Day
      OBVIOUS
    <3>7. \/ last + gap < Day /\ r = last + gap /\ d = day
          \/ ~(last + gap < Day) /\ r = last + gap - Day /\ d = day + 1
      <4>1. last \in 0 .. Day - 1 /\ day \in Nat /\ gap \in Nat
        BY <1>6, <3>2
      <4>2. Shifted(Day, day, last, gap, t)
        BY <1>a, <3>3, <3>5, <4>1, Later
      <4> QED BY <3>6, <4>2, Zenon DEF Shifted
    <3>8. (IF last - r > half THEN day + 1 ELSE day) = d
      BY <1>3, <3>2, <3>7, DayInferred
    <3> QED BY <3>4, <3>6, <3>8
  <2>2. CASE ~premium.known
    <3>1. PICK day, o : day = t \div Day /\ o = t + delay
      OBVIOUS
    <3>2. o = day * Day + hour + delay /\ day \in Nat
      BY <1>8, <3>1
    <3>3. date = IF hour - (o % Day) > half THEN (o \div Day) - 1 ELSE o \div Day
      BY <1>2, <1>4, <2>2, <3>1 DEF PremiumDate
    <3>4. delay \in 0 .. half - 1
      BY <1>1, <1>2
    <3>5. delay \in Nat /\ delay < Day
      BY <1>3, <3>4
    <3>6. PICK r, d : r = o % Day /\ d = o \div Day
      OBVIOUS
    <3>7. \/ hour + delay < Day /\ r = hour + delay /\ d = day
          \/ ~(hour + delay < Day) /\ r = hour + delay - Day /\ d = day + 1
      <4>1. day \in Nat /\ o = day * Day + hour + delay
        BY <3>2
      <4>2. Shifted(Day, day, hour, delay, o)
        BY <1>a, <3>5, <4>1, Later
      <4> QED BY <3>6, <4>2, Zenon DEF Shifted
    <3>8. (IF hour - r > half THEN d - 1 ELSE d) = day
      <4>1. day \in Nat
        BY <3>2
      <4> QED BY <1>3, <1>a, <3>4, <3>7, <4>1, DayInferred
    <3> QED BY <3>1, <3>3, <3>6, <3>8
  <2> QED BY <2>1, <2>2
<1>10. date * Day + hour = t /\ date \in Nat /\ hour \in Nat
  BY <1>3, <1>8, <1>9
<1>11. premium' \in Clocks
  BY <1>5, <1>7, <1>10 DEF Clocks
<1> QED BY <1>5, <1>8, <1>9, <1>10, <1>11 DEF Dated

(***************************************************************************)
(* With lines in order and less than half a day apart, the date that is    *)
(* inferred for a line of clash premium is the true one, whenever midnight *)
(* is and for any length of the day.                                       *)
(***************************************************************************)
THEOREM PremiumIsDated == ParserSpec => []PremiumDated
<1>1. ParserInit => Dated
  BY DEF ParserInit, Dated, Clocks
<1>2. Dated /\ [ParserSteps]_lvars => Dated'
  <2> SUFFICES ASSUME Dated, [ParserSteps]_lvars PROVE Dated'
    OBVIOUS
  <2>1. CASE premium' = premium
    BY <2>1 DEF Dated
  <2>2. CASE ParserNext
    <3>1. premium' = premium
      BY <2>2 DEF ParserNext, PushHeader, PushRoot, PushPlain, PushFinish, Arrives
    <3> QED BY <2>1, <3>1
  <2> QED BY <2>1, <2>2, PremiumKeeps DEF ParserSteps, lvars
<1>3. Dated => PremiumDated
  BY DEF Dated, PremiumDated
<1> QED BY <1>1, <1>2, <1>3, PTL DEF ParserSpec

-----------------------------------------------------------------------------
(***************************************************************************)
(* The log parser.  Whatever the order of lines and streams, the frames    *)
(* that left and the ones that wait form one set in which every line has   *)
(* exactly one place: a record that ends moves from the one to the other,  *)
(* and only a new line changes the set.  Quiet says which lines a record   *)
(* may still claim.                                                        *)
(***************************************************************************)
(* The least number of a set of numbers, which stands for induction.       *)
LEMMA LeastNumber ==
  ASSUME NEW T \in SUBSET Nat, T # {}
  PROVE  \E m \in T : \A t \in T : m <= t
<1>1. IsWellFoundedOn(OpToRel(<, Nat), Nat)
  BY NatLessThanWellFounded
<1>2. PICK x \in T : \A y \in T : ~(<<y, x>> \in OpToRel(<, Nat))
  BY <1>1, WFMin
<1>3. \A y \in T : ~(y < x)
  BY <1>2 DEF OpToRel
<1> QED BY <1>3

(***************************************************************************)
(* The frames of the parser                                                *)
(***************************************************************************)
ParserFrames ==
  [root: Nat, stream: Streams \union {"none"}, level: Nat, raw: Nat, message: Nat, conts: Seq(Nat),
   used: Nat, truncated: BOOLEAN]
PrintedLines == [stream: Streams, level: Nat]

Elems(q) == {q[i] : i \in 1 .. Len(q)}
Once(q) == \A i, j \in 1 .. Len(q) : q[i] = q[j] => i = j

Waits(s) == IF pendings[s] = NoFrame THEN {} ELSE {pendings[s]}
AllFrames == Elems(out) \union Waits("stdout") \union Waits("stderr")

ParserShape ==
  /\ lineNo \in Nat /\ printed \in Seq(PrintedLines) /\ Len(printed) = lineNo
  /\ out \in Seq(ParserFrames) /\ pendings \in [Streams -> ParserFrames]
  /\ newest \in Streams \union {"none"} /\ ended \in BOOLEAN

(* A frame stands for a line with its level and for lines of its stream    *)
(* that have none, since which its stream had no other record.             *)
Quiet(f, n) == \A m \in f.root + 1 .. n : printed[m].stream = f.stream => printed[m].level = 0
GoodFrame(f) ==
  /\ f.stream \in Streams /\ f.raw <= MaxText /\ f.message <= MaxText
  /\ f.root \in 1 .. lineNo /\ LinesOf(f) \subseteq 1 .. lineNo
  /\ f.level \in {2, 3, 4} /\ printed[f.root].level = f.level
  /\ \A n \in LinesOf(f) \ {f.root} :
       printed[n].stream = f.stream /\ printed[n].level = 0 /\ Quiet(f, n)

Apart == \A f, g \in AllFrames : f # g => LinesOf(f) \intersect LinesOf(g) = {}
Covered == \A n \in 1 .. lineNo : \E f \in AllFrames : n \in LinesOf(f)
StillOpen == \A s \in Streams : pendings[s] # NoFrame => pendings[s].stream = s /\ Quiet(pendings[s], lineNo)
OnceOut == Once(out) /\ \A s \in Streams : Waits(s) \intersect Elems(out) = {}

ParserIInv ==
  /\ ParserShape /\ (\A f \in AllFrames : GoodFrame(f)) /\ Apart /\ Covered /\ StillOpen /\ OnceOut
  /\ ended => \A s \in Streams : pendings[s] = NoFrame

(***************************************************************************)
(* Sequences of frames                                                     *)
(***************************************************************************)
(* Two sequences in a row.                                                 *)
LEMMA InARow ==
  ASSUME NEW a \in Seq(ParserFrames), NEW b \in Seq(ParserFrames)
  PROVE  /\ a \o b \in Seq(ParserFrames) /\ Len(a \o b) = Len(a) + Len(b)
         /\ Len(a) \in Nat /\ Len(b) \in Nat
         /\ \A i \in 1..Len(a) : (a \o b)[i] = a[i]
         /\ \A i \in 1..Len(b) : (a \o b)[Len(a) + i] = b[i]
  OBVIOUS

(* They have the frames of both, each once if they share none.             *)
LEMMA RowElems ==
  ASSUME NEW a \in Seq(ParserFrames), NEW b \in Seq(ParserFrames)
  PROVE  /\ Elems(a \o b) = Elems(a) \union Elems(b)
         /\ Once(a) /\ Once(b) /\ Elems(a) \intersect Elems(b) = {} => Once(a \o b)
<1>1. PICK c : c = a \o b OBVIOUS
<1>2. PICK m \in Nat, n \in Nat : m = Len(a) /\ n = Len(b) OBVIOUS
<1>3. /\ Len(c) = m + n
      /\ \A i \in 1..m : c[i] = a[i]
      /\ \A i \in 1..n : c[m + i] = b[i]
  BY <1>1, <1>2, InARow
<1>4. \A i \in 1 .. (m + n) : \/ i \in 1..m /\ c[i] = a[i]
                              \/ i - m \in 1..n /\ c[i] = b[i - m]
  <2> TAKE i \in 1 .. (m + n)
  <2>1. CASE i <= m BY <1>3, <2>1
  <2>2. CASE ~(i <= m)
    <3>1. i - m \in 1..n /\ i = m + (i - m) BY <1>2, <2>2
    <3> QED BY <1>3, <3>1
  <2> QED BY <2>1, <2>2
<1>5. \A x \in Elems(c) : x \in Elems(a) \union Elems(b)
  BY <1>2, <1>3, <1>4 DEF Elems
<1>6. \A x \in Elems(a) : x \in Elems(c)
  <2> TAKE x \in Elems(a)
  <2>1. PICK i \in 1..m : x = a[i] BY <1>2 DEF Elems
  <2>2. i \in 1 .. Len(c) /\ x = c[i] BY <1>2, <1>3, <2>1
  <2> QED BY <2>2 DEF Elems
<1>7. \A x \in Elems(b) : x \in Elems(c)
  <2> TAKE x \in Elems(b)
  <2>1. PICK i \in 1..n : x = b[i] BY <1>2 DEF Elems
  <2>2. m + i \in 1 .. Len(c) /\ x = c[m + i] BY <1>2, <1>3, <2>1
  <2> QED BY <2>2 DEF Elems
<1>8. ASSUME Once(a), Once(b), Elems(a) \intersect Elems(b) = {} PROVE Once(c)
  <2> SUFFICES ASSUME NEW i \in 1..Len(c), NEW j \in 1..Len(c), c[i] = c[j] PROVE i = j BY DEF Once
  <2>1. i \in 1 .. (m + n) /\ j \in 1 .. (m + n) BY <1>3
  <2>2. CASE i \in 1..m /\ c[i] = a[i]
    <3>1. CASE j \in 1..m /\ c[j] = a[j] BY <1>2, <1>8, <2>2, <3>1 DEF Once
    <3>2. CASE j - m \in 1..n /\ c[j] = b[j - m]
      <4>1. a[i] \in Elems(a) /\ b[j - m] \in Elems(b) BY <1>2, <2>2, <3>2 DEF Elems
      <4> QED BY <1>8, <2>2, <3>2, <4>1
    <3> QED BY <1>4, <2>1, <3>1, <3>2
  <2>3. CASE i - m \in 1..n /\ c[i] = b[i - m]
    <3>1. CASE j \in 1..m /\ c[j] = a[j]
      <4>1. a[j] \in Elems(a) /\ b[i - m] \in Elems(b) BY <1>2, <2>3, <3>1 DEF Elems
      <4> QED BY <1>8, <2>3, <3>1, <4>1
    <3>2. CASE j - m \in 1..n /\ c[j] = b[j - m]
      <4>1. i - m = j - m BY <1>2, <1>8, <2>3, <3>2 DEF Once
      <4> QED BY <1>2, <2>1, <4>1
    <3> QED BY <1>4, <2>1, <3>1, <3>2
  <2> QED BY <1>4, <2>1, <2>2, <2>3
<1> QED BY <1>1, <1>5, <1>6, <1>7, <1>8

(* One frame more.                                                         *)
LEMMA OneMore ==
  ASSUME NEW a \in Seq(ParserFrames), NEW f \in ParserFrames
  PROVE  /\ Append(a, f) \in Seq(ParserFrames) /\ Elems(Append(a, f)) = Elems(a) \union {f}
         /\ Once(a) /\ f \notin Elems(a) => Once(Append(a, f))
<1>1. PICK c : c = Append(a, f) OBVIOUS
<1>2. PICK m \in Nat : m = Len(a) OBVIOUS
<1>3. c \in Seq(ParserFrames) /\ Len(c) = m + 1 /\ c[m + 1] = f /\ \A i \in 1..m : c[i] = a[i]
  BY <1>1, <1>2
<1>4. \A i \in 1 .. (m + 1) : (i \in 1..m /\ c[i] = a[i]) \/ (i = m + 1 /\ c[i] = f)
  BY <1>2, <1>3
<1>5. Elems(c) = Elems(a) \union {f}
  <2>1. \A x \in Elems(c) : x \in Elems(a) \union {f} BY <1>2, <1>3, <1>4 DEF Elems
  <2>2. \A x \in Elems(a) : x \in Elems(c)
    <3> TAKE x \in Elems(a)
    <3>1. PICK i \in 1..m : x = a[i] BY <1>2 DEF Elems
    <3>2. i \in 1 .. Len(c) /\ x = c[i] BY <1>2, <1>3, <3>1
    <3> QED BY <3>2 DEF Elems
  <2>3. f \in Elems(c)
    <3>1. m + 1 \in 1 .. Len(c) /\ f = c[m + 1] BY <1>2, <1>3
    <3> QED BY <3>1 DEF Elems
  <2> QED BY <2>1, <2>2, <2>3
<1>6. ASSUME Once(a), f \notin Elems(a) PROVE Once(c)
  <2> SUFFICES ASSUME NEW i \in 1..Len(c), NEW j \in 1..Len(c), c[i] = c[j] PROVE i = j BY DEF Once
  <2>1. i \in 1 .. (m + 1) /\ j \in 1 .. (m + 1) BY <1>3
  <2>2. \A k \in 1..m : a[k] # f BY <1>2, <1>6 DEF Elems
  <2>3. CASE i \in 1..m /\ j \in 1..m BY <1>2, <1>3, <1>6, <2>3 DEF Once
  <2> QED BY <1>4, <2>1, <2>2, <2>3
<1> QED BY <1>1, <1>3, <1>5, <1>6

(* What waits, as a sequence.                                              *)
LEMMA TakenIs ==
  ASSUME ParserShape, NEW s \in Streams
  PROVE  /\ Taken(s) \in Seq(ParserFrames) /\ Elems(Taken(s)) = Waits(s) /\ Once(Taken(s))
         /\ Waits(s) \subseteq ParserFrames
<1>1. pendings[s] \in ParserFrames BY DEF ParserShape
<1>2. CASE pendings[s] = NoFrame
  <2>1. Taken(s) = <<>> /\ Waits(s) = {} BY <1>2 DEF Taken, Waits
  <2>2. <<>> \in Seq(ParserFrames) /\ Len(<<>>) = 0 OBVIOUS
  <2>3. Elems(<<>>) = {} /\ Once(<<>>) BY <2>2 DEF Elems, Once
  <2> QED BY <2>1, <2>2, <2>3
<1>3. CASE pendings[s] # NoFrame
  <2>1. PICK f \in ParserFrames : f = pendings[s] BY <1>1
  <2>2. Taken(s) = <<f>> /\ Waits(s) = {f} BY <1>3, <2>1 DEF Taken, Waits
  <2>3. <<f>> \in Seq(ParserFrames) /\ Len(<<f>>) = 1 /\ <<f>>[1] = f OBVIOUS
  <2>4. Elems(<<f>>) = {f} BY <2>3 DEF Elems
  <2>5. Once(<<f>>) BY <2>3 DEF Once
  <2> QED BY <2>2, <2>3, <2>4, <2>5
<1> QED BY <1>2, <1>3

(* What the parser has, in the order the properties read it.               *)
LEMMA EverywhereIs ==
  ASSUME ParserShape, StillOpen, OnceOut
  PROVE  /\ Everywhere \in Seq(ParserFrames) /\ Elems(Everywhere) = AllFrames /\ Once(Everywhere)
         /\ AllFrames \subseteq ParserFrames
<1> DEFINE a == Taken("stdout")
           b == Taken("stderr")
<1>1. /\ a \in Seq(ParserFrames) /\ Elems(a) = Waits("stdout") /\ Once(a)
      /\ b \in Seq(ParserFrames) /\ Elems(b) = Waits("stderr") /\ Once(b)
      /\ Waits("stdout") \subseteq ParserFrames /\ Waits("stderr") \subseteq ParserFrames
  BY TakenIs DEF Streams
<1> HIDE DEF a, b
<1>2. out \in Seq(ParserFrames) /\ Once(out) BY DEF ParserShape, OnceOut
<1>3. /\ Waits("stdout") \intersect Elems(out) = {} /\ Waits("stderr") \intersect Elems(out) = {}
  BY DEF OnceOut, Streams
<1>4. Waits("stdout") \intersect Waits("stderr") = {}
  BY DEF StillOpen, Waits, Streams
<1>5. PICK c : c = out \o a OBVIOUS
<1>6. c \in Seq(ParserFrames) /\ Elems(c) = Elems(out) \union Waits("stdout") /\ Once(c)
  BY <1>1, <1>2, <1>3, <1>5, InARow, RowElems
<1>7. c \o b \in Seq(ParserFrames) /\ Elems(c \o b) = Elems(c) \union Waits("stderr") /\ Once(c \o b)
  BY <1>1, <1>3, <1>4, <1>6, InARow, RowElems
<1>8. Everywhere = c \o b BY <1>5 DEF Everywhere, a, b
<1>9. Elems(out) \subseteq ParserFrames
  <2>1. \A i \in 1 .. Len(out) : out[i] \in ParserFrames BY <1>2
  <2> QED BY <2>1 DEF Elems
<1> QED BY <1>1, <1>6, <1>7, <1>8, <1>9 DEF AllFrames

(* A new record: the one that waits leaves, and the new one waits or       *)
(* leaves as well.                                                         *)
LEMMA EmitIs ==
  ASSUME ParserIInv, NEW s \in Streams, NEW f \in ParserFrames, f # NoFrame, f \notin AllFrames,
         NEW hold \in BOOLEAN, Emit(s, f, hold)
  PROVE  /\ AllFrames' = AllFrames \union {f} /\ OnceOut'
         /\ out' \in Seq(ParserFrames) /\ pendings' \in [Streams -> ParserFrames]
         /\ newest' \in Streams \union {"none"}
         /\ \A t \in Streams : pendings'[t] # NoFrame =>
              (t = s /\ pendings'[t] = f) \/ (t # s /\ pendings'[t] = pendings[t])
<1>1. PICK c : c = out \o Taken(s) OBVIOUS
<1>2. /\ Taken(s) \in Seq(ParserFrames) /\ Elems(Taken(s)) = Waits(s) /\ Once(Taken(s))
  BY TakenIs DEF ParserIInv
<1>3. /\ out \in Seq(ParserFrames) /\ Once(out) /\ \A t \in Streams : Waits(t) \intersect Elems(out) = {}
  BY DEF ParserIInv, ParserShape, OnceOut
<1>4. c \in Seq(ParserFrames) /\ Elems(c) = Elems(out) \union Waits(s) /\ Once(c)
  BY <1>1, <1>2, <1>3, InARow, RowElems
<1>5. f \notin Elems(c) /\ \A t \in Streams : f \notin Waits(t)
  BY <1>4 DEF AllFrames, Streams
<1>6. pendings \in [Streams -> ParserFrames] /\ NoFrame \in ParserFrames
      /\ newest \in Streams \union {"none"}
  <2>1. <<>> \in Seq(Nat) OBVIOUS
  <2> QED BY <2>1 DEF ParserIInv, ParserShape, NoFrame, ParserFrames
<1>7. Waits("stdout") \intersect Waits("stderr") = {}
  BY DEF ParserIInv, StillOpen, Waits, Streams
<1>8. CASE hold
  <2>1. out' = c /\ newest' = s /\ pendings' = [pendings EXCEPT ![s] = f]
    BY <1>1, <1>8 DEF Emit
  <2>2. \A t \in Streams : Waits(t)' = IF t = s THEN {f} ELSE Waits(t)
    BY <1>6, <2>1 DEF Waits
  <2>3. AllFrames' = AllFrames \union {f}
    <3>1. AllFrames' = Elems(c) \union Waits("stdout")' \union Waits("stderr")' BY <2>1 DEF AllFrames, Elems
    <3> QED BY <1>4, <2>2, <3>1 DEF AllFrames, Streams
  <2>4. OnceOut'
    <3>1. Once(out)' /\ Elems(out)' = Elems(c) BY <1>4, <2>1 DEF Once, Elems
    <3>2. \A t \in Streams : Waits(t)' \intersect Elems(c) = {}
      BY <1>3, <1>4, <1>5, <1>7, <2>2 DEF Streams
    <3> QED BY <3>1, <3>2 DEF OnceOut
  <2> QED BY <1>4, <1>6, <2>1, <2>3, <2>4
<1>9. CASE ~hold
  <2>1. out' = Append(c, f) /\ newest' = newest /\ pendings' = [pendings EXCEPT ![s] = NoFrame]
    BY <1>1, <1>9 DEF Emit
  <2>2. \A t \in Streams : Waits(t)' = IF t = s THEN {} ELSE Waits(t)
    BY <1>6, <2>1 DEF Waits
  <2>3. /\ Append(c, f) \in Seq(ParserFrames) /\ Elems(Append(c, f)) = Elems(c) \union {f}
        /\ Once(Append(c, f))
    BY <1>4, <1>5, OneMore
  <2>4. Once(out)' /\ Elems(out)' = Elems(c) \union {f} BY <2>1, <2>3 DEF Once, Elems
  <2>5. AllFrames' = AllFrames \union {f}
    <3>1. AllFrames' = Elems(out)' \union Waits("stdout")' \union Waits("stderr")' BY DEF AllFrames
    <3> QED BY <1>4, <2>2, <2>4, <3>1 DEF AllFrames, Streams
  <2>6. OnceOut'
    <3>1. \A t \in Streams : Waits(t)' \intersect (Elems(c) \union {f}) = {}
      BY <1>3, <1>4, <1>5, <1>7, <2>2 DEF Streams
    <3> QED BY <2>4, <3>1 DEF OnceOut
  <2> QED BY <1>6, <2>1, <2>3, <2>5, <2>6
<1> QED BY <1>8, <1>9

(***************************************************************************)
(* Texts                                                                   *)
(***************************************************************************)
(* A text is cut at a boundary at or below its cap.                        *)
LEMMA BoundaryIs ==
  ASSUME NEW n \in Nat, NEW w \in {1, 2}
  PROVE  BoundaryAtOrBelow(n, w) \in 0 .. n
<1>1. CASE w = 1 BY <1>1 DEF BoundaryAtOrBelow
<1>2. CASE w = 2 BY <1>2 DEF BoundaryAtOrBelow
<1> QED BY <1>1, <1>2

(* Both ways of making a text keep it within the cap.                      *)
LEMMA TextsBounded ==
  ASSUME NEW len \in Nat, NEW w \in {1, 2}
  PROVE  /\ TruncateText(len, w).len \in 0 .. MaxText /\ TruncateText(len, w).cut \in BOOLEAN
         /\ \A text \in 0 .. MaxText : /\ AppendBounded(text, len, w).len \in 0 .. MaxText
                                       /\ AppendBounded(text, len, w).cut \in BOOLEAN
<1>1. MaxText \in Nat BY ParserAssumption
<1>2. TruncateText(len, w).len \in 0 .. MaxText /\ TruncateText(len, w).cut \in BOOLEAN
  <2>1. BoundaryAtOrBelow(MaxText, w) \in 0 .. MaxText BY <1>1, BoundaryIs
  <2> QED BY <1>1, <2>1 DEF TruncateText
<1>3. ASSUME NEW text \in 0 .. MaxText
      PROVE  AppendBounded(text, len, w).len \in 0 .. MaxText /\ AppendBounded(text, len, w).cut \in BOOLEAN
  <2>1. CASE text >= MaxText BY <1>1, <2>1 DEF AppendBounded
  <2>2. CASE ~(text >= MaxText) /\ len = 0 BY <1>1, <2>2 DEF AppendBounded
  <2>3. CASE ~(text >= MaxText) /\ len # 0
    <3>1. PICK n : n = Smaller(MaxText - text - 1, len) OBVIOUS
    <3>2. n \in Nat /\ n <= MaxText - text - 1 BY <1>1, <2>3, <3>1 DEF Smaller
    <3>3. PICK e : e = BoundaryAtOrBelow(n, w) OBVIOUS
    <3>4. e \in 0 .. n BY <3>2, <3>3, BoundaryIs
    <3>5. AppendBounded(text, len, w) =
            IF e = 0 THEN [len |-> text, cut |-> TRUE] ELSE [len |-> text + 1 + e, cut |-> e < len]
      BY <2>3, <3>1, <3>3 DEF AppendBounded
    <3>6. CASE e = 0 BY <1>1, <3>5, <3>6
    <3>7. CASE e # 0
      <4>1. PICK x : x = text + 1 + e OBVIOUS
      <4>2. x \in 0 .. MaxText BY <1>1, <2>3, <3>2, <3>4, <4>1
      <4>3. AppendBounded(text, len, w) = [len |-> x, cut |-> e < len] BY <3>5, <3>7, <4>1
      <4>4. (e < len) \in BOOLEAN BY <3>2, <3>4
      <4> QED BY <4>2, <4>3, <4>4
    <3> QED BY <3>6, <3>7
  <2> QED BY <2>1, <2>2, <2>3
<1> QED BY <1>2, <1>3

(* The record of a line.                                                   *)
LEMMA FrameIs ==
  ASSUME NEW s \in Streams, NEW level \in {2, 3, 4}, NEW len \in Nat, NEW header \in {0, 1}, NEW w \in {1, 2},
         lineNo \in Nat
  PROVE  LET f == Frame(s, level, len, header, w) IN
         /\ f \in ParserFrames /\ f.root = lineNo + 1 /\ f.stream = s /\ f.level = level
         /\ f.raw <= MaxText /\ f.message <= MaxText /\ f.conts = <<>> /\ f # NoFrame
<1> DEFINE r == TruncateText(len + header, w)
           m == TruncateText(len, w)
           f == Frame(s, level, len, header, w)
<1>1. /\ r.len \in 0 .. MaxText /\ r.cut \in BOOLEAN /\ m.len \in 0 .. MaxText /\ m.cut \in BOOLEAN
  <2>1. len + header \in Nat OBVIOUS
  <2> QED BY <2>1, TextsBounded
<1>2. f = [NoFrame EXCEPT !.root = lineNo + 1, !.stream = s, !.level = level, !.raw = r.len,
                          !.message = m.len, !.truncated = r.cut \/ m.cut]
  BY DEF Frame
<1> HIDE DEF r, m, f
<1>3. f = [root |-> lineNo + 1, stream |-> s, level |-> level, raw |-> r.len, message |-> m.len,
           conts |-> <<>>, used |-> 0, truncated |-> (r.cut \/ m.cut)]
  BY <1>2 DEF NoFrame
<1>4. <<>> \in Seq(Nat) /\ MaxText \in Nat BY ParserAssumption
<1>5. f \in ParserFrames BY <1>1, <1>3, <1>4 DEF ParserFrames
<1>6. f.root = lineNo + 1 /\ f.root # NoFrame.root BY <1>3 DEF NoFrame
<1> QED BY <1>1, <1>3, <1>4, <1>5, <1>6 DEF f

(* Frame q is p with line n added to it.                                   *)
Extends(q, p, n) ==
  /\ q \in ParserFrames /\ q.root = p.root /\ q.stream = p.stream /\ q.level = p.level
  /\ q.raw <= MaxText /\ q.message <= MaxText /\ q.conts = Append(p.conts, n)

(* One more continuation: the text stays within its cap, the line counts   *)
(* whether or not it fits.                                                 *)
LEMMA AppendedIs ==
  ASSUME NEW p \in ParserFrames, p.raw <= MaxText, p.message <= MaxText, NEW n \in Nat, NEW len \in Nat,
         NEW w \in {1, 2}
  PROVE  Extends(Appended(p, n, len, w), p, n)
<1> PICK q : q = Appended(p, n, len, w) OBVIOUS
<1> SUFFICES Extends(q, p, n) OBVIOUS
<1> USE DEF Extends
<1> DEFINE r == AppendBounded(p.raw, len, w)
           m == AppendBounded(p.message, len, w)
<1>1. MaxText \in Nat /\ MaxContinuations \in Nat BY ParserAssumption
<1>2. /\ r.len \in 0 .. MaxText /\ r.cut \in BOOLEAN /\ m.len \in 0 .. MaxText /\ m.cut \in BOOLEAN
  <2>1. p.raw \in 0 .. MaxText /\ p.message \in 0 .. MaxText BY <1>1 DEF ParserFrames
  <2> QED BY <2>1, TextsBounded
<1>3. Append(p.conts, n) \in Seq(Nat) BY DEF ParserFrames
<1>4. CASE p.used = MaxContinuations
  <2>1. q = [p EXCEPT !.truncated = TRUE, !.conts = Append(p.conts, n)] BY <1>4 DEF Appended, ParserFrames
  <2> QED BY <1>3, <2>1 DEF ParserFrames
<1>5. CASE p.used # MaxContinuations
  <2>1. q = [p EXCEPT !.raw = r.len, !.message = m.len, !.conts = Append(p.conts, n),
                      !.truncated = p.truncated \/ r.cut \/ m.cut,
                      !.used = IF r.cut \/ m.cut THEN MaxContinuations ELSE p.used + 1]
    BY <1>5 DEF Appended, ParserFrames
  <2>2. PICK u, t, c, x, y :
          /\ u = (IF r.cut \/ m.cut THEN MaxContinuations ELSE p.used + 1)
          /\ t = (p.truncated \/ r.cut \/ m.cut) /\ c = Append(p.conts, n) /\ x = r.len /\ y = m.len
    OBVIOUS
  <2> HIDE DEF r, m
  <2>3. u \in Nat
    <3>1. p.used + 1 \in Nat BY DEF ParserFrames
    <3> QED BY <1>1, <2>2, <3>1
  <2>4. t \in BOOLEAN /\ c \in Seq(Nat) /\ x \in Nat /\ y \in Nat /\ x <= MaxText /\ y <= MaxText
    BY <1>1, <1>2, <1>3, <2>2
  <2>5. q = [root |-> p.root, stream |-> p.stream, level |-> p.level, raw |-> x, message |-> y, conts |-> c,
             used |-> u, truncated |-> t]
    BY <2>1, <2>2 DEF ParserFrames
  <2>6. p.root \in Nat /\ p.stream \in Streams \union {"none"} /\ p.level \in Nat BY DEF ParserFrames
  <2>7. q \in ParserFrames BY <2>3, <2>4, <2>5, <2>6 DEF ParserFrames
  <2> QED BY <2>2, <2>4, <2>5, <2>7
<1> QED BY <1>4, <1>5

(***************************************************************************)
(* Steps                                                                   *)
(***************************************************************************)
(* A line arrives behind the others.                                       *)
LEMMA ArrivesIs ==
  ASSUME ParserShape, NEW s \in Streams, NEW level \in Nat, Arrives(s, level)
  PROVE  /\ lineNo' = lineNo + 1 /\ printed' \in Seq(PrintedLines) /\ Len(printed') = lineNo'
         /\ \A n \in 1 .. lineNo : printed'[n] = printed[n]
         /\ printed'[lineNo + 1].stream = s /\ printed'[lineNo + 1].level = level
         /\ ended = FALSE /\ ended' = FALSE
<1>1. PICK e \in PrintedLines : e = [stream |-> s, level |-> level] BY DEF PrintedLines
<1>2. lineNo' = lineNo + 1 /\ printed' = Append(printed, e) /\ ended = FALSE /\ ended' = ended
  BY <1>1 DEF Arrives, ParserShape
<1>3. /\ printed' \in Seq(PrintedLines) /\ Len(printed') = lineNo + 1
      /\ (\A n \in 1 .. lineNo : printed'[n] = printed[n]) /\ printed'[lineNo + 1] = e
  BY <1>2 DEF ParserShape
<1>4. printed'[lineNo + 1].stream = s /\ printed'[lineNo + 1].level = level BY <1>1, <1>3
<1>5. Len(printed') = lineNo' /\ ended' = FALSE BY <1>2, <1>3
<1> QED BY <1>2, <1>3, <1>4, <1>5

(* What was said of a frame stays true when lines arrive.                  *)
LEMMA GoodStays ==
  ASSUME ParserShape, NEW f, GoodFrame(f), lineNo' \in Nat, lineNo' >= lineNo, f.root \in Nat,
         \A n \in 1 .. lineNo : printed'[n] = printed[n]
  PROVE  /\ GoodFrame(f)'
         /\ \A n \in 1 .. lineNo : Quiet(f, n) => Quiet(f, n)'
<1>1. lineNo \in Nat /\ f.root \in 1 .. lineNo /\ f.root >= 1 BY DEF ParserShape, GoodFrame
<1>2. ASSUME NEW n \in 1 .. lineNo, Quiet(f, n) PROVE Quiet(f, n)'
  <2>1. \A m \in f.root + 1 .. n : m \in 1 .. lineNo BY <1>1
  <2> QED BY <1>2, <2>1 DEF Quiet
<1>3. \A n \in LinesOf(f) : n \in 1 .. lineNo BY DEF GoodFrame
<1>4. 1 .. lineNo \subseteq 1 .. lineNo' BY <1>1
<1>5. \A n \in LinesOf(f) \ {f.root} :
        printed'[n].stream = f.stream /\ printed'[n].level = 0 /\ Quiet(f, n)'
  BY <1>2, <1>3 DEF GoodFrame
<1>6. GoodFrame(f)'
  BY <1>1, <1>3, <1>4, <1>5 DEF GoodFrame, LinesOf
<1> QED BY <1>2, <1>6

(* A line that starts a record.                                            *)
LEMMA RecordKeeps ==
  ASSUME ParserIInv, NEW s \in Streams, NEW level \in {2, 3, 4}, NEW len \in Nat, NEW header \in {0, 1},
         NEW w \in {1, 2}, NEW hold \in BOOLEAN, Arrives(s, level),
         Emit(s, Frame(s, level, len, header, w), hold)
  PROVE  ParserIInv'
<1>1. ParserShape /\ lineNo \in Nat /\ level \in Nat BY DEF ParserIInv, ParserShape
<1>2. PICK f : f = Frame(s, level, len, header, w) OBVIOUS
<1>3. /\ f \in ParserFrames /\ f.root = lineNo + 1 /\ f.stream = s /\ f.level = level
      /\ f.raw <= MaxText /\ f.message <= MaxText /\ f.conts = <<>> /\ f # NoFrame
  BY <1>1, <1>2, FrameIs
<1>4. /\ lineNo' = lineNo + 1 /\ printed' \in Seq(PrintedLines) /\ Len(printed') = lineNo'
      /\ \A n \in 1 .. lineNo : printed'[n] = printed[n]
      /\ printed'[lineNo + 1].stream = s /\ printed'[lineNo + 1].level = level
      /\ ended = FALSE /\ ended' = FALSE
  BY <1>1, ArrivesIs
<1>5. \A g \in AllFrames : GoodFrame(g) /\ g.root \in 1 .. lineNo /\ LinesOf(g) \subseteq 1 .. lineNo
  BY DEF ParserIInv, GoodFrame
<1>6. f \notin AllFrames BY <1>1, <1>3, <1>5
<1>7. /\ AllFrames' = AllFrames \union {f} /\ OnceOut'
      /\ out' \in Seq(ParserFrames) /\ pendings' \in [Streams -> ParserFrames]
      /\ newest' \in Streams \union {"none"}
      /\ \A t \in Streams : pendings'[t] # NoFrame =>
           (t = s /\ pendings'[t] = f) \/ (t # s /\ pendings'[t] = pendings[t])
  BY <1>2, <1>3, <1>6, EmitIs
<1>8. ParserShape'
  <2>1. lineNo' \in Nat BY <1>1, <1>4
  <2>2. ended' \in BOOLEAN BY <1>4
  <2> QED BY <1>4, <1>7, <2>1, <2>2 DEF ParserShape
<1>9. LinesOf(f) = {lineNo + 1} BY <1>3 DEF LinesOf
<1>10. GoodFrame(f)'
  <2>1. (lineNo + 1) \in 1 .. lineNo' BY <1>1, <1>4
  <2> QED BY <1>3, <1>4, <1>9, <2>1 DEF GoodFrame, LinesOf
<1>11. ASSUME NEW g \in AllFrames PROVE GoodFrame(g)' /\ \A n \in 1 .. lineNo : Quiet(g, n) => Quiet(g, n)'
  <2>1. g.root \in Nat /\ lineNo' \in Nat /\ lineNo' >= lineNo BY <1>1, <1>4, <1>5
  <2> QED BY <1>1, <1>4, <1>5, <2>1, GoodStays
<1>12. \A g \in AllFrames' : GoodFrame(g)' BY <1>7, <1>10, <1>11
<1>13. Apart'
  <2>1. \A g \in AllFrames : LinesOf(f) \intersect LinesOf(g) = {} BY <1>1, <1>5, <1>9
  <2>2. \A g, h \in AllFrames \union {f} : g # h => LinesOf(g) \intersect LinesOf(h) = {}
    BY <2>1 DEF ParserIInv, Apart
  <2> QED BY <1>7, <2>2 DEF Apart, LinesOf
<1>14. Covered'
  <2>1. \A n \in 1 .. lineNo' : n \in 1 .. lineNo \/ n = lineNo + 1 BY <1>1, <1>4
  <2>2. \A n \in 1 .. lineNo' : \E g \in AllFrames \union {f} : n \in LinesOf(g)
    BY <1>9, <2>1 DEF ParserIInv, Covered
  <2> QED BY <1>7, <2>2 DEF Covered, LinesOf
<1>15. StillOpen'
  <2> SUFFICES ASSUME NEW t \in Streams, pendings'[t] # NoFrame
               PROVE  (pendings[t].stream = t /\ Quiet(pendings[t], lineNo))'
    BY DEF StillOpen, Quiet
  <2>1. CASE t = s /\ pendings'[t] = f
    <3>1. \A m \in f.root + 1 .. lineNo' : FALSE BY <1>1, <1>3, <1>4
    <3> QED BY <1>3, <2>1, <3>1 DEF Quiet
  <2>2. CASE t # s /\ pendings'[t] = pendings[t]
    <3>1. PICK p : p = pendings[t] OBVIOUS
    <3>2. p \in AllFrames /\ p.stream = t /\ Quiet(p, lineNo)
      BY <2>2, <3>1 DEF ParserIInv, StillOpen, AllFrames, Waits, Streams
    <3>3. p.root \in 1 .. lineNo BY <1>5, <3>2
    <3>4. ASSUME NEW m \in p.root + 1 .. lineNo', printed'[m].stream = p.stream PROVE printed'[m].level = 0
      <4>1. CASE m = lineNo + 1 BY <1>4, <2>2, <3>2, <3>4, <4>1
      <4>2. CASE m # lineNo + 1
        <5>1. m \in 1 .. lineNo /\ m \in p.root + 1 .. lineNo BY <1>1, <1>4, <3>3, <4>2
        <5> QED BY <1>4, <3>2, <3>4, <5>1 DEF Quiet
      <4> QED BY <4>1, <4>2
    <3> QED BY <2>2, <3>1, <3>2, <3>4 DEF Quiet
  <2> QED BY <1>7, <2>1, <2>2
<1> QED BY <1>4, <1>7, <1>8, <1>12, <1>13, <1>14, <1>15 DEF ParserIInv

(* A line that continues the record which waits on its stream.             *)
LEMMA ContinuationKeeps ==
  ASSUME ParserIInv, NEW s \in Streams, NEW len \in Nat, NEW w \in {1, 2}, Arrives(s, 0),
         pendings[s] # NoFrame, UNCHANGED <<newest, out>>,
         pendings' = [pendings EXCEPT ![s] = Appended(@, lineNo + 1, len, w)]
  PROVE  ParserIInv'
<1>1. ParserShape /\ lineNo \in Nat BY DEF ParserIInv, ParserShape
<1>2. PICK p, q : p = pendings[s] /\ q = Appended(p, lineNo + 1, len, w) OBVIOUS
<1>3. p \in ParserFrames /\ p \in AllFrames /\ GoodFrame(p) /\ p.stream = s /\ Quiet(p, lineNo)
  <2>1. p \in AllFrames BY <1>2 DEF AllFrames, Waits, Streams
  <2> QED BY <1>1, <1>2, <2>1 DEF ParserIInv, ParserShape, StillOpen
<1>4. /\ q \in ParserFrames /\ q.root = p.root /\ q.stream = p.stream /\ q.level = p.level
      /\ q.raw <= MaxText /\ q.message <= MaxText /\ q.conts = Append(p.conts, lineNo + 1)
  <2>1. lineNo + 1 \in Nat /\ p.raw <= MaxText /\ p.message <= MaxText BY <1>1, <1>3 DEF GoodFrame
  <2>2. PICK n : n = lineNo + 1 OBVIOUS
  <2>3. n \in Nat /\ p \in ParserFrames /\ q = Appended(p, n, len, w) BY <1>2, <1>3, <2>1, <2>2
  <2>4. Extends(Appended(p, n, len, w), p, n) BY <2>1, <2>3, AppendedIs
  <2> QED BY <2>2, <2>3, <2>4 DEF Extends
<1>5. /\ lineNo' = lineNo + 1 /\ printed' \in Seq(PrintedLines) /\ Len(printed') = lineNo'
      /\ \A n \in 1 .. lineNo : printed'[n] = printed[n]
      /\ printed'[lineNo + 1].stream = s /\ printed'[lineNo + 1].level = 0
      /\ ended = FALSE /\ ended' = FALSE
  BY <1>1, ArrivesIs
<1>6. pendings \in [Streams -> ParserFrames] /\ pendings' = [pendings EXCEPT ![s] = q] /\ out' = out /\ newest' = newest
  BY <1>1, <1>2 DEF ParserShape
<1>7. \A g \in AllFrames : GoodFrame(g) /\ g.root \in 1 .. lineNo /\ LinesOf(g) \subseteq 1 .. lineNo
  BY DEF ParserIInv, GoodFrame
<1>8. LinesOf(q) = LinesOf(p) \union {lineNo + 1}
  <2>1. PICK c, d, k : c = p.conts /\ d = q.conts /\ k = lineNo + 1 OBVIOUS
  <2>2. c \in Seq(Nat) /\ d = Append(c, k) /\ k \in Nat BY <1>1, <1>3, <1>4, <2>1 DEF ParserFrames
  <2>3. /\ DOMAIN c = 1 .. Len(c) /\ DOMAIN d = 1 .. (Len(c) + 1) /\ Len(c) \in Nat
        /\ d[Len(c) + 1] = k /\ \A i \in 1 .. Len(c) : d[i] = c[i]
    BY <2>2
  <2>4. \A i \in DOMAIN d : i \in DOMAIN c \/ i = Len(c) + 1 BY <2>3
  <2>5. \A i \in DOMAIN c : i \in DOMAIN d BY <2>3
  <2>6. Len(c) + 1 \in DOMAIN d BY <2>3
  <2>7. {d[i] : i \in DOMAIN d} = {c[i] : i \in DOMAIN c} \union {k} BY <2>3, <2>4, <2>5, <2>6
  <2>8. LinesOf(p) = {p.root} \union {c[i] : i \in DOMAIN c} BY <2>1 DEF LinesOf
  <2>9. LinesOf(q) = {q.root} \union {d[i] : i \in DOMAIN d} BY <2>1 DEF LinesOf
  <2> QED BY <1>4, <2>1, <2>7, <2>8, <2>9
<1>9. p.root >= 1 /\ p.root \in Nat /\ q # NoFrame
  <2>1. p.root \in 1 .. lineNo BY <1>3, <1>7
  <2> QED BY <1>4, <2>1 DEF NoFrame
<1>10. \A t \in Streams : Waits(t)' = IF t = s THEN {q} ELSE Waits(t)
  BY <1>6, <1>9 DEF Waits
<1>11. Elems(out)' = Elems(out) /\ (Once(out) => Once(out)') BY <1>6 DEF Elems, Once
<1>12. Waits(s) = {p} /\ Waits("stdout") \intersect Waits("stderr") = {} /\ Waits(s) \intersect Elems(out) = {}
  BY <1>2 DEF ParserIInv, OnceOut, StillOpen, Waits, Streams
<1>13. AllFrames' = (AllFrames \ {p}) \union {q}
  <2>1. AllFrames' = Elems(out) \union Waits("stdout")' \union Waits("stderr")' BY <1>11 DEF AllFrames
  <2> QED BY <1>10, <1>12, <2>1 DEF AllFrames, Streams
<1>14. \A g \in AllFrames : (lineNo + 1) \notin LinesOf(g) BY <1>1, <1>7
<1>15. q \notin AllFrames
  <2>1. (lineNo + 1) \in LinesOf(q) BY <1>8
  <2> QED BY <1>14, <2>1
<1>16. OnceOut'
  <2>1. q \notin Elems(out) BY <1>15 DEF AllFrames
  <2>2. \A t \in Streams : Waits(t)' \intersect Elems(out)' = {}
    BY <1>10, <1>11, <2>1 DEF ParserIInv, OnceOut
  <2> QED BY <1>11, <2>2 DEF ParserIInv, OnceOut
<1>17. ParserShape'
  <2>1. pendings' \in [Streams -> ParserFrames] BY <1>4, <1>6
  <2>2. lineNo' \in Nat BY <1>1, <1>5
  <2> QED BY <1>1, <1>5, <1>6, <2>1, <2>2 DEF ParserShape
<1>18. ASSUME NEW g \in AllFrames PROVE GoodFrame(g)' /\ \A n \in 1 .. lineNo : Quiet(g, n) => Quiet(g, n)'
  <2>1. g.root \in Nat /\ lineNo' \in Nat /\ lineNo' >= lineNo BY <1>1, <1>5, <1>7
  <2> QED BY <1>1, <1>5, <1>7, <2>1, GoodStays
<1>19. Quiet(p, lineNo)'
  <2>1. ASSUME NEW m \in p.root + 1 .. lineNo', printed'[m].stream = p.stream PROVE printed'[m].level = 0
    <3>1. CASE m = lineNo + 1 BY <1>5, <3>1
    <3>2. CASE m # lineNo + 1
      <4>1. m \in 1 .. lineNo /\ m \in p.root + 1 .. lineNo BY <1>1, <1>5, <1>9, <3>2
      <4> QED BY <1>3, <1>5, <2>1, <4>1 DEF Quiet
    <3> QED BY <3>1, <3>2
  <2> QED BY <2>1 DEF Quiet
<1>20. GoodFrame(q)'
  <2>1. GoodFrame(p)' BY <1>3, <1>18
  <2>2. (lineNo + 1) \in 1 .. lineNo' BY <1>1, <1>5
  <2>3. q.stream \in Streams /\ q.root \in 1 .. lineNo' /\ q.level \in {2, 3, 4} /\ printed'[q.root].level = q.level
    BY <1>4, <2>1 DEF GoodFrame
  <2>4. LinesOf(q) \subseteq 1 .. lineNo' BY <1>8, <2>1, <2>2 DEF GoodFrame, LinesOf
  <2>5. ASSUME NEW n \in LinesOf(q) \ {q.root}
        PROVE  printed'[n].stream = q.stream /\ printed'[n].level = 0 /\ Quiet(q, n)'
    <3>1. CASE n = lineNo + 1 BY <1>3, <1>4, <1>5, <1>19, <3>1 DEF Quiet
    <3>2. CASE n \in LinesOf(p) \ {p.root} BY <1>4, <2>1, <3>2 DEF GoodFrame, Quiet, LinesOf
    <3> QED BY <1>4, <1>8, <2>5, <3>1, <3>2
  <2> QED BY <1>4, <2>3, <2>4, <2>5 DEF GoodFrame, LinesOf
<1>21. \A g \in AllFrames' : GoodFrame(g)' BY <1>13, <1>18, <1>20
<1>22. Apart'
  <2>1. \A g \in AllFrames \ {p} : LinesOf(p) \intersect LinesOf(g) = {}
    BY <1>3 DEF ParserIInv, Apart
  <2>2. \A g \in AllFrames \ {p} : LinesOf(q) \intersect LinesOf(g) = {}
    BY <1>8, <1>14, <2>1
  <2>3. \A g, h \in (AllFrames \ {p}) \union {q} : g # h => LinesOf(g) \intersect LinesOf(h) = {}
    BY <2>2 DEF ParserIInv, Apart
  <2> QED BY <1>13, <2>3 DEF Apart, LinesOf
<1>23. Covered'
  <2>1. \A n \in 1 .. lineNo' : n \in 1 .. lineNo \/ n = lineNo + 1 BY <1>1, <1>5
  <2>2. \A n \in 1 .. lineNo' : \E g \in (AllFrames \ {p}) \union {q} : n \in LinesOf(g)
    BY <1>8, <2>1 DEF ParserIInv, Covered
  <2> QED BY <1>13, <2>2 DEF Covered, LinesOf
<1>24. StillOpen'
  <2> SUFFICES ASSUME NEW t \in Streams, pendings'[t] # NoFrame
               PROVE  (pendings[t].stream = t /\ Quiet(pendings[t], lineNo))'
    BY DEF StillOpen, Quiet
  <2>1. CASE t = s BY <1>3, <1>4, <1>5, <1>6, <1>19, <2>1 DEF Quiet
  <2>2. CASE t # s
    <3>1. PICK g : g = pendings[t] OBVIOUS
    <3>2. g \in AllFrames /\ g.stream = t /\ Quiet(g, lineNo) /\ pendings'[t] = g
      BY <1>6, <2>2, <3>1 DEF ParserIInv, StillOpen, AllFrames, Waits, Streams
    <3>3. g.root \in 1 .. lineNo BY <1>7, <3>2
    <3>4. ASSUME NEW m \in g.root + 1 .. lineNo', printed'[m].stream = g.stream PROVE printed'[m].level = 0
      <4>1. CASE m = lineNo + 1 BY <1>5, <2>2, <3>2, <3>4, <4>1
      <4>2. CASE m # lineNo + 1
        <5>1. m \in 1 .. lineNo /\ m \in g.root + 1 .. lineNo BY <1>1, <1>5, <3>3, <4>2
        <5> QED BY <1>5, <3>2, <3>4, <5>1 DEF Quiet
      <4> QED BY <4>1, <4>2
    <3> QED BY <3>2, <3>4 DEF Quiet
  <2> QED BY <2>1, <2>2
<1> QED BY <1>5, <1>16, <1>17, <1>21, <1>22, <1>23, <1>24 DEF ParserIInv

(* The end: what waits leaves, in one order or the other.                  *)
LEMMA FinishKeeps ==
  ASSUME ParserIInv, PushFinish
  PROVE  ParserIInv'
<1> DEFINE a == Taken("stdout")
           b == Taken("stderr")
<1>1. /\ ended' = TRUE /\ out' = out \o Finish /\ pendings' = [t \in Streams |-> NoFrame] /\ newest' = "none"
      /\ lineNo' = lineNo /\ printed' = printed
  BY DEF PushFinish
<1>2. /\ a \in Seq(ParserFrames) /\ Elems(a) = Waits("stdout") /\ Once(a)
      /\ b \in Seq(ParserFrames) /\ Elems(b) = Waits("stderr") /\ Once(b)
  BY TakenIs DEF ParserIInv, Streams
<1>3. Finish = a \o b \/ Finish = b \o a BY DEF Finish
<1> HIDE DEF a, b
<1>4. Waits("stdout") \intersect Waits("stderr") = {}
  BY DEF ParserIInv, StillOpen, Waits, Streams
<1>5. PICK c : c = Finish OBVIOUS
<1>6. c \in Seq(ParserFrames) /\ Elems(c) = Waits("stdout") \union Waits("stderr") /\ Once(c)
  <2>1. CASE c = a \o b BY <1>2, <1>4, <2>1, InARow, RowElems
  <2>2. CASE c = b \o a BY <1>2, <1>4, <2>2, InARow, RowElems
  <2> QED BY <1>3, <1>5, <2>1, <2>2
<1>7. /\ out \in Seq(ParserFrames) /\ Once(out) /\ Elems(c) \intersect Elems(out) = {}
  BY <1>6 DEF ParserIInv, ParserShape, OnceOut, Streams
<1>8. /\ out' \in Seq(ParserFrames) /\ Elems(out)' = Elems(out) \union Elems(c) /\ Once(out)'
  <2>1. PICK d : d = out \o c OBVIOUS
  <2>2. d \in Seq(ParserFrames) /\ Elems(d) = Elems(out) \union Elems(c) /\ Once(d)
    BY <1>6, <1>7, <2>1, InARow, RowElems
  <2>3. out' = d BY <1>1, <1>5, <2>1
  <2> QED BY <2>2, <2>3 DEF Elems, Once
<1>9. \A t \in Streams : pendings'[t] = NoFrame BY <1>1
<1>10. \A t \in Streams : Waits(t)' = {} BY <1>9 DEF Waits
<1>11. AllFrames' = AllFrames
  <2>1. AllFrames' = Elems(out)' \union Waits("stdout")' \union Waits("stderr")' BY DEF AllFrames
  <2> QED BY <1>6, <1>8, <1>10, <2>1 DEF AllFrames, Streams
<1>12. ParserShape'
  <2>1. NoFrame \in ParserFrames
    <3>1. <<>> \in Seq(Nat) OBVIOUS
    <3> QED BY <3>1 DEF NoFrame, ParserFrames
  <2>2. pendings' \in [Streams -> ParserFrames] BY <1>1, <2>1
  <2> QED BY <1>1, <1>8, <2>2 DEF ParserIInv, ParserShape
<1>13. OnceOut' BY <1>8, <1>10 DEF OnceOut
<1>14. StillOpen' BY <1>9 DEF StillOpen
<1>15. \A g \in AllFrames' : GoodFrame(g)' BY <1>1, <1>11 DEF ParserIInv, GoodFrame, Quiet
<1>16. Apart' BY <1>11 DEF ParserIInv, Apart
<1>17. Covered' BY <1>1, <1>11 DEF ParserIInv, Covered
<1> QED BY <1>9, <1>12, <1>13, <1>14, <1>15, <1>16, <1>17 DEF ParserIInv

(* An empty parser.                                                        *)
LEMMA ParserInitially == ParserInit => ParserIInv
<1> SUFFICES ASSUME ParserInit PROVE ParserIInv OBVIOUS
<1>1. /\ lineNo = 0 /\ pendings = [s \in Streams |-> NoFrame] /\ newest = "none"
      /\ out = <<>> /\ ended = FALSE /\ printed = <<>>
  BY DEF ParserInit
<1>2. <<>> \in Seq(PrintedLines) /\ <<>> \in Seq(ParserFrames) /\ <<>> \in Seq(Nat) /\ Len(<<>>) = 0 OBVIOUS
<1>3. NoFrame \in ParserFrames BY <1>2 DEF NoFrame, ParserFrames
<1>4. pendings \in [Streams -> ParserFrames] /\ \A s \in Streams : pendings[s] = NoFrame BY <1>1, <1>3
<1>5. ParserShape BY <1>1, <1>2, <1>4 DEF ParserShape
<1>6. \A s \in Streams : Waits(s) = {} BY <1>4 DEF Waits
<1>7. Elems(out) = {} /\ Once(out) BY <1>1, <1>2 DEF Elems, Once
<1>8. AllFrames = {} BY <1>6, <1>7 DEF AllFrames, Streams
<1>9. OnceOut /\ StillOpen BY <1>4, <1>6, <1>7 DEF OnceOut, StillOpen
<1>10. Covered BY <1>1 DEF Covered
<1> QED BY <1>4, <1>5, <1>8, <1>9, <1>10 DEF ParserIInv, Apart

(* Every step of the parser keeps the frames as they are described above.  *)
LEMMA ParserKeeps == ParserIInv /\ [ParserSteps]_lvars => ParserIInv'
<1> SUFFICES ASSUME ParserIInv, [ParserSteps]_lvars PROVE ParserIInv' OBVIOUS
<1>1. CASE UNCHANGED <<lineNo, pendings, newest, out, ended, printed>>
  <2>1. AllFrames' = AllFrames /\ (OnceOut => OnceOut')
    BY <1>1 DEF AllFrames, Waits, Elems, OnceOut, Once
  <2>2. ParserShape' BY <1>1 DEF ParserIInv, ParserShape
  <2>3. \A f \in AllFrames' : GoodFrame(f)' BY <1>1, <2>1 DEF ParserIInv, GoodFrame, Quiet
  <2>4. Apart' BY <2>1 DEF ParserIInv, Apart
  <2>5. Covered' BY <1>1, <2>1 DEF ParserIInv, Covered
  <2>6. StillOpen' BY <1>1 DEF ParserIInv, StillOpen, Quiet
  <2> QED BY <1>1, <2>1, <2>2, <2>3, <2>4, <2>5, <2>6 DEF ParserIInv
<1>2. MaxText + 1 \in Nat /\ 1 \in Nat /\ 2 \in Nat /\ 0 \in Nat BY ParserAssumption
<1>3. ASSUME NEW s \in Streams, NEW l \in {2, 4}, NEW n \in Nat, NEW w \in {1, 2}, PushHeader(s, l, n, w)
      PROVE  ParserIInv'
  <2>1. Holds("header", s, l) \in BOOLEAN BY <1>3 DEF Holds, Levels
  <2>2. PICK hold \in BOOLEAN : hold = Holds("header", s, l) BY <2>1
  <2>3. Arrives(s, l) /\ Emit(s, Frame(s, l, n, 1, w), hold) BY <1>3, <2>2 DEF PushHeader
  <2>4. l \in {2, 3, 4} BY <1>3
  <2> QED BY <2>3, <2>4, RecordKeeps
<1>4. ASSUME NEW s \in Streams, NEW k \in {"Error:", "warning:"}, PushRoot(k, s, 2) PROVE ParserIInv'
  <2>1. PICK l \in {3, 4} : l = IF k = "Error:" THEN Levels.error ELSE Levels.warning BY DEF Levels
  <2>2. Holds(k, s, l) \in BOOLEAN BY <1>4 DEF Holds
  <2>3. PICK hold \in BOOLEAN : hold = Holds(k, s, l) BY <2>2
  <2>4. Arrives(s, l) /\ Emit(s, Frame(s, l, 2, 0, 1), hold) BY <1>4, <2>1, <2>3 DEF PushRoot
  <2>5. l \in {2, 3, 4} BY <2>1
  <2> QED BY <1>2, <2>4, <2>5, RecordKeeps
<1>5. ASSUME NEW s \in Streams, NEW n \in Nat, NEW w \in {1, 2}, PushPlain(s, n, w) PROVE ParserIInv'
  <2>1. CASE pendings[s] # NoFrame
    <3>1. /\ Arrives(s, 0) /\ UNCHANGED <<newest, out>>
          /\ pendings' = [pendings EXCEPT ![s] = Appended(@, lineNo + 1, n, w)]
      BY <1>5, <2>1 DEF PushPlain, Owner
    <3> QED BY <2>1, <3>1, ContinuationKeeps
  <2>2. CASE pendings[s] = NoFrame
    <3>1. PICK l \in {2, 3} : l = IF s = "stdout" THEN Levels.info ELSE Levels.warning BY DEF Levels
    <3>2. Arrives(s, l) /\ Emit(s, Frame(s, l, n, 0, w), FALSE)
      BY <1>5, <2>2, <3>1 DEF PushPlain, Owner
    <3>3. l \in {2, 3, 4} BY <3>1
    <3> QED BY <3>2, <3>3, RecordKeeps
  <2> QED BY <2>1, <2>2
<1>6. CASE ParserNext
  <2>1. Levels.info = 2 /\ Levels.error = 4 BY DEF Levels
  <2>2. CASE PushFinish BY <2>2, FinishKeeps
  <2>3. CASE \E s \in Streams : \E l \in {Levels.info, Levels.error} : PushHeader(s, l, 1, 1)
    BY <1>2, <1>3, <2>1, <2>3
  <2>4. CASE \E s \in Streams : PushHeader(s, Levels.error, MaxText + 1, 2)
    BY <1>2, <1>3, <2>1, <2>4
  <2>5. CASE \E s \in Streams : \E k \in {"Error:", "warning:"} : PushRoot(k, s, 2)
    BY <1>4, <2>5
  <2>6. CASE \E s \in Streams : \E n \in {0, 2}, w \in {1, 2} : PushPlain(s, n, w)
    BY <1>2, <1>5, <2>6
  <2> QED BY <1>6, <2>2, <2>3, <2>4, <2>5, <2>6 DEF ParserNext
<1>7. CASE PremiumNext
  BY <1>1, <1>7 DEF PremiumNext, PushPremium
<1> QED BY <1>1, <1>6, <1>7 DEF ParserSteps, lvars

(* The frames of the parser are as described, at every moment (LogParser). *)
THEOREM ParserInvariance == ParserSpec => []ParserIInv
  BY ParserInitially, ParserKeeps, PTL DEF ParserSpec

(* Every frame is somewhere in the sequence the properties read.           *)
LEMMA AnyFrame ==
  ASSUME ParserIInv
  PROVE  /\ Everywhere \in Seq(ParserFrames) /\ DOMAIN Everywhere = 1 .. Len(Everywhere)
         /\ \A i \in DOMAIN Everywhere : Everywhere[i] \in AllFrames
         /\ \A f \in AllFrames : \E i \in DOMAIN Everywhere : Everywhere[i] = f
         /\ \A i, j \in DOMAIN Everywhere : Everywhere[i] = Everywhere[j] => i = j
<1>1. PICK e : e = Everywhere OBVIOUS
<1>2. e \in Seq(ParserFrames) /\ Elems(e) = AllFrames /\ Once(e)
  BY <1>1, EverywhereIs DEF ParserIInv
<1>3. DOMAIN e = 1 .. Len(e) BY <1>2
<1>4. /\ \A i \in DOMAIN e : e[i] \in AllFrames
      /\ \A f \in AllFrames : \E i \in DOMAIN e : e[i] = f
  BY <1>2, <1>3 DEF Elems
<1>5. \A i, j \in DOMAIN e : e[i] = e[j] => i = j BY <1>2, <1>3 DEF Once
<1> QED BY <1>1, <1>2, <1>3, <1>4, <1>5

(* Types, and every text within its cap wherever it is (bound_frame,       *)
(* Pending::append).                                                       *)
THEOREM ParserTypes == ParserSpec => []ParserTypeOK
<1>1. ParserIInv => ParserTypeOK
  <2> SUFFICES ASSUME ParserIInv PROVE ParserTypeOK OBVIOUS
  <2>1. \A i \in DOMAIN Everywhere : GoodFrame(Everywhere[i]) BY AnyFrame DEF ParserIInv
  <2> QED BY <2>1 DEF ParserIInv, ParserShape, ParserTypeOK, GoodFrame
<1> QED BY <1>1, ParserInvariance, PTL

(* Every line is in exactly one frame, which left the parser or waits in   *)
(* it; after finish nothing waits (push_at, emit, finish).                 *)
THEOREM LinesAreKept == ParserSpec => []LinesKept
<1>1. ParserIInv => LinesKept
  <2> SUFFICES ASSUME ParserIInv PROVE LinesKept OBVIOUS
  <2>1. ASSUME NEW n \in 1 .. lineNo
        PROVE  Cardinality({i \in DOMAIN Everywhere : n \in LinesOf(Everywhere[i])}) = 1
    <3>1. PICK f \in AllFrames : n \in LinesOf(f) BY DEF ParserIInv, Covered
    <3>2. PICK k \in DOMAIN Everywhere : Everywhere[k] = f BY AnyFrame
    <3>3. \A i \in DOMAIN Everywhere : n \in LinesOf(Everywhere[i]) => i = k
      <4> TAKE i \in DOMAIN Everywhere
      <4> HAVE n \in LinesOf(Everywhere[i])
      <4>1. Everywhere[i] \in AllFrames BY AnyFrame
      <4>2. Everywhere[i] = f BY <3>1, <4>1 DEF ParserIInv, Apart
      <4> QED BY <3>2, <4>2, AnyFrame
    <3>4. {i \in DOMAIN Everywhere : n \in LinesOf(Everywhere[i])} = {k} BY <3>1, <3>2, <3>3
    <3> QED BY <3>4, FS_Singleton
  <2> QED BY <2>1 DEF ParserIInv, LinesKept
<1> QED BY <1>1, ParserInvariance, PTL

(* A continuation belongs to the last record of its own stream, however    *)
(* the two streams are interleaved (push_at).                              *)
THEOREM ContinuationsAreOwn == ParserSpec => []OwnContinuations
<1>1. ParserIInv => OwnContinuations
  <2> SUFFICES ASSUME ParserIInv, NEW i \in DOMAIN Everywhere,
                      NEW n \in LinesOf(Everywhere[i]) \ {Everywhere[i].root}
               PROVE  /\ printed[n].stream = Everywhere[i].stream
                      /\ \A m \in Everywhere[i].root + 1 .. n :
                           printed[m].stream = Everywhere[i].stream => printed[m].level = 0
    BY DEF OwnContinuations
  <2>1. PICK f : f = Everywhere[i] OBVIOUS
  <2>2. GoodFrame(f) BY <2>1, AnyFrame DEF ParserIInv
  <2> QED BY <2>1, <2>2 DEF GoodFrame, Quiet
<1> QED BY <1>1, ParserInvariance, PTL

(* The last of a nonempty set of positions.                                *)
LEMMA LastPosition ==
  ASSUME NEW n \in Nat, NEW I \in SUBSET (1 .. n), I # {}
  PROVE  Max(I) \in I
<1> DEFINE T == {n - i : i \in I}
<1>1. T \in SUBSET Nat /\ T # {} OBVIOUS
<1>2. PICK m \in T : \A t \in T : m <= t BY <1>1, LeastNumber
<1>3. PICK x \in I : m = n - x OBVIOUS
<1>4. \A y \in I : x >= y
  <2> TAKE y \in I
  <2>1. n - x <= n - y BY <1>2, <1>3
  <2> QED BY <2>1
<1> QED BY <1>4 DEF Max

(* The cause reported for a core that failed is of the worst level any     *)
(* line had, although errors are held back while others pass               *)
(* (error_summary).                                                        *)
THEOREM SummaryIsTheWorst == ParserSpec => []SummaryIsWorst
<1>1. ParserIInv => SummaryIsWorst
  <2> SUFFICES ASSUME ParserIInv, ended PROVE SummaryIsWorst BY DEF SummaryIsWorst
  <2> DEFINE levels == {printed[n].level : n \in 1 .. lineNo}
  <2>1. out \in Seq(ParserFrames) /\ DOMAIN out = 1 .. Len(out) /\ Len(out) \in Nat
    BY DEF ParserIInv, ParserShape
  <2>2. AllFrames = Elems(out)
    <3>1. \A s \in Streams : Waits(s) = {} BY DEF ParserIInv, Waits
    <3> QED BY <3>1 DEF AllFrames, Streams
  <2>3. \A i \in DOMAIN out : /\ GoodFrame(out[i]) /\ out[i].level \in {2, 3, 4} /\ out[i].root \in 1 .. lineNo
                              /\ printed[out[i].root].level = out[i].level
    BY <2>1, <2>2 DEF ParserIInv, GoodFrame, Elems
  <2>4. \A i \in DOMAIN out : out[i].level \in levels BY <2>3
  <2>5. ASSUME NEW l \in levels, l # 0 PROVE \E i \in DOMAIN out : out[i].level = l
    <3>1. PICK n \in 1 .. lineNo : l = printed[n].level BY <2>5
    <3>2. PICK f \in Elems(out) : n \in LinesOf(f) BY <2>2 DEF ParserIInv, Covered
    <3>3. PICK i \in DOMAIN out : f = out[i] BY <2>1, <3>2 DEF Elems
    <3>4. n = f.root BY <2>3, <2>5, <3>1, <3>2, <3>3 DEF GoodFrame
    <3> QED BY <2>3, <3>1, <3>3, <3>4
  <2>6. \A l \in levels : l \in {0, 2, 3, 4} BY <2>3, <2>5
  <2> HIDE DEF levels
  <2>7. Levels.info = 2 BY DEF Levels
  <2>8. PICK S : S = Severities(out) OBVIOUS
  <2>9. \A l : l \in S <=> (l \in {3, 4} /\ \E i \in DOMAIN out : out[i].level = l)
    BY <2>3, <2>7, <2>8 DEF Severities
  <2>10. CASE \A l \in levels : l <= 2
    <3>1. S = {} BY <2>4, <2>9, <2>10
    <3>2. ErrorSummary(out) = 0 BY <2>8, <3>1 DEF ErrorSummary
    <3> QED BY <2>7, <2>10, <3>2 DEF SummaryIsWorst, levels
  <2>11. CASE ~\A l \in levels : l <= 2
    <3>1. PICK l \in levels : ~(l <= 2) BY <2>11
    <3>2. l \in S BY <2>5, <2>6, <2>9, <3>1
    <3>3. \E x \in S : \A y \in S : y <= x
      <4>1. CASE 4 \in S BY <2>9, <4>1
      <4>2. CASE 4 \notin S BY <2>9, <3>2, <4>2
      <4> QED BY <4>1, <4>2
    <3>4. PICK worst : worst = CHOOSE x \in S : \A y \in S : y <= x OBVIOUS
    <3>5. worst \in S /\ \A y \in S : y <= worst BY <3>3, <3>4
    <3> DEFINE I == {i \in 1 .. Len(out) : out[i].level = worst}
    <3>6. I # {} /\ I \in SUBSET (1 .. Len(out)) BY <2>1, <2>9, <3>5
    <3>7. PICK k : k = Max(I) OBVIOUS
    <3>8. k \in I BY <2>1, <3>6, <3>7, LastPosition
    <3>9. ErrorSummary(out) = out[k].root
      <4>1. SelectLastInSeq(out, LAMBDA f : f.level = worst) = k
        BY <3>6, <3>7 DEF SelectLastInSeq
      <4> QED BY <2>8, <3>2, <3>4, <4>1 DEF ErrorSummary
    <3>10. out[k].root \in 1 .. lineNo /\ printed[out[k].root].level = worst
      BY <2>1, <2>3, <3>8
    <3>11. out[k].root # 0 BY <3>10
    <3>12. \A x \in levels : x <= worst
      <4> TAKE x \in levels
      <4>1. worst \in {3, 4} BY <2>9, <3>5
      <4>2. CASE x \in {3, 4} BY <2>5, <2>9, <3>5, <4>2
      <4>3. CASE x \in {0, 2} BY <4>1, <4>3
      <4> QED BY <2>6, <4>2, <4>3
    <3> QED BY <2>7, <2>11, <3>9, <3>10, <3>11, <3>12 DEF SummaryIsWorst, levels
  <2> QED BY <2>10, <2>11
<1> QED BY <1>1, ParserInvariance, PTL

-----------------------------------------------------------------------------
(***************************************************************************)
(* The log sink.  Behind what the files hold come the records of the       *)
(* buffer, of the batch and of the ring, joined to each other (QueueOK),   *)
(* so what left the queue is the numbers below Expected, and a file that   *)
(* no write failed on ends there (ActiveOK).  Induction over a sequence is *)
(* replaced by the least index at which a claim would fail.                *)
(***************************************************************************)
SinkFields == {"phase", "batch", "buffer", "bytes", "written", "seq", "last"}
SinkPhases == {"none", "select", "drain", "lastDrain", "write", "flush", "flushThenRotate",
               "prune", "create", "done", "aborted"}
AnyRecs == [run: Nat, lo: Nat, hi: Nat, gap: BOOLEAN, torn: BOOLEAN]
LogRecs == {e \in AnyRecs : 1 <= e.lo /\ e.lo <= e.hi}
LogFiles == [recs: Seq(LogRecs), size: Nat, over: BOOLEAN]

(* What each part of the archive is made of.                               *)
WriterShape ==
  /\ DOMAIN sink = SinkFields /\ sink.phase \in SinkPhases /\ sink.seq \in Nat
  /\ sink.batch \in Seq(LogRecs) /\ sink.buffer \in Seq(LogRecs) /\ sink.last \in BOOLEAN
  /\ sink.bytes \in Nat /\ sink.written \in Nat
SinkShape ==
  /\ WriterShape
  /\ ring \in [sent: Nat, pos: Nat, closed: BOOLEAN] /\ ring.pos <= ring.sent
  /\ halt \in [phase: {"none", "waiting", "returned"}, due: Nat]
  /\ run \in 1..MaxRuns /\ diskFaults \in 0..MaxDiskFaults
  /\ DOMAIN dir \subseteq Nat \ {0} /\ dir \in [DOMAIN dir -> LogFiles]

(* Where the records are while the writer works, and how many they are.    *)
BatchShape ==
  /\ Len(sink.buffer) + Len(sink.batch) <= MaxBatch
  /\ sink.phase \in {"none", "select"} => sink.batch = <<>> /\ sink.buffer = <<>>
  /\ sink.phase \in {"drain", "lastDrain", "prune", "create"} => sink.buffer = <<>>
  /\ sink.buffer = <<>> => sink.bytes = 0
  /\ sink.phase = "flush" => sink.batch = <<>>
  /\ sink.phase \in {"flushThenRotate", "prune", "create"} => sink.batch # <<>>

(* A writer on its way out has taken what the shutdown waits for.          *)
AllTaken == IF halt.phase = "none" THEN ring.closed ELSE ring.pos >= halt.due
EndsDrained ==
  /\ halt.phase # "none" => halt.due <= ring.sent
  /\ sink.phase = "lastDrain" => halt.phase # "none"
  /\ sink.phase = "done" => AllTaken
  /\ (sink.phase \in {"write", "flush", "flushThenRotate", "prune", "create"} /\ sink.last) => AllTaken

(* The records of a sequence follow each other, and `next` follows them.   *)
Start(es, next) == IF es = <<>> THEN next ELSE es[1].lo
Joined(es, next) ==
  /\ \A i \in 1..(Len(es) - 1) : es[i + 1].lo = es[i].hi + 1
  /\ es # <<>> => next = es[Len(es)].hi + 1
Fresh(es) == \A i \in 1..Len(es) : es[i].run = run /\ ~es[i].torn

Waiting == Start(sink.batch, ring.pos + 1)
Expected == Start(sink.buffer, Waiting)
QueueOK ==
  /\ Fresh(sink.batch) /\ Fresh(sink.buffer)
  /\ Joined(sink.batch, ring.pos + 1) /\ Joined(sink.buffer, Waiting)

(* The active file goes on where the writer is, unless a write failed.     *)
ActiveOK ==
  sink.phase \notin {"none", "aborted"} =>
    LET f == dir[sink.seq] IN
    /\ \A i \in 1..Len(f.recs) : f.recs[i].run = run
    /\ ~f.over => Fresh(f.recs) /\ Joined(f.recs, Expected)

WholeFile(f) ==
  \A i \in 1..(Len(f.recs) - 1) :
    LET e == f.recs[i]
        g == f.recs[i + 1] IN
    e.run = g.run /\ (f.over \/ (~e.torn /\ g.lo = e.hi + 1))

(* The active file has the highest number; one file always has.            *)
NewestIs(s) == s \in DOMAIN dir /\ \A t \in DOMAIN dir : t <= s
Numbered ==
  /\ sink.phase # "none" => NewestIs(sink.seq)
  /\ DOMAIN dir # {} => \E s \in DOMAIN dir : NewestIs(s)

(* Nobody shuts down a daemon that has not started its writer.             *)
IdleBefore == sink.phase = "none" => halt.phase = "none"

SinkIInv ==
  /\ IdleBefore /\ SinkShape /\ BatchShape /\ EndsDrained /\ QueueOK /\ Numbered /\ ActiveOK
  /\ \A s \in DOMAIN dir : WholeFile(dir[s])

(* What a sequence of records is, cut into two.                            *)
LEMMA StartCat ==
  ASSUME NEW a \in Seq(LogRecs), NEW b \in Seq(LogRecs), NEW n \in Nat
  PROVE  Start(a \o b, n) = Start(a, Start(b, n))
  BY DEF Start

(* Two joined sequences in a row are joined.                               *)
LEMMA JoinedCat ==
  ASSUME NEW a \in Seq(LogRecs), NEW b \in Seq(LogRecs), NEW n \in Nat,
         Joined(a, Start(b, n)), Joined(b, n)
  PROVE  Joined(a \o b, n)
  BY DEF Joined, Start

(* The first of the later records can go to the end of the earlier ones.   *)
LEMMA JoinedMove ==
  ASSUME NEW a \in Seq(LogRecs), NEW b \in Seq(LogRecs), NEW n \in Nat, b # <<>>,
         Joined(a, Start(b, n)), Joined(b, n)
  PROVE  /\ Append(a, Head(b)) \in Seq(LogRecs) /\ Tail(b) \in Seq(LogRecs)
         /\ Joined(Tail(b), n)
         /\ Joined(Append(a, Head(b)), Start(Tail(b), n))
         /\ Start(Append(a, Head(b)), Start(Tail(b), n)) = Start(a, Start(b, n))
<1> DEFINE t == Tail(b)
           c == Append(a, Head(b))
<1>1. /\ c \in Seq(LogRecs) /\ Len(c) = Len(a) + 1 /\ c[Len(a) + 1] = b[1]
      /\ \A i \in 1..Len(a) : c[i] = a[i]
  OBVIOUS
<1>2. /\ t \in Seq(LogRecs) /\ Len(t) = Len(b) - 1 /\ Len(b) \in Nat /\ Len(b) > 0
      /\ \A i \in 1..(Len(b) - 1) : t[i] = b[i + 1]
  OBVIOUS
<1> HIDE DEF t, c
<1>3. Len(a) \in Nat /\ (a = <<>> <=> Len(a) = 0) /\ (t = <<>> <=> Len(t) = 0) /\ c # <<>>
  <2>1. a = <<>> <=> Len(a) = 0 OBVIOUS
  <2>2. t = <<>> <=> Len(t) = 0 BY <1>2
  <2>3. Len(a) \in Nat /\ Len(c) # 0 BY <1>1
  <2>4. c # <<>> BY <1>1, <2>3
  <2> QED BY <2>1, <2>2, <2>3, <2>4
<1>4. Joined(t, n) BY SMTT(40), <1>2, <1>3 DEF Joined
<1>5. Start(t, n) = b[1].hi + 1
  <2>1. CASE Len(b) = 1 BY <2>1, <1>2, <1>3 DEF Joined, Start
  <2>2. CASE Len(b) > 1
    <3>1. t[1] = b[2] /\ t # <<>> BY <2>2, <1>2, <1>3
    <3>2. b[2].lo = b[1].hi + 1
      <4>1. 1 \in 1..(Len(b) - 1) BY <2>2, <1>2
      <4> QED BY <4>1 DEF Joined
    <3> QED BY <3>1, <3>2 DEF Start
  <2> QED BY <2>1, <2>2, <1>2
<1>6. Joined(c, Start(t, n))
  <2>1. ASSUME NEW i \in 1..(Len(c) - 1) PROVE c[i + 1].lo = c[i].hi + 1
    <3>1. CASE i = Len(a) BY <3>1, <1>1, <1>3 DEF Joined, Start
    <3>2. CASE i < Len(a)
      <4>1. c[i + 1] = a[i + 1] /\ c[i] = a[i] /\ i \in 1..(Len(a) - 1) BY <3>2, <1>1, <1>3
      <4> QED BY <4>1 DEF Joined
    <3> QED BY <3>1, <3>2, <1>1, <1>3
  <2>2. Start(t, n) = c[Len(c)].hi + 1 BY <1>1, <1>3, <1>5
  <2> QED BY <2>1, <2>2 DEF Joined
<1>7. Start(c, Start(t, n)) = Start(a, Start(b, n))
  <2>1. CASE a = <<>> BY <2>1, <1>1, <1>3 DEF Start
  <2>2. CASE a # <<>>
    <3>1. c[1] = a[1] BY <2>2, <1>1, <1>3
    <3> QED BY <2>2, <3>1, <1>3 DEF Start
  <2> QED BY <2>1, <2>2
<1> QED BY <1>1, <1>2, <1>4, <1>6, <1>7 DEF t, c

(* What recv answers begins right behind the position of the receiver, and *)
(* nothing is there only when everything sent was taken.                   *)
LEMMA ReceivedIs ==
  ASSUME SinkShape
  PROVE  /\ Received # <<>> =>
              /\ Received \in Seq(LogRecs) /\ Len(Received) = 1
              /\ Received[1].lo = ring.pos + 1 /\ Received[1].hi <= ring.sent
              /\ Received[1].run = run /\ ~Received[1].torn
              /\ Received[1].hi \in Nat
         /\ Received = <<>> => ring.pos = ring.sent
<1> DEFINE oldest == IF ring.sent > RingCapacity THEN ring.sent - RingCapacity ELSE 0
<1>1. /\ ring.pos \in Nat /\ ring.sent \in Nat /\ ring.pos <= ring.sent /\ run \in Nat
      /\ RingCapacity \in Nat \ {0}
  BY SinkAssumption DEF SinkShape
<1>2. oldest \in Nat /\ oldest <= ring.sent
  BY <1>1
<1> HIDE DEF oldest
<1>3. Received = IF ring.pos < oldest THEN <<[LogRecord(ring.pos + 1, oldest) EXCEPT !.gap = TRUE]>>
                 ELSE IF ring.pos < ring.sent THEN <<LogRecord(ring.pos + 1, ring.pos + 1)>> ELSE <<>>
  BY DEF Received, oldest
<1>4. CASE ring.pos < oldest
  <2> DEFINE e == [LogRecord(ring.pos + 1, oldest) EXCEPT !.gap = TRUE]
  <2>1. /\ e \in LogRecs /\ e.lo = ring.pos + 1 /\ e.hi = oldest /\ e.run = run /\ e.torn = FALSE
    <3>1. PICK r : r = LogRecord(ring.pos + 1, oldest)
      OBVIOUS
    <3>2. r \in AnyRecs /\ r.lo = ring.pos + 1 /\ r.hi = oldest /\ r.run = run /\ r.torn = FALSE
      BY <1>1, <1>2, <3>1 DEF LogRecord, AnyRecs
    <3>3. e = [r EXCEPT !.gap = TRUE]
      BY <3>1
    <3>4. e \in AnyRecs /\ e.lo = ring.pos + 1 /\ e.hi = oldest /\ e.run = run /\ e.torn = FALSE
      BY <3>2, <3>3 DEF AnyRecs
    <3> HIDE DEF e
    <3> QED BY <3>4, <1>1, <1>2, <1>4 DEF LogRecs
  <2>2. Received = <<e>> BY <1>3, <1>4
  <2> HIDE DEF e
  <2> QED BY <2>1, <2>2, <1>1, <1>2
<1>5. CASE ~(ring.pos < oldest) /\ ring.pos < ring.sent
  <2> DEFINE e == LogRecord(ring.pos + 1, ring.pos + 1)
  <2>1. /\ e \in LogRecs /\ e.lo = ring.pos + 1 /\ e.hi = ring.pos + 1 /\ e.run = run /\ e.torn = FALSE
    BY <1>1, <1>2 DEF LogRecord, LogRecs, AnyRecs
  <2>2. Received = <<e>> BY <1>3, <1>5
  <2> HIDE DEF e
  <2> QED BY <2>1, <2>2, <1>1, <1>2, <1>5
<1>6. CASE ~(ring.pos < oldest) /\ ~(ring.pos < ring.sent)
  BY <1>1, <1>3, <1>6
<1> QED BY <1>4, <1>5, <1>6

(* A file that goes on where the writer is stays whole when records are    *)
(* appended that follow each other, the last of which may be torn.         *)
OfRun(es) == \A i \in 1..Len(es) : es[i].run = run
Linked(es) == \A i \in 1..(Len(es) - 1) : ~es[i].torn /\ es[i + 1].lo = es[i].hi + 1

(* A whole file stays whole when linked records of the run follow it.      *)
LEMMA AppendedWhole ==
  ASSUME NEW r \in Seq(LogRecs), NEW es \in Seq(LogRecs), NEW n \in Nat, NEW f,
         f.recs = r \o es, OfRun(r), OfRun(es),
         ~f.over => Fresh(r) /\ Joined(r, Start(es, n)) /\ Linked(es)
  PROVE  WholeFile(f)
<1> DEFINE c == r \o es
<1>1. /\ Len(r) \in Nat /\ Len(es) \in Nat /\ Len(c) = Len(r) + Len(es)
      /\ \A i \in 1..Len(r) : c[i] = r[i]
      /\ \A i \in 1..Len(es) : c[Len(r) + i] = es[i]
  OBVIOUS
<1>2. es = <<>> <=> Len(es) = 0 OBVIOUS
<1>3. r = <<>> <=> Len(r) = 0 OBVIOUS
<1> HIDE DEF c
<1> SUFFICES ASSUME NEW i \in 1..(Len(c) - 1)
             PROVE  c[i].run = c[i + 1].run /\ (f.over \/ (~c[i].torn /\ c[i + 1].lo = c[i].hi + 1))
  BY DEF WholeFile, c
<1>4. CASE i < Len(r)
  <2>1. i \in 1..Len(r) /\ i + 1 \in 1..Len(r) /\ i \in 1..(Len(r) - 1) BY <1>4, <1>1
  <2>2. c[i] = r[i] /\ c[i + 1] = r[i + 1] BY <2>1, <1>1
  <2> QED BY <2>1, <2>2 DEF OfRun, Fresh, Joined
<1>5. CASE i = Len(r)
  <2>1. Len(r) \in 1..Len(r) /\ 1 \in 1..Len(es) /\ es # <<>> /\ r # <<>> BY <1>5, <1>1, <1>2, <1>3
  <2>2. c[i] = r[Len(r)] /\ c[i + 1] = es[1] BY <2>1, <1>1, <1>5
  <2> QED BY <2>1, <2>2 DEF OfRun, Fresh, Joined, Start
<1>6. CASE i > Len(r)
  <2>1. PICK k \in 1..(Len(es) - 1) : i = Len(r) + k
    <3>1. i - Len(r) \in 1..(Len(es) - 1) BY <1>6, <1>1
    <3>2. i = Len(r) + (i - Len(r)) BY <1>1
    <3> QED BY <3>1, <3>2
  <2>2. k \in 1..Len(es) /\ k + 1 \in 1..Len(es) BY <2>1, <1>1
  <2>3. i + 1 = Len(r) + (k + 1) BY <2>1, <1>1
  <2>4. c[i] = es[k] /\ c[i + 1] = es[k + 1] BY <2>1, <2>2, <2>3, <1>1
  <2> QED BY <2>1, <2>2, <2>4 DEF OfRun, Linked
<1> QED BY <1>4, <1>5, <1>6, <1>1

(* A cut write keeps the order, and tears its last record only.            *)
LEMMA CutIs ==
  ASSUME NEW es \in Seq(LogRecs), NEW n \in 0..(Len(es) - 1), NEW m \in Nat, Fresh(es), Joined(es, m)
  PROVE  /\ Cut(es, n) \in Seq(LogRecs) /\ OfRun(Cut(es, n)) /\ Linked(Cut(es, n))
         /\ \A k \in Nat : Start(Cut(es, n), k) = Start(es, k)
<1> DEFINE c == Cut(es, n)
           h == [es[n + 1] EXCEPT !.torn = TRUE]
<1>1. Len(es) \in Nat /\ n \in Nat /\ n + 1 \in 1..Len(es) OBVIOUS
<1>2. es[n + 1] \in LogRecs BY <1>1
<1>3. h \in LogRecs /\ h.run = es[n + 1].run /\ h.lo = es[n + 1].lo BY <1>2 DEF LogRecs, AnyRecs
<1> HIDE DEF h
<1>4. SubSeq(es, 1, n) \in Seq(LogRecs) /\ Len(SubSeq(es, 1, n)) = n
      /\ \A i \in 1..n : SubSeq(es, 1, n)[i] = es[i]
  BY <1>1
<1>5. /\ c \in Seq(LogRecs) /\ Len(c) = n + 1 /\ c[n + 1] = h /\ \A i \in 1..n : c[i] = es[i]
  BY <1>3, <1>4, <1>1 DEF Cut, h
<1> HIDE DEF c
<1>6. OfRun(c) BY <1>1, <1>3, <1>5 DEF OfRun, Fresh
<1>7. ASSUME NEW i \in 1..n PROVE ~c[i].torn /\ c[i + 1].lo = c[i].hi + 1
  <2>1. i \in 1..(Len(es) - 1) /\ c[i] = es[i] /\ i \in 1..Len(es) BY <1>1, <1>5
  <2>2. c[i + 1].lo = es[i + 1].lo
    <3>1. CASE i = n BY <3>1, <1>3, <1>5
    <3>2. CASE i < n BY <3>2, <1>5, <1>1
    <3> QED BY <3>1, <3>2, <1>1
  <2> QED BY <2>1, <2>2 DEF Fresh, Joined
<1>8. Linked(c) BY <1>5, <1>7, <1>1 DEF Linked
<1>9. c # <<>> /\ es # <<>> /\ c[1].lo = es[1].lo
  <2>1. c # <<>> BY <1>5, <1>1
  <2>2. es # <<>> BY <1>1
  <2>3. CASE n = 0
    <3>1. n + 1 = 1 BY <2>3
    <3>2. c[1] = h /\ h.lo = es[1].lo BY <3>1, <1>5, <1>3
    <3> QED BY <2>1, <2>2, <3>2
  <2>4. CASE n > 0 BY <2>1, <2>2, <2>4, <1>5, <1>1
  <2> QED BY <2>1, <2>2, <2>3, <2>4, <1>1
<1>10. \A k \in Nat : Start(c, k) = Start(es, k) BY <1>9 DEF Start
<1> QED BY <1>5, <1>6, <1>8, <1>10 DEF c

(* Appending to the active file leaves the other files alone.              *)
LEMMA AppendsTo ==
  ASSUME SinkShape, sink.seq \in DOMAIN dir, NEW es \in Seq(LogRecs), NEW l \in Nat, NEW o \in BOOLEAN,
         dir' = AppendedTo(sink.seq, es, l, o)
  PROVE  /\ DOMAIN dir' = DOMAIN dir /\ dir' \in [DOMAIN dir -> LogFiles]
         /\ dir'[sink.seq].recs = dir[sink.seq].recs \o es
         /\ dir'[sink.seq].over = (dir[sink.seq].over \/ o)
         /\ dir'[sink.seq].size = dir[sink.seq].size + l
         /\ \A s \in DOMAIN dir \ {sink.seq} : dir'[s] = dir[s]
<1>1. PICK f \in LogFiles : f = [recs |-> dir[sink.seq].recs \o es, size |-> dir[sink.seq].size + l,
                                 over |-> dir[sink.seq].over \/ o]
  <2>1. dir[sink.seq] \in LogFiles BY DEF SinkShape
  <2>2. /\ dir[sink.seq].recs \o es \in Seq(LogRecs)
        /\ (dir[sink.seq].over \/ o) \in BOOLEAN /\ dir[sink.seq].size + l \in Nat
    BY <2>1 DEF LogFiles
  <2> QED BY <2>2 DEF LogFiles
<1>2. dir' = [dir EXCEPT ![sink.seq] = f] BY <1>1 DEF AppendedTo
<1>3. dir \in [DOMAIN dir -> LogFiles] BY DEF SinkShape
<1>4. /\ DOMAIN dir' = DOMAIN dir /\ dir' \in [DOMAIN dir -> LogFiles] /\ dir'[sink.seq] = f
      /\ \A s \in DOMAIN dir \ {sink.seq} : dir'[s] = dir[s]
  BY <1>2, <1>3
<1>5. /\ f.recs = dir[sink.seq].recs \o es /\ f.over = (dir[sink.seq].over \/ o)
      /\ f.size = dir[sink.seq].size + l
  BY <1>1
<1> QED BY <1>4, <1>5

(* Pruning only deletes, and never what it protects.                       *)
LEMMA RemainingIs ==
  ASSUME NEW D, NEW g \in [D -> LogFiles], NEW keep, NEW protect, NEW ok
  PROVE  LET m == Remaining(g, keep, protect, ok) IN
         /\ DOMAIN m \subseteq D /\ m \in [DOMAIN m -> LogFiles]
         /\ protect \in D => protect \in DOMAIN m
         /\ \A s \in DOMAIN m : m[s] = g[s]
  BY DEF Remaining, Restrict, Prunable

(* A file without records is whole.                                        *)
LEMMA NoFileWhole == WholeFile(NoFile)
  BY DEF WholeFile, NoFile

(* A step that leaves the files and what they wait for.                    *)
LEMMA FilesKept ==
  ASSUME SinkIInv, dir' = dir, run' = run, sink'.seq = sink.seq, sink.phase # "none",
         sink.phase = "aborted" => sink'.phase = "aborted",
         sink'.phase # "aborted" => Expected' = Expected
  PROVE  Numbered' /\ ActiveOK' /\ \A s \in DOMAIN dir' : WholeFile(dir'[s])
<1>1. Numbered' BY DEF SinkIInv, Numbered, NewestIs
<1>2. ActiveOK' BY DEF SinkIInv, ActiveOK, Fresh
<1> QED BY <1>1, <1>2 DEF SinkIInv

(* The queue is about the two sequences, the position and the run.         *)
LEMMA QueueKept ==
  ASSUME SinkIInv, sink'.batch = sink.batch, sink'.buffer = sink.buffer, ring'.pos = ring.pos,
         run' = run
  PROVE  QueueOK' /\ Expected' = Expected /\ Waiting' = Waiting
  BY DEF SinkIInv, QueueOK, Fresh, Expected, Waiting

(* What the rest of the daemon does to the ring and to the shutdown.       *)
LEMMA RingKeeps ==
  ASSUME SinkIInv, SendFrame \/ CloseRing \/ ShutdownCancels \/ ShutdownReturns
  PROVE  SinkIInv'
<1>1. /\ sink' = sink /\ dir' = dir /\ run' = run /\ diskFaults' = diskFaults
      /\ ring'.pos = ring.pos /\ sink.phase # "none"
  BY DEF SinkIInv, SinkShape, SendFrame, CloseRing, ShutdownCancels, ShutdownReturns
<1>2. /\ ring' \in [sent: Nat, pos: Nat, closed: BOOLEAN] /\ ring'.pos <= ring'.sent
      /\ halt' \in [phase: {"none", "waiting", "returned"}, due: Nat]
  <2>1. /\ ring \in [sent: Nat, pos: Nat, closed: BOOLEAN] /\ ring.pos <= ring.sent
        /\ halt \in [phase: {"none", "waiting", "returned"}, due: Nat]
    BY DEF SinkIInv, SinkShape
  <2>2. CASE SendFrame BY <2>1, <2>2 DEF SendFrame
  <2>3. CASE CloseRing BY <2>1, <2>3 DEF CloseRing
  <2>4. CASE ShutdownCancels BY <2>1, <2>4 DEF ShutdownCancels
  <2>5. CASE ShutdownReturns BY <2>1, <2>5 DEF ShutdownReturns
  <2> QED BY <2>2, <2>3, <2>4, <2>5
<1>3. SinkShape' BY <1>1, <1>2 DEF SinkIInv, SinkShape, WriterShape
<1>4. BatchShape' BY <1>1 DEF SinkIInv, BatchShape
<1>5. EndsDrained'
  BY <1>1 DEF SinkIInv, SinkShape, EndsDrained, AllTaken, SendFrame, CloseRing, ShutdownCancels, ShutdownReturns
<1>6. QueueOK' /\ Expected' = Expected BY <1>1, QueueKept
<1>7. Numbered' /\ ActiveOK' /\ \A s \in DOMAIN dir' : WholeFile(dir'[s]) BY <1>1, <1>6, FilesKept
<1> QED BY <1>1, <1>2, <1>3, <1>4, <1>5, <1>6, <1>7 DEF SinkIInv, IdleBefore

(* The writer moves on and keeps its records.                              *)
SelectEnds ==
  /\ sink.phase = "select" /\ Received = <<>> /\ ring.closed
  /\ sink' = [sink EXCEPT !.phase = "done"] /\ UNCHANGED <<run, ring, dir, halt, diskFaults, gone>>

(* Steps that only move the writer to another phase.                       *)
LEMMA PhaseKeeps ==
  ASSUME SinkIInv, SelectCancelled \/ Drained \/ WriteFull \/ WriteEnds \/ SelectEnds
  PROVE  SinkIInv'
<1>1. /\ dir' = dir /\ run' = run /\ diskFaults' = diskFaults /\ halt' = halt /\ ring' = ring
      /\ sink.phase \in {"select", "drain", "lastDrain", "write"}
  BY DEF SelectCancelled, Drained, WriteFull, WriteEnds, SelectEnds
<1>2. /\ DOMAIN sink' = DOMAIN sink /\ sink'.batch = sink.batch /\ sink'.buffer = sink.buffer
      /\ sink'.seq = sink.seq /\ sink'.last \in BOOLEAN
      /\ sink'.bytes = sink.bytes /\ sink'.written = sink.written
      /\ sink'.phase \in {"done", "lastDrain", "write", "flushThenRotate", "flush"}
      /\ sink'.phase = "flushThenRotate" => sink.batch # <<>>
      /\ sink'.phase = "flush" => sink.batch = <<>>
      /\ sink'.phase = "lastDrain" => sink.buffer = <<>>
      /\ sink'.phase = "lastDrain" => halt.phase # "none"
  <2>1. CASE SelectCancelled BY <2>1 DEF SelectCancelled, SinkIInv, SinkShape, WriterShape, SinkFields, BatchShape
  <2>2. CASE Drained BY <2>2 DEF Drained, SinkIInv, SinkShape, WriterShape, SinkFields
  <2>3. CASE WriteFull BY <2>3 DEF WriteFull, SinkIInv, SinkShape, WriterShape, SinkFields
  <2>4. CASE WriteEnds BY <2>4 DEF WriteEnds, SinkIInv, SinkShape, WriterShape, SinkFields
  <2>5. CASE SelectEnds BY <2>5 DEF SelectEnds, SinkIInv, SinkShape, WriterShape, SinkFields
  <2> QED BY <2>1, <2>2, <2>3, <2>4, <2>5
<1>3. SinkShape' BY <1>1, <1>2 DEF SinkIInv, SinkShape, WriterShape, SinkPhases
<1>4. BatchShape' BY <1>1, <1>2 DEF SinkIInv, BatchShape
<1>5. (sink'.phase = "done" \/ (sink'.phase \in {"write", "flushThenRotate", "flush"} /\ sink'.last)) => AllTaken
  <2> SUFFICES ASSUME sink'.phase = "done" \/ (sink'.phase \in {"write", "flushThenRotate", "flush"} /\ sink'.last)
               PROVE  AllTaken
    OBVIOUS
  <2>1. CASE SelectCancelled BY <2>1 DEF SelectCancelled, SinkIInv, SinkShape, WriterShape, SinkFields
  <2>2. CASE Drained
    <3>1. Len(sink.batch) # MaxBatch /\ (ring.closed \/ sink.phase = "lastDrain")
      BY <2>2 DEF Drained, SinkIInv, SinkShape, WriterShape, SinkFields
    <3>2. ring.pos = ring.sent BY <2>2, <3>1, ReceivedIs DEF Drained, SinkIInv
    <3> QED BY <3>1, <3>2 DEF SinkIInv, SinkShape, EndsDrained, AllTaken
  <2>3. CASE WriteFull BY <2>3 DEF WriteFull, SinkIInv, SinkShape, WriterShape, SinkFields, EndsDrained
  <2>4. CASE WriteEnds BY <2>4 DEF WriteEnds, SinkIInv, SinkShape, WriterShape, SinkFields, EndsDrained
  <2>5. CASE SelectEnds
    <3>1. ring.pos = ring.sent BY <2>5, ReceivedIs DEF SelectEnds, SinkIInv
    <3> QED BY <2>5, <3>1 DEF SelectEnds, SinkIInv, SinkShape, EndsDrained, AllTaken
  <2> QED BY <2>1, <2>2, <2>3, <2>4, <2>5
<1>6. EndsDrained' BY <1>1, <1>2, <1>5 DEF SinkIInv, EndsDrained, AllTaken
<1>7. QueueOK' /\ Expected' = Expected BY <1>1, <1>2, QueueKept
<1>8. Numbered' /\ ActiveOK' /\ \A s \in DOMAIN dir' : WholeFile(dir'[s]) BY <1>1, <1>2, <1>7, FilesKept
<1> QED BY <1>1, <1>2, <1>3, <1>4, <1>6, <1>7, <1>8 DEF SinkIInv, IdleBefore

(* Two sequences of records in a row.                                      *)
LEMMA CatIs ==
  ASSUME NEW a \in Seq(LogRecs), NEW b \in Seq(LogRecs)
  PROVE  /\ a \o b \in Seq(LogRecs) /\ Len(a \o b) = Len(a) + Len(b)
         /\ Len(a) \in Nat /\ Len(b) \in Nat
         /\ \A i \in 1..Len(a) : (a \o b)[i] = a[i]
         /\ \A i \in 1..Len(b) : (a \o b)[Len(a) + i] = b[i]
  OBVIOUS

(* Both of the run.                                                        *)
LEMMA CatOfRun ==
  ASSUME NEW a \in Seq(LogRecs), NEW b \in Seq(LogRecs), OfRun(a), OfRun(b)
  PROVE  \A i \in 1..Len(a \o b) : (a \o b)[i].run = run
<1>1. PICK c : c = a \o b OBVIOUS
<1>2. /\ Len(c) = Len(a) + Len(b) /\ Len(a) \in Nat /\ Len(b) \in Nat
      /\ \A i \in 1..Len(a) : c[i] = a[i]
      /\ \A i \in 1..Len(b) : c[Len(a) + i] = b[i]
  BY <1>1, CatIs
<1>3. ASSUME NEW i \in 1..Len(c) PROVE c[i].run = run
  <2>1. CASE i <= Len(a) BY <2>1, <1>2 DEF OfRun
  <2>2. CASE ~(i <= Len(a))
    <3>1. i - Len(a) \in 1..Len(b) /\ i = Len(a) + (i - Len(a)) BY <2>2, <1>2
    <3>2. c[i] = b[i - Len(a)] BY <3>1, <1>2
    <3> QED BY <3>1, <3>2 DEF OfRun
  <2> QED BY <2>1, <2>2
<1> QED BY <1>1, <1>3

(* A sequence with one more record.                                        *)
LEMMA CatOne ==
  ASSUME NEW a \in Seq(LogRecs), NEW b \in Seq(LogRecs)
  PROVE  Len(b) = 1 =>
           /\ a \o b \in Seq(LogRecs) /\ Len(a \o b) = Len(a) + 1 /\ Len(a) \in Nat
           /\ \A i \in 1..(Len(a) + 1) : (a \o b)[i] = IF i <= Len(a) THEN a[i] ELSE b[1]
<1>1. PICK c, n : c = a \o b /\ n = Len(b) OBVIOUS
<1>2. /\ c \in Seq(LogRecs) /\ Len(c) = Len(a) + n /\ Len(a) \in Nat
      /\ \A i \in 1..Len(a) : c[i] = a[i]
      /\ \A i \in 1..n : c[Len(a) + i] = b[i]
  BY <1>1, CatIs
<1>3. n = 1 => Len(c) = Len(a) + 1 /\ c[Len(a) + 1] = b[1] BY <1>2
<1> QED BY <1>1, <1>2, <1>3

(* A record or a gap joins the batch: the queue grows at its end.          *)
LEMMA TakeKeeps ==
  ASSUME SinkIInv, Len(sink.batch) < MaxBatch,
         \/ sink.phase = "select" /\ Take([sink EXCEPT !.phase = "drain"])
         \/ sink.phase \in {"drain", "lastDrain"} /\ Take(sink),
         UNCHANGED <<run, dir, halt, diskFaults, gone>>
  PROVE  SinkIInv'
<1> DEFINE R == Received
<1>1. /\ R \in Seq(LogRecs) /\ Len(R) = 1 /\ R[1].lo = ring.pos + 1 /\ R[1].hi <= ring.sent
      /\ R[1].run = run /\ ~R[1].torn /\ R[1].hi \in Nat /\ R # <<>>
  BY ReceivedIs DEF SinkIInv, Take
<1>2. /\ DOMAIN sink' = DOMAIN sink /\ sink'.batch = sink.batch \o R /\ sink'.buffer = sink.buffer
      /\ sink'.seq = sink.seq /\ sink'.last = sink.last
      /\ sink'.bytes = sink.bytes /\ sink'.written = sink.written
      /\ sink'.phase = IF sink.phase = "select" THEN "drain" ELSE sink.phase
  BY ZenonT(40) DEF Take, SinkIInv, SinkShape, WriterShape, SinkFields
<1>3. ring'.pos = R[1].hi /\ ring'.sent = ring.sent /\ ring'.closed = ring.closed
      /\ ring' \in [sent: Nat, pos: Nat, closed: BOOLEAN]
  BY <1>1 DEF Take, SinkIInv, SinkShape
<1> HIDE DEF R
<1>4. /\ sink.batch \in Seq(LogRecs) /\ sink.buffer \in Seq(LogRecs) /\ ring.pos + 1 \in Nat
      /\ ring'.pos + 1 \in Nat /\ sink.phase \in {"select", "drain", "lastDrain"}
  BY SMTT(40), <1>3 DEF SinkIInv, SinkShape, WriterShape
<1>5. sink'.batch \in Seq(LogRecs) /\ Len(sink'.batch) = Len(sink.batch) + 1
  BY <1>1, <1>2, <1>4, CatOne
<1>6. SinkShape'
  BY <1>1, <1>2, <1>3, <1>4, <1>5 DEF SinkIInv, SinkShape, WriterShape, SinkPhases
<1>7. sink.buffer = <<>> /\ Len(sink.buffer) = 0 /\ sink.bytes = 0
  BY <1>4 DEF SinkIInv, BatchShape
<1>8. BatchShape' BY <1>2, <1>4, <1>5, <1>7, SinkAssumption DEF BatchShape
<1>9. EndsDrained' BY <1>1, <1>2, <1>3, <1>4 DEF SinkIInv, SinkShape, EndsDrained, AllTaken
<1>10. Start(R, ring'.pos + 1) = ring.pos + 1 /\ Joined(R, ring'.pos + 1)
  BY <1>1, <1>3 DEF Start, Joined
<1>11. Joined(sink'.batch, ring'.pos + 1) /\ Waiting' = Waiting
  BY <1>1, <1>2, <1>4, <1>10, JoinedCat, StartCat DEF SinkIInv, QueueOK, Waiting
<1>12. Fresh(sink.batch)'
  <2>1. \A i \in 1..(Len(sink.batch) + 1) :
          (sink.batch \o R)[i].run = run /\ ~(sink.batch \o R)[i].torn
    BY <1>1, <1>4, CatOne DEF SinkIInv, QueueOK, Fresh
  <2> QED BY <1>2, <1>5, <2>1 DEF Fresh
<1>13. QueueOK' /\ Expected' = Expected
  BY <1>2, <1>11, <1>12 DEF SinkIInv, QueueOK, Fresh, Expected
<1>14. Numbered' /\ ActiveOK' /\ \A s \in DOMAIN dir' : WholeFile(dir'[s])
  BY <1>2, <1>4, <1>13, FilesKept
<1> QED BY <1>2, <1>4, <1>6, <1>8, <1>9, <1>13, <1>14 DEF SinkIInv, IdleBefore

(* A record moves from the batch to the buffer: the queue is the same.     *)
LEMMA MovesOn ==
  ASSUME SinkIInv, sink.batch # <<>>, sink'.batch = Tail(sink.batch),
         sink'.buffer = Append(sink.buffer, Head(sink.batch)), ring' = ring, run' = run
  PROVE  /\ QueueOK' /\ Expected' = Expected
         /\ sink'.batch \in Seq(LogRecs) /\ sink'.buffer \in Seq(LogRecs)
         /\ Len(sink'.buffer) + Len(sink'.batch) <= MaxBatch
         /\ sink'.buffer # <<>> /\ Size(Head(sink.batch)) \in 1..FrameSize
<1>1. PICK a, b, n : a = sink.buffer /\ b = sink.batch /\ n = ring.pos + 1 OBVIOUS
<1>2. /\ a \in Seq(LogRecs) /\ b \in Seq(LogRecs) /\ n \in Nat /\ b # <<>>
      /\ Joined(a, Start(b, n)) /\ Joined(b, n) /\ Len(a) + Len(b) <= MaxBatch
  <2>1. a \in Seq(LogRecs) /\ b \in Seq(LogRecs) /\ n \in Nat /\ b # <<>>
    BY <1>1 DEF SinkIInv, SinkShape, WriterShape
  <2>2. Joined(a, Start(b, n)) /\ Joined(b, n)
    BY <1>1 DEF SinkIInv, QueueOK, Waiting
  <2>3. Len(a) + Len(b) <= MaxBatch
    BY <1>1 DEF SinkIInv, BatchShape
  <2> QED BY <2>1, <2>2, <2>3
<1>3. /\ Append(a, Head(b)) \in Seq(LogRecs) /\ Tail(b) \in Seq(LogRecs) /\ Joined(Tail(b), n)
      /\ Joined(Append(a, Head(b)), Start(Tail(b), n))
      /\ Start(Append(a, Head(b)), Start(Tail(b), n)) = Start(a, Start(b, n))
  BY <1>2, JoinedMove
<1>4. /\ Len(Append(a, Head(b))) = Len(a) + 1 /\ Len(Tail(b)) = Len(b) - 1 /\ Len(b) > 0
      /\ Len(a) \in Nat /\ Len(b) \in Nat /\ MaxBatch \in Nat
      /\ \A i \in 1..Len(a) : Append(a, Head(b))[i] = a[i]
      /\ Append(a, Head(b))[Len(a) + 1] = b[1]
      /\ \A i \in 1..(Len(b) - 1) : Tail(b)[i] = b[i + 1]
  BY SMTT(40), <1>2, SinkAssumption
<1>5. \A i \in 1..Len(a) : a[i].run = run /\ ~a[i].torn
  BY <1>1 DEF SinkIInv, QueueOK, Fresh
<1>6. \A i \in 1..Len(b) : b[i].run = run /\ ~b[i].torn
  BY <1>1 DEF SinkIInv, QueueOK, Fresh
<1>7. \A i \in 1..(Len(a) + 1) : Append(a, Head(b))[i].run = run /\ ~Append(a, Head(b))[i].torn
  BY <1>4, <1>5, <1>6
<1>8. \A i \in 1..(Len(b) - 1) : Tail(b)[i].run = run /\ ~Tail(b)[i].torn
  BY <1>4, <1>6
<1>9. sink'.buffer = Append(a, Head(b)) /\ sink'.batch = Tail(b) /\ ring'.pos + 1 = n
  BY <1>1
<1>10. Fresh(sink.buffer)' /\ Fresh(sink.batch)' BY <1>4, <1>7, <1>8, <1>9 DEF Fresh
<1>11. Waiting' = Start(Tail(b), n) BY <1>9 DEF Waiting
<1>12. QueueOK' BY <1>3, <1>9, <1>10, <1>11 DEF QueueOK
<1>13. Expected' = Expected BY <1>1, <1>3, <1>9, <1>11 DEF Expected, Waiting
<1>14. Len(Append(a, Head(b))) + Len(Tail(b)) <= MaxBatch
  <2>1. (Len(a) + 1) + (Len(b) - 1) <= MaxBatch BY <1>2, <1>4
  <2> QED BY <1>4, <2>1
<1>15. Append(a, Head(b)) # <<>>
  <2>1. Len(Append(a, Head(b))) > 0 BY <1>4
  <2> QED BY <2>1
<1>16. Size(Head(b)) \in 1..FrameSize
  <2>1. FrameSize \in Nat \ {0} BY SinkAssumption
  <2> QED BY <2>1 DEF Size
<1> QED BY <1>1, <1>3, <1>9, <1>12, <1>13, <1>14, <1>15, <1>16

(* The fields after one record was buffered.                               *)
LEMMA BufferedIs ==
  ASSUME NEW s, DOMAIN s = SinkFields
  PROVE  /\ DOMAIN Buffered(s) = SinkFields /\ Buffered(s).phase = s.phase /\ Buffered(s).seq = s.seq
         /\ Buffered(s).last = s.last /\ Buffered(s).batch = Tail(s.batch)
         /\ Buffered(s).bytes = s.bytes + Size(Head(s.batch)) /\ Buffered(s).written = s.written
         /\ Buffered(s).buffer = Append(s.buffer, Head(s.batch))
  BY DEF Buffered, SinkFields

(* A record that fits goes from the batch to the buffer.                   *)
LEMMA WriteRecordKeeps ==
  ASSUME SinkIInv, WriteRecord
  PROVE  SinkIInv'
<1>1. /\ dir' = dir /\ run' = run /\ diskFaults' = diskFaults /\ halt' = halt /\ ring' = ring
      /\ sink.phase = "write" /\ sink.batch # <<>> /\ sink' = Buffered(sink)
  BY DEF WriteRecord
<1>2. /\ DOMAIN sink' = SinkFields /\ sink'.phase = "write" /\ sink'.seq = sink.seq
      /\ sink'.last = sink.last /\ sink'.batch = Tail(sink.batch)
      /\ sink'.buffer = Append(sink.buffer, Head(sink.batch))
      /\ sink'.bytes = sink.bytes + Size(Head(sink.batch)) /\ sink'.written = sink.written
  BY <1>1, BufferedIs DEF SinkIInv, SinkShape, WriterShape
<1>3. /\ QueueOK' /\ Expected' = Expected
      /\ sink'.batch \in Seq(LogRecs) /\ sink'.buffer \in Seq(LogRecs)
      /\ Len(sink'.buffer) + Len(sink'.batch) <= MaxBatch
      /\ sink'.buffer # <<>> /\ sink'.bytes \in Nat
  <2>1. sink.bytes \in Nat /\ FrameSize \in Nat BY SinkAssumption DEF SinkIInv, SinkShape, WriterShape
  <2>2. Size(Head(sink.batch)) \in Nat BY SinkAssumption DEF Size
  <2>3. sink.bytes + Size(Head(sink.batch)) \in Nat BY <2>1, <2>2
  <2>4. sink'.bytes \in Nat BY <1>2, <2>3
  <2> QED BY <1>1, <1>2, <2>1, <2>4, MovesOn
<1>4. SinkShape' BY <1>1, <1>2, <1>3 DEF SinkIInv, SinkShape, WriterShape, SinkPhases
<1>5. BatchShape' BY <1>2, <1>3 DEF BatchShape
<1>6. EndsDrained' BY <1>1, <1>2 DEF SinkIInv, EndsDrained, AllTaken
<1>7. Numbered' /\ ActiveOK' /\ \A s \in DOMAIN dir' : WholeFile(dir'[s])
  BY <1>1, <1>2, <1>3, FilesKept
<1> QED BY <1>1, <1>2, <1>3, <1>4, <1>5, <1>6, <1>7 DEF SinkIInv, IdleBefore

(* The disk fails at most MaxDiskFaults times.                             *)
LEMMA CostIs ==
  ASSUME SinkIInv, NEW ok, Cost(ok)
  PROVE  diskFaults' \in 0..MaxDiskFaults
  BY SinkAssumption DEF Cost, SinkIInv, SinkShape

(* A file that takes a part of the buffer keeps its shape; the queue       *)
(* behind it goes on with the batch.                                       *)
LEMMA RotateFailsKeeps ==
  ASSUME SinkIInv, RotateFails
  PROVE  SinkIInv'
<1> DEFINE s0 == [sink EXCEPT !.phase = "write"]
<1>1. /\ run' = run /\ halt' = halt /\ ring' = ring /\ diskFaults' \in 0..MaxDiskFaults
      /\ sink.phase = "create" /\ dir' = AppendedTo(sink.seq, <<>>, 0, TRUE)
      /\ sink' = Buffered(s0) /\ sink.batch # <<>>
  BY CostIs DEF RotateFails, SinkIInv, BatchShape
<1>2. DOMAIN s0 = SinkFields /\ s0.phase = "write" /\ s0.seq = sink.seq /\ s0.last = sink.last
      /\ s0.batch = sink.batch /\ s0.buffer = sink.buffer /\ s0.bytes = sink.bytes
  BY DEF SinkIInv, SinkShape, WriterShape, SinkFields
<1> HIDE DEF s0
<1>3. /\ DOMAIN sink' = SinkFields /\ sink'.phase = "write" /\ sink'.seq = sink.seq
      /\ sink'.last = sink.last /\ sink'.batch = Tail(sink.batch)
      /\ sink'.buffer = Append(sink.buffer, Head(sink.batch))
      /\ sink'.bytes = sink.bytes + Size(Head(sink.batch)) /\ sink'.written = s0.written
  BY <1>1, <1>2, BufferedIs
<1>4. /\ QueueOK' /\ sink'.batch \in Seq(LogRecs) /\ sink'.buffer \in Seq(LogRecs)
      /\ Len(sink'.buffer) + Len(sink'.batch) <= MaxBatch
      /\ sink'.buffer # <<>> /\ sink'.bytes \in Nat /\ sink'.written \in Nat
  <2>1. sink.bytes \in Nat /\ FrameSize \in Nat /\ s0.written \in Nat
    BY SinkAssumption DEF SinkIInv, SinkShape, WriterShape, SinkFields, s0
  <2>2. Size(Head(sink.batch)) \in Nat BY SinkAssumption DEF Size
  <2>3. sink.bytes + Size(Head(sink.batch)) \in Nat BY <2>1, <2>2
  <2>4. sink'.bytes \in Nat BY <1>3, <2>3
  <2> QED BY <1>1, <1>3, <2>1, <2>4, MovesOn
<1>5. sink.seq \in DOMAIN dir /\ \A t \in DOMAIN dir : t <= sink.seq
  BY <1>1 DEF SinkIInv, Numbered, NewestIs
<1>6. <<>> \in Seq(LogRecs) OBVIOUS
<1>7. /\ DOMAIN dir' = DOMAIN dir /\ dir' \in [DOMAIN dir -> LogFiles]
      /\ dir'[sink.seq].recs = dir[sink.seq].recs \o <<>>
      /\ dir'[sink.seq].over = (dir[sink.seq].over \/ TRUE)
      /\ \A s \in DOMAIN dir \ {sink.seq} : dir'[s] = dir[s]
  BY <1>1, <1>5, <1>6, AppendsTo DEF SinkIInv
<1>8. dir[sink.seq].recs \in Seq(LogRecs) BY <1>5 DEF SinkIInv, SinkShape, LogFiles
<1>9. OfRun(dir[sink.seq].recs) BY <1>1 DEF SinkIInv, ActiveOK, OfRun
<1>10. OfRun(<<>>) /\ dir'[sink.seq].over = TRUE
  <2>1. OfRun(<<>>) BY DEF OfRun
  <2> QED BY <1>7, <2>1
<1>11. WholeFile(dir'[sink.seq]) BY <1>6, <1>7, <1>8, <1>9, <1>10, AppendedWhole
<1>12. \A s \in DOMAIN dir' : WholeFile(dir'[s]) BY <1>7, <1>11 DEF SinkIInv
<1>13. dir'[sink.seq].recs = dir[sink.seq].recs BY <1>7, <1>8
<1>14. ActiveOK'
  <2>1. run' = run /\ sink'.seq = sink.seq /\ \A i \in 1..Len(dir[sink.seq].recs) : dir[sink.seq].recs[i].run = run
    BY <1>1, <1>3, <1>9 DEF OfRun
  <2>2. dir'[sink'.seq].over = TRUE /\ dir'[sink'.seq].recs = dir[sink.seq].recs BY <2>1, <1>10, <1>13
  <2> QED BY <2>1, <2>2 DEF ActiveOK
<1>15. Numbered' BY <1>3, <1>5, <1>7 DEF Numbered, NewestIs
<1>16. SinkShape' BY <1>1, <1>3, <1>4, <1>7 DEF SinkIInv, SinkShape, WriterShape, SinkPhases
<1>17. BatchShape' BY <1>3, <1>4 DEF BatchShape
<1>18. EndsDrained' BY <1>1, <1>3 DEF SinkIInv, EndsDrained, AllTaken
<1> QED BY <1>1, <1>3, <1>4, <1>12, <1>14, <1>15, <1>16, <1>17, <1>18 DEF SinkIInv, IdleBefore

(* Where the queue starts is a number.                                     *)
LEMMA WaitingIs ==
  ASSUME SinkIInv
  PROVE  Waiting \in Nat
<1>1. PICK b, n : b = sink.batch /\ n = ring.pos + 1 OBVIOUS
<1>2. b \in Seq(LogRecs) /\ n \in Nat BY <1>1 DEF SinkIInv, SinkShape, WriterShape
<1>3. b # <<>> => b[1].lo \in Nat
  <2>1. b # <<>> => b[1] \in LogRecs BY <1>2
  <2> QED BY <2>1 DEF LogRecs, AnyRecs
<1> QED BY <1>1, <1>2, <1>3 DEF Waiting, Start

(* Records that follow the active file are appended: every file is whole.  *)
LEMMA FileGrows ==
  ASSUME SinkIInv, sink.phase \notin {"none", "aborted"}, NEW es \in Seq(LogRecs), NEW l \in Nat,
         NEW o \in BOOLEAN, dir' = AppendedTo(sink.seq, es, l, o), OfRun(es),
         ~o => Linked(es) /\ Start(es, Waiting) = Expected
  PROVE  /\ DOMAIN dir' = DOMAIN dir /\ dir' \in [DOMAIN dir -> LogFiles]
         /\ \A s \in DOMAIN dir : WholeFile(dir'[s])
         /\ dir'[sink.seq].recs = dir[sink.seq].recs \o es
         /\ dir'[sink.seq].over = (dir[sink.seq].over \/ o)
         /\ dir[sink.seq].recs \in Seq(LogRecs) /\ dir[sink.seq].over \in BOOLEAN
         /\ OfRun(dir[sink.seq].recs)
         /\ sink.seq \in DOMAIN dir
<1>1. sink.seq \in DOMAIN dir BY DEF SinkIInv, Numbered, NewestIs
<1>2. /\ DOMAIN dir' = DOMAIN dir /\ dir' \in [DOMAIN dir -> LogFiles]
      /\ dir'[sink.seq].recs = dir[sink.seq].recs \o es
      /\ dir'[sink.seq].over = (dir[sink.seq].over \/ o)
      /\ \A s \in DOMAIN dir \ {sink.seq} : dir'[s] = dir[s]
  BY <1>1, AppendsTo DEF SinkIInv
<1>3. dir[sink.seq].recs \in Seq(LogRecs) /\ dir[sink.seq].over \in BOOLEAN
  BY <1>1 DEF SinkIInv, SinkShape, LogFiles
<1>4. OfRun(dir[sink.seq].recs)
  BY DEF SinkIInv, ActiveOK, OfRun
<1>5. ~dir[sink.seq].over => Fresh(dir[sink.seq].recs) /\ Joined(dir[sink.seq].recs, Expected)
  BY DEF SinkIInv, ActiveOK
<1>6. WholeFile(dir'[sink.seq])
  <2>1. PICK r, f, n : r = dir[sink.seq].recs /\ f = dir'[sink.seq] /\ n = Waiting OBVIOUS
  <2>2. ~f.over => Fresh(r) /\ Joined(r, Start(es, n)) /\ Linked(es)
    BY <1>2, <1>5, <2>1
  <2>3. r \in Seq(LogRecs) /\ n \in Nat /\ f.recs = r \o es /\ OfRun(r)
    BY <1>2, <1>3, <1>4, <2>1, WaitingIs
  <2>4. WholeFile(f) BY <2>2, <2>3, AppendedWhole
  <2> QED BY <2>1, <2>4
<1>7. \A s \in DOMAIN dir : WholeFile(dir'[s]) BY <1>2, <1>6 DEF SinkIInv
<1> QED BY <1>1, <1>2, <1>3, <1>4, <1>7

(* The buffer is empty after a flush, and the writer goes on, rotates or   *)
(* ends.                                                                   *)
LEMMA FlushLeaves ==
  ASSUME SinkIInv, sink.phase \in {"flush", "flushThenRotate"}, NEW w \in Nat,
         sink' = [AfterFlush(sink) EXCEPT !.written = w],
         ring' = ring, run' = run, halt' = halt
  PROVE  /\ WriterShape' /\ BatchShape' /\ EndsDrained' /\ QueueOK'
         /\ sink'.seq = sink.seq /\ sink'.phase \in {"prune", "done", "select"}
         /\ Expected' = Waiting
<1>1. /\ DOMAIN sink' = SinkFields /\ sink'.buffer = <<>> /\ sink'.batch = sink.batch
      /\ sink'.seq = sink.seq /\ sink'.last = sink.last /\ sink'.bytes = 0 /\ sink'.written = w
      /\ sink'.phase = IF sink.phase = "flushThenRotate" THEN "prune"
                       ELSE IF sink.last THEN "done" ELSE "select"
  BY DEF AfterFlush, SinkIInv, SinkShape, WriterShape, SinkFields
<1>2. WriterShape'
  <2>1. sink'.phase \in SinkPhases BY <1>1 DEF SinkPhases
  <2>2. /\ sink.batch \in Seq(LogRecs) /\ sink.last \in BOOLEAN /\ sink.seq \in Nat
        /\ <<>> \in Seq(LogRecs) /\ 0 \in Nat
    BY DEF SinkIInv, SinkShape, WriterShape
  <2> QED BY <1>1, <2>1, <2>2 DEF WriterShape
<1>4. BatchShape'
  <2>1. PICK m, n : m = Len(sink.buffer) /\ n = Len(sink.batch) OBVIOUS
  <2>2. m \in Nat /\ n \in Nat BY <2>1 DEF SinkIInv, SinkShape, WriterShape
  <2>3. m + n <= MaxBatch BY <2>1 DEF SinkIInv, BatchShape
  <2>4. 0 + n <= MaxBatch BY <2>2, <2>3, SinkAssumption
  <2>5. Len(sink'.buffer) = 0 /\ Len(sink'.batch) = n BY <1>1, <2>1
  <2>6. sink.phase = "flush" => sink.batch = <<>> BY DEF SinkIInv, BatchShape
  <2>7. sink.phase = "flushThenRotate" => sink.batch # <<>> BY DEF SinkIInv, BatchShape
  <2>8. Len(sink'.buffer) + Len(sink'.batch) <= MaxBatch BY <2>4, <2>5
  <2>9. /\ sink'.phase = "prune" => sink.phase = "flushThenRotate"
        /\ sink'.phase \in {"done", "select"} => sink.phase = "flush"
        /\ sink'.phase \in {"prune", "done", "select"}
    BY <1>1
  <2>10. /\ sink'.phase \in {"none", "select"} => sink'.batch = <<>> /\ sink'.buffer = <<>>
         /\ sink'.phase \in {"flushThenRotate", "prune", "create"} => sink'.batch # <<>>
    BY <1>1, <2>6, <2>7, <2>9
  <2> QED BY <1>1, <2>8, <2>9, <2>10 DEF BatchShape
<1>5. EndsDrained' BY <1>1 DEF SinkIInv, EndsDrained, AllTaken
<1>6. QueueOK' BY SMTT(40), <1>1 DEF SinkIInv, QueueOK, Fresh, Joined, Waiting
<1>7. Expected' = Waiting BY <1>1 DEF Expected, Waiting, Start
<1> QED BY <1>1, <1>2, <1>4, <1>5, <1>6, <1>7

(* The buffer goes to the end of the active file.                          *)
LEMMA FlushKeeps ==
  ASSUME SinkIInv, FlushPending
  PROVE  SinkIInv'
<1>1. PICK w \in Nat : sink' = [AfterFlush(sink) EXCEPT !.written = w]
  <2>1. AfterFlush(sink).written = sink.written
    BY DEF AfterFlush, SinkIInv, SinkShape, WriterShape, SinkFields
  <2>2. sink.written + sink.bytes \in Nat BY DEF SinkIInv, SinkShape, WriterShape
  <2> QED BY <2>1, <2>2 DEF FlushPending
<1>2. /\ run' = run /\ halt' = halt /\ ring' = ring /\ diskFaults' = diskFaults
      /\ sink.phase \in {"flush", "flushThenRotate"} /\ dir' = AppendedTo(sink.seq, sink.buffer, sink.bytes, FALSE)
  BY DEF FlushPending
<1>3. /\ WriterShape' /\ BatchShape' /\ EndsDrained' /\ QueueOK'
      /\ sink'.seq = sink.seq /\ sink'.phase \in {"prune", "done", "select"}
      /\ Expected' = Waiting
  BY <1>1, <1>2, FlushLeaves
<1>4. PICK es, n : es = sink.buffer /\ n = Waiting OBVIOUS
<1>5. es \in Seq(LogRecs) /\ Fresh(es) /\ Joined(es, n) /\ n \in Nat /\ sink.bytes \in Nat
  BY <1>4, WaitingIs DEF SinkIInv, SinkShape, WriterShape, QueueOK
<1>6. OfRun(es) /\ Linked(es)
  BY <1>5 DEF OfRun, Linked, Fresh, Joined
<1>7. Start(es, Waiting) = Expected BY <1>4 DEF Expected
<1>8. /\ DOMAIN dir' = DOMAIN dir /\ dir' \in [DOMAIN dir -> LogFiles]
      /\ \A s \in DOMAIN dir : WholeFile(dir'[s])
      /\ dir'[sink.seq].recs = dir[sink.seq].recs \o es
      /\ dir'[sink.seq].over = (dir[sink.seq].over \/ FALSE)
      /\ dir[sink.seq].recs \in Seq(LogRecs) /\ dir[sink.seq].over \in BOOLEAN
      /\ OfRun(dir[sink.seq].recs)
      /\ sink.seq \in DOMAIN dir
  BY <1>2, <1>4, <1>5, <1>6, <1>7, FileGrows
<1>9. PICK r, c : r = dir[sink.seq].recs /\ c = r \o es OBVIOUS
<1>10. /\ Len(c) = Len(r) + Len(es) /\ Len(r) \in Nat /\ Len(es) \in Nat
       /\ \A i \in 1..Len(r) : c[i] = r[i]
       /\ \A i \in 1..Len(es) : c[Len(r) + i] = es[i]
  BY <1>5, <1>8, <1>9, CatIs
<1>11. \A i \in 1..Len(c) : i <= Len(r) \/ \E k \in 1..Len(es) : i = Len(r) + k
  <2> SUFFICES ASSUME NEW i \in 1..Len(c), ~(i <= Len(r)) PROVE \E k \in 1..Len(es) : i = Len(r) + k
    OBVIOUS
  <2>1. i - Len(r) \in 1..Len(es) /\ i = Len(r) + (i - Len(r)) BY <1>10
  <2> QED BY <2>1
<1>12. \A i \in 1..Len(c) : c[i].run = run
  BY <1>5, <1>6, <1>8, <1>9, CatOfRun
<1>13. ~dir[sink.seq].over =>
         (\A i \in 1..Len(c) : c[i].run = run /\ ~c[i].torn) /\ Joined(c, n)
  <2> SUFFICES ASSUME ~dir[sink.seq].over
               PROVE  (\A i \in 1..Len(c) : c[i].run = run /\ ~c[i].torn) /\ Joined(c, n)
    OBVIOUS
  <2>1. Fresh(r) /\ Joined(r, Start(es, n)) BY <1>2, <1>4, <1>7, <1>9 DEF SinkIInv, ActiveOK
  <2>2. Joined(c, n) BY <2>1, <1>5, <1>8, <1>9, JoinedCat
  <2>3. \A i \in 1..Len(c) : ~c[i].torn
    <3>1. \A i \in 1..Len(c) : i <= Len(r) => i \in 1..Len(r) BY <1>10
    <3>2. \A i \in 1..Len(r) : ~r[i].torn BY <2>1 DEF Fresh
    <3>3. \A i \in 1..Len(es) : ~es[i].torn BY <1>5 DEF Fresh
    <3> QED BY <3>1, <3>2, <3>3, <1>10, <1>11
  <2> QED BY <2>2, <2>3, <1>12
<1>14. dir'[sink'.seq].recs = c /\ dir'[sink'.seq].over = dir[sink.seq].over
  BY <1>3, <1>8, <1>9
<1>15. ActiveOK'
  BY <1>2, <1>3, <1>4, <1>12, <1>13, <1>14 DEF ActiveOK, Fresh
<1>16. Numbered' BY <1>2, <1>3, <1>8 DEF SinkIInv, Numbered, NewestIs
<1>17. SinkShape' BY <1>2, <1>3, <1>8 DEF SinkIInv, SinkShape
<1> QED BY <1>2, <1>3, <1>8, <1>15, <1>16, <1>17 DEF SinkIInv, IdleBefore

(* A failed write leaves some of its records, one of them torn, or none.   *)
LEMMA FlushFailsKeeps ==
  ASSUME SinkIInv, FlushFails
  PROVE  SinkIInv'
<1>1. PICK w \in Nat : sink' = [AfterFlush(sink) EXCEPT !.written = w]
  <2>1. AfterFlush(sink).written = sink.written
    BY DEF AfterFlush, SinkIInv, SinkShape, WriterShape, SinkFields
  <2>2. sink.written + sink.bytes \in Nat /\ sink.written + 0 \in Nat BY DEF SinkIInv, SinkShape, WriterShape
  <2> QED BY <2>1, <2>2 DEF FlushFails
<1>2. /\ run' = run /\ halt' = halt /\ ring' = ring /\ diskFaults' \in 0..MaxDiskFaults
      /\ sink.phase \in {"flush", "flushThenRotate"}
  BY CostIs DEF FlushFails
<1>3. /\ WriterShape' /\ BatchShape' /\ EndsDrained' /\ QueueOK'
      /\ sink'.seq = sink.seq /\ sink'.phase \in {"prune", "done", "select"}
  BY <1>1, <1>2, FlushLeaves
<1>4. PICK es \in Seq(LogRecs), l \in Nat : dir' = AppendedTo(sink.seq, es, l, TRUE) /\ OfRun(es)
  <2>1. CASE dir' = AppendedTo(sink.seq, <<>>, 0, TRUE)
    <3>1. <<>> \in Seq(LogRecs) /\ OfRun(<<>>) BY DEF OfRun
    <3> QED BY <2>1, <3>1
  <2>2. CASE \E n \in 0..(Len(sink.buffer) - 1) : dir' = AppendedTo(sink.seq, Cut(sink.buffer, n), sink.bytes, TRUE)
    <3>1. PICK n \in 0..(Len(sink.buffer) - 1) : dir' = AppendedTo(sink.seq, Cut(sink.buffer, n), sink.bytes, TRUE)
      BY <2>2
    <3>2. PICK b, m : b = sink.buffer /\ m = Waiting OBVIOUS
    <3>3. b \in Seq(LogRecs) /\ Fresh(b) /\ Joined(b, m) /\ m \in Nat /\ sink.bytes \in Nat
      BY <3>2, WaitingIs DEF SinkIInv, SinkShape, WriterShape, QueueOK
    <3>4. Cut(b, n) \in Seq(LogRecs) /\ OfRun(Cut(b, n)) BY <3>1, <3>2, <3>3, CutIs
    <3> QED BY <3>1, <3>2, <3>3, <3>4
  <2> QED BY <2>1, <2>2 DEF FlushFails
<1>8. /\ DOMAIN dir' = DOMAIN dir /\ dir' \in [DOMAIN dir -> LogFiles]
      /\ \A s \in DOMAIN dir : WholeFile(dir'[s])
      /\ dir'[sink.seq].recs = dir[sink.seq].recs \o es
      /\ dir'[sink.seq].over = (dir[sink.seq].over \/ TRUE)
      /\ dir[sink.seq].recs \in Seq(LogRecs)
      /\ OfRun(dir[sink.seq].recs)
  BY <1>2, <1>4, FileGrows
<1>9. PICK r, c : r = dir[sink.seq].recs /\ c = r \o es OBVIOUS
<1>10. \A i \in 1..Len(c) : c[i].run = run
  BY <1>4, <1>8, <1>9, CatOfRun
<1>14. dir'[sink'.seq].recs = c /\ dir'[sink'.seq].over = TRUE
  BY <1>3, <1>8, <1>9
<1>15. ActiveOK'
  BY <1>2, <1>10, <1>14 DEF ActiveOK
<1>16. Numbered' BY <1>2, <1>3, <1>8 DEF SinkIInv, Numbered, NewestIs
<1>17. SinkShape' BY <1>2, <1>3, <1>8 DEF SinkIInv, SinkShape
<1> QED BY <1>2, <1>3, <1>8, <1>15, <1>16, <1>17 DEF SinkIInv, IdleBefore

(* A writer that is cut off leaves its files whole.                        *)
LEMMA CutOffIs ==
  ASSUME SinkIInv, sink.phase \notin {"none", "aborted"}, CutOff
  PROVE  /\ DOMAIN dir' = DOMAIN dir /\ dir' \in [DOMAIN dir -> LogFiles]
         /\ \A s \in DOMAIN dir : WholeFile(dir'[s])
<1>1. CASE dir' = dir
  BY <1>1 DEF SinkIInv, SinkShape
<1>2. CASE \E n \in 0..(Len(sink.buffer) - 1) : dir' = AppendedTo(sink.seq, Cut(sink.buffer, n), sink.bytes, FALSE)
  <2>1. PICK n \in 0..(Len(sink.buffer) - 1) : dir' = AppendedTo(sink.seq, Cut(sink.buffer, n), sink.bytes, FALSE)
    BY <1>2
  <2>2. PICK b, m : b = sink.buffer /\ m = Waiting OBVIOUS
  <2>3. b \in Seq(LogRecs) /\ Fresh(b) /\ Joined(b, m) /\ m \in Nat /\ sink.bytes \in Nat
    BY <2>2, WaitingIs DEF SinkIInv, SinkShape, WriterShape, QueueOK
  <2>4. /\ Cut(b, n) \in Seq(LogRecs) /\ OfRun(Cut(b, n)) /\ Linked(Cut(b, n))
        /\ Start(Cut(b, n), m) = Start(b, m)
    BY <2>1, <2>2, <2>3, CutIs
  <2>5. PICK es : es = Cut(b, n) OBVIOUS
  <2>6. /\ es \in Seq(LogRecs) /\ OfRun(es) /\ Linked(es) /\ Start(es, Waiting) = Expected
        /\ dir' = AppendedTo(sink.seq, es, sink.bytes, FALSE) /\ sink.bytes \in Nat
    BY <2>1, <2>2, <2>3, <2>4, <2>5 DEF Expected
  <2> QED BY <2>6, FileGrows
<1> QED BY <1>1, <1>2 DEF CutOff

(* An aborted writer leaves whole files.                                   *)
LEMMA AbortKeeps ==
  ASSUME SinkIInv, ShutdownAborts
  PROVE  SinkIInv'
<1>1. /\ run' = run /\ ring' = ring /\ diskFaults' = diskFaults /\ halt.phase = "waiting"
      /\ halt' = [halt EXCEPT !.phase = "returned"] /\ sink' = [sink EXCEPT !.phase = "aborted"] /\ CutOff
  BY DEF ShutdownAborts
<1>2. /\ DOMAIN sink' = SinkFields /\ sink'.buffer = sink.buffer /\ sink'.batch = sink.batch
      /\ sink'.seq = sink.seq /\ sink'.last = sink.last /\ sink'.phase = "aborted"
      /\ sink'.bytes = sink.bytes /\ sink'.written = sink.written
  BY <1>1 DEF SinkIInv, SinkShape, WriterShape, SinkFields
<1>3. halt' \in [phase: {"none", "waiting", "returned"}, due: Nat] /\ halt'.due = halt.due
  BY <1>1 DEF SinkIInv, SinkShape
<1>4. sink.phase # "none"
  BY <1>1 DEF SinkIInv, IdleBefore
<1>5. /\ DOMAIN dir' = DOMAIN dir /\ dir' \in [DOMAIN dir -> LogFiles]
      /\ \A s \in DOMAIN dir : WholeFile(dir'[s])
  <2>1. CASE sink.phase = "aborted"
    BY <1>1, <2>1 DEF CutOff, SinkIInv, SinkShape
  <2> QED BY <1>1, <1>4, <2>1, CutOffIs
<1>6. SinkShape' BY <1>1, <1>2, <1>3, <1>5 DEF SinkIInv, SinkShape, WriterShape, SinkPhases
<1>7. BatchShape' BY <1>2 DEF SinkIInv, BatchShape
<1>8. EndsDrained' BY <1>1, <1>2, <1>3 DEF SinkIInv, EndsDrained
<1>9. QueueOK' BY <1>1, <1>2, QueueKept
<1>10. Numbered' BY <1>2, <1>4, <1>5 DEF SinkIInv, Numbered, NewestIs
<1>11. ActiveOK' BY <1>2 DEF ActiveOK
<1> QED BY <1>2, <1>4, <1>5, <1>6, <1>7, <1>8, <1>9, <1>10, <1>11 DEF SinkIInv, IdleBefore

(* The files of a daemon that ended stay; everything else starts again.    *)
LEMMA NextRunKeeps ==
  ASSUME SinkIInv, NextRun
  PROVE  SinkIInv'
<1>1. /\ run < MaxRuns /\ sink.phase # "none" /\ run' = run + 1 /\ diskFaults' = diskFaults
      /\ ring' = [sent |-> 0, pos |-> 0, closed |-> FALSE] /\ halt' = [phase |-> "none", due |-> 0]
      /\ sink' = NoSink /\ (dir' = dir \/ (sink.phase # "aborted" /\ CutOff))
  BY DEF NextRun
<1>2. /\ DOMAIN dir' = DOMAIN dir /\ dir' \in [DOMAIN dir -> LogFiles]
      /\ \A s \in DOMAIN dir : WholeFile(dir'[s])
  <2>1. CASE dir' = dir BY <2>1 DEF SinkIInv, SinkShape
  <2> QED BY <1>1, <2>1, CutOffIs
<1>3. /\ DOMAIN sink' = SinkFields /\ sink'.buffer = <<>> /\ sink'.batch = <<>>
      /\ sink'.seq = 0 /\ sink'.last = FALSE /\ sink'.phase = "none" /\ sink'.bytes = 0 /\ sink'.written = 0
  BY <1>1 DEF NoSink, SinkFields
<1>4. SinkShape'
  <2>1. run' \in 1..MaxRuns BY <1>1, SinkAssumption DEF SinkIInv, SinkShape
  <2>2. ring' \in [sent: Nat, pos: Nat, closed: BOOLEAN] /\ ring'.pos <= ring'.sent BY <1>1
  <2>3. halt' \in [phase: {"none", "waiting", "returned"}, due: Nat] BY <1>1
  <2>4. WriterShape'
    <3>1. <<>> \in Seq(LogRecs) /\ 0 \in Nat /\ "none" \in SinkPhases BY DEF SinkPhases
    <3> QED BY <1>3, <3>1 DEF WriterShape
  <2> QED BY <1>1, <1>2, <2>1, <2>2, <2>3, <2>4 DEF SinkIInv, SinkShape
<1>5. BatchShape' BY <1>3, SinkAssumption DEF BatchShape
<1>6. EndsDrained' BY <1>1, <1>3 DEF EndsDrained
<1>7. QueueOK' BY <1>3 DEF QueueOK, Fresh, Joined
<1>8. Numbered' BY <1>1, <1>2, <1>3 DEF SinkIInv, Numbered, NewestIs
<1>9. ActiveOK' BY <1>3 DEF ActiveOK
<1> QED BY <1>1, <1>2, <1>3, <1>4, <1>5, <1>6, <1>7, <1>8, <1>9 DEF SinkIInv, IdleBefore

(* Pruning deletes old files and never the active one.                     *)
LEMMA RotatePrunesKeeps ==
  ASSUME SinkIInv, NEW ok \in BOOLEAN, RotatePrunes(ok)
  PROVE  SinkIInv'
<1>1. /\ run' = run /\ ring' = ring /\ halt' = halt /\ diskFaults' \in 0..MaxDiskFaults
      /\ sink.phase = "prune" /\ sink' = [sink EXCEPT !.phase = "create"]
      /\ dir' = Remaining(dir, MaxFiles - 1, sink.seq, ok)
  BY CostIs DEF RotatePrunes
<1>2. /\ DOMAIN sink' = SinkFields /\ sink'.buffer = sink.buffer /\ sink'.batch = sink.batch
      /\ sink'.seq = sink.seq /\ sink'.last = sink.last /\ sink'.phase = "create"
      /\ sink'.bytes = sink.bytes /\ sink'.written = sink.written
  BY <1>1 DEF SinkIInv, SinkShape, WriterShape, SinkFields
<1>3. sink.seq \in DOMAIN dir /\ \A t \in DOMAIN dir : t <= sink.seq
  BY <1>1 DEF SinkIInv, Numbered, NewestIs
<1>4. /\ DOMAIN dir' \subseteq DOMAIN dir /\ dir' \in [DOMAIN dir' -> LogFiles]
      /\ sink.seq \in DOMAIN dir' /\ \A s \in DOMAIN dir' : dir'[s] = dir[s]
  <2>1. dir \in [DOMAIN dir -> LogFiles] BY DEF SinkIInv, SinkShape
  <2> QED BY <1>1, <1>3, <2>1, RemainingIs
<1>5. SinkShape' BY <1>1, <1>2, <1>4 DEF SinkIInv, SinkShape, WriterShape, SinkPhases
<1>6. BatchShape' BY <1>1, <1>2 DEF SinkIInv, BatchShape
<1>7. EndsDrained' BY <1>1, <1>2 DEF SinkIInv, EndsDrained, AllTaken
<1>8. QueueOK' /\ Expected' = Expected BY <1>1, <1>2, QueueKept
<1>9. Numbered' BY <1>2, <1>3, <1>4 DEF Numbered, NewestIs
<1>10. ActiveOK' BY <1>1, <1>2, <1>4, <1>8 DEF SinkIInv, ActiveOK, Fresh
<1>11. \A s \in DOMAIN dir' : WholeFile(dir'[s]) BY <1>4 DEF SinkIInv
<1> QED BY <1>2, <1>5, <1>6, <1>7, <1>8, <1>9, <1>10, <1>11 DEF SinkIInv, IdleBefore

(* The new file has the next number and starts with the next record.       *)
LEMMA RotateCreatesKeeps ==
  ASSUME SinkIInv, NEW ok \in BOOLEAN, RotateCreates(ok)
  PROVE  SinkIInv'
<1> DEFINE s0 == [sink EXCEPT !.phase = "write", !.seq = @ + 1, !.written = 0]
           n == sink.seq + 1
<1>1. /\ run' = run /\ ring' = ring /\ halt' = halt /\ diskFaults' \in 0..MaxDiskFaults
      /\ sink.phase = "create" /\ sink' = Buffered(s0) /\ sink.batch # <<>>
      /\ dir' = Remaining(WithFile(dir, n), MaxFiles, n, ok)
  BY CostIs DEF RotateCreates, SinkIInv, BatchShape
<1>2. DOMAIN s0 = SinkFields /\ s0.phase = "write" /\ s0.seq = n /\ s0.last = sink.last
      /\ s0.batch = sink.batch /\ s0.buffer = sink.buffer /\ s0.bytes = sink.bytes
  BY DEF SinkIInv, SinkShape, WriterShape, SinkFields
<1> HIDE DEF s0
<1>3. /\ DOMAIN sink' = SinkFields /\ sink'.phase = "write" /\ sink'.seq = n
      /\ sink'.last = sink.last /\ sink'.batch = Tail(sink.batch)
      /\ sink'.buffer = Append(sink.buffer, Head(sink.batch))
      /\ sink'.bytes = sink.bytes + Size(Head(sink.batch)) /\ sink'.written = s0.written
  BY <1>1, <1>2, BufferedIs
<1>4. /\ QueueOK' /\ sink'.batch \in Seq(LogRecs) /\ sink'.buffer \in Seq(LogRecs)
      /\ Len(sink'.buffer) + Len(sink'.batch) <= MaxBatch
      /\ sink'.buffer # <<>> /\ sink'.bytes \in Nat /\ sink'.written \in Nat
  <2>1. sink.bytes \in Nat /\ FrameSize \in Nat /\ s0.written \in Nat
    BY SinkAssumption DEF SinkIInv, SinkShape, WriterShape, SinkFields, s0
  <2>2. Size(Head(sink.batch)) \in Nat BY SinkAssumption DEF Size
  <2>3. sink.bytes + Size(Head(sink.batch)) \in Nat BY <2>1, <2>2
  <2>4. sink'.bytes \in Nat BY <1>3, <2>3
  <2> QED BY <1>1, <1>3, <2>1, <2>4, MovesOn
<1>5. /\ sink.seq \in DOMAIN dir /\ (\A t \in DOMAIN dir : t <= sink.seq) /\ DOMAIN dir \subseteq Nat \ {0}
      /\ sink.seq \in Nat
  BY <1>1 DEF SinkIInv, Numbered, NewestIs, SinkShape, WriterShape
<1>6. n \in Nat \ {0} /\ n \notin DOMAIN dir /\ \A t \in DOMAIN dir \union {n} : t <= n
  BY <1>5
<1> HIDE DEF n
<1>7. PICK m : m = WithFile(dir, n) OBVIOUS
<1>8. /\ DOMAIN m = DOMAIN dir \union {n} /\ m \in [DOMAIN dir \union {n} -> LogFiles]
      /\ m[n] = NoFile /\ \A t \in DOMAIN dir \ {n} : m[t] = dir[t]
  <2>1. dir \in [DOMAIN dir -> LogFiles] BY DEF SinkIInv, SinkShape
  <2>2. NoFile \in LogFiles BY DEF NoFile, LogFiles
  <2> QED BY <1>7, <2>1, <2>2 DEF WithFile
<1>9. /\ DOMAIN dir' \subseteq DOMAIN dir \union {n} /\ dir' \in [DOMAIN dir' -> LogFiles]
      /\ n \in DOMAIN dir' /\ \A s \in DOMAIN dir' : dir'[s] = m[s]
  BY <1>1, <1>7, <1>8, RemainingIs
<1>10. dir'[n] = NoFile BY <1>8, <1>9
<1>11. \A s \in DOMAIN dir' : WholeFile(dir'[s])
  BY <1>6, <1>8, <1>9, <1>10, NoFileWhole DEF SinkIInv
<1>12. SinkShape' BY <1>1, <1>3, <1>4, <1>5, <1>6, <1>9 DEF SinkIInv, SinkShape, WriterShape, SinkPhases
<1>13. BatchShape' BY <1>3, <1>4 DEF BatchShape
<1>14. EndsDrained' BY <1>1, <1>3 DEF SinkIInv, EndsDrained, AllTaken
<1>15. Numbered' BY <1>3, <1>6, <1>9 DEF Numbered, NewestIs
<1>16. ActiveOK' BY <1>3, <1>10 DEF ActiveOK, NoFile, Fresh, Joined
<1> QED BY <1>3, <1>4, <1>11, <1>12, <1>13, <1>14, <1>15, <1>16 DEF SinkIInv, IdleBefore

(* The first file of a run has a number above all others.                  *)
LEMMA OpenKeeps ==
  ASSUME SinkIInv, NEW ok \in BOOLEAN, Open(ok)
  PROVE  SinkIInv'
<1> DEFINE n == NextSeq(Seqs)
<1>1. /\ run' = run /\ ring' = ring /\ halt' = halt /\ diskFaults' \in 0..MaxDiskFaults
      /\ sink.phase = "none" /\ halt.phase = "none" /\ sink' = [NoSink EXCEPT !.phase = "select", !.seq = n]
      /\ dir' = WithFile(Remaining(dir, MaxFiles - 1, 0, ok), n)
  BY CostIs DEF Open
<1>2. DOMAIN dir \subseteq Nat \ {0} /\ dir \in [DOMAIN dir -> LogFiles] BY DEF SinkIInv, SinkShape
<1>3. n \in Nat \ {0} /\ \A t \in DOMAIN dir : t <= n /\ t # n
  <2>1. CASE DOMAIN dir = {} BY <2>1 DEF NextSeq, Seqs
  <2>2. CASE DOMAIN dir # {}
    <3>1. \E x \in Seqs : \A y \in Seqs : x >= y
      BY <1>2, <2>2 DEF SinkIInv, Numbered, NewestIs, Seqs
    <3>2. Max(Seqs) \in Seqs /\ \A y \in Seqs : Max(Seqs) >= y BY <3>1 DEF Max
    <3>3. n = Max(Seqs) + 1 BY <2>2 DEF NextSeq, Seqs
    <3> QED BY <1>2, <3>2, <3>3 DEF Seqs
  <2> QED BY <2>1, <2>2
<1> HIDE DEF n
<1>4. /\ DOMAIN sink' = SinkFields /\ sink'.buffer = <<>> /\ sink'.batch = <<>>
      /\ sink'.seq = n /\ sink'.last = FALSE /\ sink'.phase = "select" /\ sink'.bytes = 0 /\ sink'.written = 0
  BY <1>1 DEF NoSink, SinkFields
<1>5. PICK m : m = Remaining(dir, MaxFiles - 1, 0, ok) OBVIOUS
<1>6. /\ DOMAIN m \subseteq DOMAIN dir /\ m \in [DOMAIN m -> LogFiles]
      /\ \A s \in DOMAIN m : m[s] = dir[s]
  BY <1>2, <1>5, RemainingIs
<1>7. /\ DOMAIN dir' = DOMAIN m \union {n} /\ dir' \in [DOMAIN m \union {n} -> LogFiles]
      /\ dir'[n] = NoFile /\ \A t \in DOMAIN m \ {n} : dir'[t] = m[t]
  <2>1. NoFile \in LogFiles BY DEF NoFile, LogFiles
  <2> QED BY <1>1, <1>5, <1>6, <2>1 DEF WithFile
<1>8. \A s \in DOMAIN dir' : WholeFile(dir'[s])
  BY <1>6, <1>7, NoFileWhole DEF SinkIInv
<1>9. SinkShape'
  <2>1. <<>> \in Seq(LogRecs) /\ "select" \in SinkPhases /\ 0 \in Nat BY DEF SinkPhases
  <2>2. WriterShape' BY <1>3, <1>4, <2>1 DEF WriterShape
  <2> QED BY <1>1, <1>2, <1>3, <1>6, <1>7, <2>2 DEF SinkIInv, SinkShape
<1>10. BatchShape' BY <1>4, SinkAssumption DEF BatchShape
<1>11. EndsDrained' BY <1>1, <1>4 DEF SinkIInv, EndsDrained
<1>12. QueueOK' BY <1>4 DEF QueueOK, Fresh, Joined
<1>13. Numbered'
  <2>1. n \in DOMAIN dir' /\ \A t \in DOMAIN dir' : t <= n BY <1>3, <1>6, <1>7
  <2> QED BY <1>4, <2>1 DEF Numbered, NewestIs
<1>14. ActiveOK' BY <1>4, <1>7 DEF ActiveOK, NoFile, Fresh, Joined
<1> QED BY <1>4, <1>8, <1>9, <1>10, <1>11, <1>12, <1>13, <1>14 DEF SinkIInv, IdleBefore

(* An empty directory and no writer.                                       *)
LEMMA SinkInitial == SinkInit => SinkIInv
<1> SUFFICES ASSUME SinkInit PROVE SinkIInv OBVIOUS
<1>1. /\ run = 1 /\ dir = <<>> /\ diskFaults = 0 /\ sink = NoSink
      /\ ring = [sent |-> 0, pos |-> 0, closed |-> FALSE] /\ halt = [phase |-> "none", due |-> 0]
  BY DEF SinkInit
<1>2. DOMAIN dir = {} /\ dir \in [DOMAIN dir -> LogFiles] BY <1>1
<1>3. /\ DOMAIN sink = SinkFields /\ sink.buffer = <<>> /\ sink.batch = <<>>
      /\ sink.seq = 0 /\ sink.last = FALSE /\ sink.phase = "none" /\ sink.bytes = 0 /\ sink.written = 0
  BY <1>1 DEF NoSink, SinkFields
<1>4. SinkShape
  <2>1. run \in 1..MaxRuns /\ diskFaults \in 0..MaxDiskFaults BY <1>1, SinkAssumption
  <2>2. ring \in [sent: Nat, pos: Nat, closed: BOOLEAN] /\ ring.pos <= ring.sent BY <1>1
  <2>3. halt \in [phase: {"none", "waiting", "returned"}, due: Nat] BY <1>1
  <2>4. <<>> \in Seq(LogRecs) /\ 0 \in Nat /\ "none" \in SinkPhases BY DEF SinkPhases
  <2>5. WriterShape BY <1>3, <2>4 DEF WriterShape
  <2> QED BY <1>2, <2>1, <2>2, <2>3, <2>5 DEF SinkShape
<1>5. BatchShape BY <1>3, SinkAssumption DEF BatchShape
<1>6. EndsDrained BY <1>1, <1>3 DEF EndsDrained
<1>7. QueueOK BY <1>3 DEF QueueOK, Fresh, Joined
<1>8. Numbered BY <1>2, <1>3 DEF Numbered
<1>9. ActiveOK BY <1>3 DEF ActiveOK
<1>10. IdleBefore BY <1>1 DEF IdleBefore
<1> QED BY <1>2, <1>4, <1>5, <1>6, <1>7, <1>8, <1>9, <1>10 DEF SinkIInv

(* Every step keeps the writer, its queue and its files together.          *)
LEMMA SinkSteps == SinkIInv /\ [SinkNext]_kvars => SinkIInv'
<1> SUFFICES ASSUME SinkIInv, [SinkNext]_kvars PROVE SinkIInv' OBVIOUS
<1>1. CASE UNCHANGED kvars
  <2>1. /\ run' = run /\ ring' = ring /\ sink' = sink /\ dir' = dir /\ halt' = halt
        /\ diskFaults' = diskFaults
    BY <1>1 DEF kvars
  <2>2. (IdleBefore /\ SinkShape)' BY <2>1 DEF SinkIInv, IdleBefore, SinkShape, WriterShape
  <2>3. (BatchShape /\ EndsDrained)' BY <2>1 DEF SinkIInv, BatchShape, EndsDrained, AllTaken
  <2>4. QueueOK' /\ Expected' = Expected BY <2>1, QueueKept
  <2>5. Numbered' BY <2>1 DEF SinkIInv, Numbered, NewestIs
  <2>6. ActiveOK' BY <2>1, <2>4 DEF SinkIInv, ActiveOK, Fresh
  <2> QED BY <2>1, <2>2, <2>3, <2>4, <2>5, <2>6 DEF SinkIInv
<1>2. CASE SelectRecv
  <2>1. CASE sink.phase = "select" /\ Take([sink EXCEPT !.phase = "drain"])
    <3>1. Len(sink.batch) < MaxBatch
      <4>1. sink.batch = <<>> BY <2>1 DEF SinkIInv, BatchShape
      <4> QED BY <4>1, SinkAssumption
    <3> QED BY <1>2, <2>1, <3>1, TakeKeeps DEF SelectRecv
  <2>2. CASE SelectEnds BY <2>2, PhaseKeeps
  <2> QED BY <1>2, <2>1, <2>2 DEF SelectRecv, SelectEnds
<1>3. CASE DrainTakes BY <1>3, TakeKeeps DEF DrainTakes
<1>4. CASE WriterStep
  BY <1>2, <1>3, <1>4, PhaseKeeps, WriteRecordKeeps, FlushKeeps, FlushFailsKeeps, RotateFailsKeeps,
     RotatePrunesKeeps, RotateCreatesKeeps DEF WriterStep
<1> QED BY <1>1, <1>4, OpenKeeps, RingKeeps, AbortKeeps, NextRunKeeps DEF SinkNext

(* The queue follows what is on disk, at every moment (Writer, run).       *)
THEOREM SinkInvariance == SinkSpec => []SinkIInv
  BY SinkInitial, SinkSteps, PTL DEF SinkSpec

(* Types, and no batch outgrows MAX_BATCH_RECORDS, in the buffer neither   *)
(* (drain).                                                                *)
THEOREM SinkTypes == SinkSpec => []SinkTypeOK
<1>1. SinkIInv => SinkTypeOK
  <2> SUFFICES ASSUME SinkIInv PROVE SinkTypeOK OBVIOUS
  <2>1. PICK m, n : m = Len(sink.buffer) /\ n = Len(sink.batch) OBVIOUS
  <2>2. m \in Nat /\ n \in Nat BY <2>1 DEF SinkIInv, SinkShape, WriterShape
  <2>3. m + n <= MaxBatch BY <2>1 DEF SinkIInv, BatchShape
  <2>4. m <= MaxBatch /\ n <= MaxBatch BY <2>2, <2>3, SinkAssumption
  <2> QED BY <2>1, <2>4 DEF SinkIInv, SinkShape, WriterShape, SinkPhases, SinkTypeOK
<1> QED BY <1>1, SinkInvariance, PTL

(* A file holds the records of one run in order, and only its last one can *)
(* be torn, unless a write to it failed (Writer::open, flush_pending).     *)
THEOREM FilesAreWhole == SinkSpec => []FilesWhole
<1>1. SinkIInv => FilesWhole
  BY DEF SinkIInv, WholeFile, FilesWhole, Seqs
<1> QED BY <1>1, SinkInvariance, PTL

(* A writer that ended by itself has taken everything that was sent before *)
(* the shutdown, however many batches that is (run, the arm of the token). *)
THEOREM ShutdownDrains == SinkSpec => []DrainedAtShutdown
<1>1. SinkIInv => DrainedAtShutdown
  BY DEF SinkIInv, EndsDrained, AllTaken, DrainedAtShutdown
<1> QED BY <1>1, SinkInvariance, PTL

(* Records that follow each other are in order.                            *)
LEMMA JoinedOrdered ==
  ASSUME NEW es \in Seq(LogRecs), NEW n \in Nat, Joined(es, n)
  PROVE  \A i, j \in 1..Len(es) : i < j => es[i].hi < es[j].lo
<1>1. Len(es) \in Nat /\ \A k \in 1..Len(es) : es[k] \in LogRecs OBVIOUS
<1>2. \A k \in 1..Len(es) : es[k].lo \in Nat /\ es[k].hi \in Nat /\ es[k].lo <= es[k].hi
  BY <1>1 DEF LogRecs, AnyRecs
<1>3. \A k \in 1..(Len(es) - 1) : es[k + 1].lo = es[k].hi + 1
  BY DEF Joined
<1> SUFFICES ASSUME NEW i \in 1..Len(es) PROVE \A j \in 1..Len(es) : i < j => es[i].hi < es[j].lo
  OBVIOUS
<1> DEFINE T == {j \in 1..Len(es) : i < j /\ ~(es[i].hi < es[j].lo)}
<1> SUFFICES ASSUME T # {} PROVE FALSE
  OBVIOUS
<1>4. T \in SUBSET Nat BY <1>1
<1>5. PICK m \in T : \A t \in T : m <= t
  <2> HIDE DEF T
  <2> QED BY <1>4, LeastNumber
<1>6. m \in 1..Len(es) /\ i < m /\ ~(es[i].hi < es[m].lo) OBVIOUS
<1>7. m - 1 \in 1..(Len(es) - 1) /\ m - 1 \in 1..Len(es) /\ (m - 1) + 1 = m BY <1>1, <1>6
<1>8. es[m].lo = es[m - 1].hi + 1 BY <1>3, <1>7
<1>9. CASE m - 1 = i BY <1>2, <1>6, <1>7, <1>8, <1>9
<1>10. CASE m - 1 # i
  <2>1. i < m - 1 BY <1>10, <1>6, <1>7
  <2>2. m - 1 \notin T
    <3>1. ~(m <= m - 1) BY <1>6
    <3> QED BY <1>5, <3>1
  <2>3. es[i].hi < es[m - 1].lo BY <1>7, <2>1, <2>2
  <2>4. /\ es[i].hi \in Nat /\ es[m - 1].lo \in Nat /\ es[m - 1].hi \in Nat
        /\ es[m - 1].lo <= es[m - 1].hi
    BY <1>2, <1>7
  <2>5. es[i].hi < es[m - 1].hi + 1 BY SMTT(40), <2>3, <2>4
  <2> QED BY <1>6, <1>8, <2>5
<1> QED BY <1>9, <1>10

(* They begin where the first one does and end before the next.            *)
LEMMA JoinedRange ==
  ASSUME NEW es \in Seq(LogRecs), NEW n \in Nat, Joined(es, n)
  PROVE  \A i \in 1..Len(es) : /\ Start(es, n) <= es[i].lo /\ es[i].lo <= es[i].hi /\ es[i].hi < n
                               /\ es[i].lo \in Nat /\ es[i].hi \in Nat
<1>1. Len(es) \in Nat /\ \A k \in 1..Len(es) : es[k] \in LogRecs OBVIOUS
<1>2. \A k \in 1..Len(es) : es[k].lo \in Nat /\ es[k].hi \in Nat /\ es[k].lo <= es[k].hi
  BY <1>1 DEF LogRecs, AnyRecs
<1> SUFFICES ASSUME NEW i \in 1..Len(es)
             PROVE  Start(es, n) <= es[i].lo /\ es[i].hi < n
  BY <1>2
<1>3. 1 \in 1..Len(es) /\ Len(es) \in 1..Len(es) BY <1>1
<1>4. es # <<>> BY <1>1
<1>5. Start(es, n) = es[1].lo /\ n = es[Len(es)].hi + 1 BY <1>4 DEF Start, Joined
<1>6. es[1].lo <= es[i].lo
  <2>1. CASE i = 1 BY <2>1, <1>2, <1>3
  <2>2. CASE 1 < i
    <3>1. es[1].hi < es[i].lo BY <2>2, <1>3, JoinedOrdered
    <3> QED BY <3>1, <1>2, <1>3
  <2> QED BY <2>1, <2>2
<1>7. es[i].hi <= es[Len(es)].hi
  <2>1. CASE i = Len(es) BY <2>1, <1>2, <1>3
  <2>2. CASE i < Len(es)
    <3>1. es[i].hi < es[Len(es)].lo BY <2>2, <1>3, JoinedOrdered
    <3> QED BY <3>1, <1>2, <1>3
  <2> QED BY <2>1, <2>2, <1>1
<1> QED BY <1>2, <1>3, <1>5, <1>6, <1>7

(* And cover everything between.                                           *)
LEMMA JoinedCovers ==
  ASSUME NEW es \in Seq(LogRecs), NEW n \in Nat, Joined(es, n),
         NEW x \in Nat, Start(es, n) <= x, x < n
  PROVE  \E i \in 1..Len(es) : es[i].lo <= x /\ x <= es[i].hi
<1>1. Len(es) \in Nat /\ \A k \in 1..Len(es) : es[k] \in LogRecs OBVIOUS
<1>2. \A k \in 1..Len(es) : es[k].lo \in Nat /\ es[k].hi \in Nat /\ es[k].lo <= es[k].hi
  BY <1>1 DEF LogRecs, AnyRecs
<1>3. es # <<>> BY DEF Start
<1>4. Len(es) > 0 /\ Len(es) \in 1..Len(es) /\ 1 \in 1..Len(es)
  <2>1. Len(es) # 0 BY <1>3
  <2> QED BY <1>1, <2>1
<1>5. Start(es, n) = es[1].lo /\ n = es[Len(es)].hi + 1 BY <1>3 DEF Start, Joined
<1> DEFINE T == {j \in 1..Len(es) : x <= es[j].hi}
<1>6. T \in SUBSET Nat /\ T # {}
  <2>1. Len(es) \in T BY <1>2, <1>4, <1>5
  <2> QED BY <1>1, <2>1
<1>7. PICK m \in T : \A t \in T : m <= t
  <2> HIDE DEF T
  <2> QED BY <1>6, LeastNumber
<1>8. m \in 1..Len(es) /\ x <= es[m].hi OBVIOUS
<1>9. es[m].lo <= x
  <2>1. CASE m = 1 BY <2>1, <1>5
  <2>2. CASE m > 1
    <3>1. m - 1 \in 1..(Len(es) - 1) /\ m - 1 \in 1..Len(es) /\ (m - 1) + 1 = m BY <1>1, <1>8, <2>2
    <3>2. es[m].lo = es[m - 1].hi + 1 BY <3>1 DEF Joined
    <3>3. m - 1 \notin T
      <4>1. ~(m <= m - 1) BY <1>8
      <4> QED BY <1>7, <4>1
    <3>4. ~(x <= es[m - 1].hi) BY <3>1, <3>3
    <3> QED BY <1>2, <1>8, <3>1, <3>2, <3>4
  <2> QED BY <2>1, <2>2, <1>8
<1> QED BY <1>8, <1>9

(* The frames of a sequence, one by one.                                   *)
LEMMA FramesAre ==
  ASSUME NEW es \in Seq(LogRecs)
  PROVE  \A x : x \in Frames(es) <=> \E i \in 1..Len(es) : ~es[i].torn /\ x \in es[i].lo .. es[i].hi
  BY DEF Frames

(* Joined records stand for all numbers from the first to the next one.    *)
LEMMA FramesJoined ==
  ASSUME NEW es \in Seq(LogRecs), NEW n \in Nat, Joined(es, n), Fresh(es)
  PROVE  Frames(es) = Start(es, n) .. (n - 1) /\ InOrder(es)
<1>1. \A x : x \in Frames(es) <=> \E i \in 1..Len(es) : x \in es[i].lo .. es[i].hi
  BY FramesAre DEF Fresh
<1>2. Start(es, n) \in Nat
  <2>1. es # <<>> => es[1] \in LogRecs OBVIOUS
  <2>2. es # <<>> => es[1].lo \in Nat BY <2>1 DEF LogRecs, AnyRecs
  <2> QED BY <2>2 DEF Start
<1>3. ASSUME NEW x \in Frames(es) PROVE x \in Start(es, n) .. (n - 1)
  <2>1. PICK i \in 1..Len(es) : x \in es[i].lo .. es[i].hi BY <1>1, <1>3
  <2>2. /\ Start(es, n) <= es[i].lo /\ es[i].lo <= es[i].hi /\ es[i].hi < n
        /\ es[i].lo \in Nat /\ es[i].hi \in Nat
    BY JoinedRange
  <2> QED BY <1>2, <2>1, <2>2
<1>4. ASSUME NEW x \in Start(es, n) .. (n - 1) PROVE x \in Frames(es)
  <2>1. x \in Nat /\ Start(es, n) <= x /\ x < n BY <1>2
  <2>2. PICK i \in 1..Len(es) : es[i].lo <= x /\ x <= es[i].hi BY <2>1, JoinedCovers
  <2>3. es[i].lo \in Nat /\ es[i].hi \in Nat BY JoinedRange
  <2>4. x \in es[i].lo .. es[i].hi BY <2>1, <2>2, <2>3
  <2> QED BY <1>1, <2>4
<1>5. InOrder(es) BY JoinedOrdered DEF InOrder
<1> QED BY <1>3, <1>4, <1>5

(* Two sequences of records stand for the frames of both.                  *)
LEMMA FramesCat ==
  ASSUME NEW a \in Seq(LogRecs), NEW b \in Seq(LogRecs)
  PROVE  Frames(a \o b) = Frames(a) \union Frames(b)
<1>1. PICK c : c = a \o b OBVIOUS
<1>2. /\ c \in Seq(LogRecs) /\ Len(c) = Len(a) + Len(b) /\ Len(a) \in Nat /\ Len(b) \in Nat
      /\ \A i \in 1..Len(a) : c[i] = a[i]
      /\ \A i \in 1..Len(b) : c[Len(a) + i] = b[i]
  BY <1>1, CatIs
<1>3. ASSUME NEW x \in Frames(c) PROVE x \in Frames(a) \union Frames(b)
  <2>1. PICK i \in 1..Len(c) : ~c[i].torn /\ x \in c[i].lo .. c[i].hi BY <1>2, <1>3, FramesAre
  <2>2. CASE i <= Len(a)
    <3>1. i \in 1..Len(a) /\ c[i] = a[i] BY <1>2, <2>2
    <3> QED BY <2>1, <3>1, FramesAre
  <2>3. CASE ~(i <= Len(a))
    <3>1. i - Len(a) \in 1..Len(b) /\ i = Len(a) + (i - Len(a)) BY <1>2, <2>3
    <3>2. c[i] = b[i - Len(a)] BY <1>2, <3>1
    <3> QED BY <2>1, <3>1, <3>2, FramesAre
  <2> QED BY <2>2, <2>3
<1>4. ASSUME NEW x \in Frames(a) PROVE x \in Frames(c)
  <2>1. PICK i \in 1..Len(a) : ~a[i].torn /\ x \in a[i].lo .. a[i].hi BY <1>4, FramesAre
  <2>2. i \in 1..Len(c) /\ c[i] = a[i] BY <1>2
  <2> QED BY <1>2, <2>1, <2>2, FramesAre
<1>5. ASSUME NEW x \in Frames(b) PROVE x \in Frames(c)
  <2>1. PICK i \in 1..Len(b) : ~b[i].torn /\ x \in b[i].lo .. b[i].hi BY <1>5, FramesAre
  <2>2. Len(a) + i \in 1..Len(c) /\ c[Len(a) + i] = b[i] BY <1>2
  <2> QED BY <1>2, <2>1, <2>2, FramesAre
<1> QED BY <1>1, <1>3, <1>4, <1>5

(* Frames of a whole record between its ends.                              *)
LEMMA EndsAreFrames ==
  ASSUME NEW es \in Seq(LogRecs), NEW i \in 1..Len(es), ~es[i].torn
  PROVE  /\ es[i].lo \in Frames(es) /\ es[i].hi \in Frames(es)
         /\ es[i].lo \in Nat /\ es[i].hi \in Nat /\ es[i].lo <= es[i].hi
<1>1. es[i] \in LogRecs OBVIOUS
<1>2. es[i].lo \in Nat /\ es[i].hi \in Nat /\ es[i].lo <= es[i].hi BY <1>1 DEF LogRecs, AnyRecs
<1>3. es[i].lo \in es[i].lo .. es[i].hi /\ es[i].hi \in es[i].lo .. es[i].hi BY <1>2
<1> QED BY <1>2, <1>3, FramesAre

(* Frames are numbers.                                                     *)
LEMMA FramesAreNumbers ==
  ASSUME NEW es \in Seq(LogRecs)
  PROVE  Frames(es) \subseteq Nat
<1> SUFFICES ASSUME NEW x \in Frames(es) PROVE x \in Nat OBVIOUS
<1>1. PICK i \in 1..Len(es) : ~es[i].torn /\ x \in es[i].lo .. es[i].hi BY FramesAre
<1>2. es[i].lo \in Nat /\ es[i].hi \in Nat BY <1>1, EndsAreFrames
<1> QED BY <1>1, <1>2

(* Two ordered sequences, the second behind the first.                     *)
LEMMA InOrderCat ==
  ASSUME NEW a \in Seq(LogRecs), NEW b \in Seq(LogRecs), InOrder(a), InOrder(b),
         \A x \in Frames(a), y \in Frames(b) : x < y
  PROVE  InOrder(a \o b)
<1>1. PICK c : c = a \o b OBVIOUS
<1>2. /\ c \in Seq(LogRecs) /\ Len(c) = Len(a) + Len(b) /\ Len(a) \in Nat /\ Len(b) \in Nat
      /\ \A i \in 1..Len(a) : c[i] = a[i]
      /\ \A i \in 1..Len(b) : c[Len(a) + i] = b[i]
  BY <1>1, CatIs
<1>3. DOMAIN c = 1..Len(c) /\ DOMAIN a = 1..Len(a) /\ DOMAIN b = 1..Len(b) BY <1>2
<1>4. ASSUME NEW i \in 1..Len(c), NEW j \in 1..Len(c), i < j, ~c[i].torn, ~c[j].torn
      PROVE  c[i].hi < c[j].lo
  <2>1. CASE j <= Len(a)
    <3>1. i \in 1..Len(a) /\ j \in 1..Len(a) BY <1>2, <1>4, <2>1
    <3>2. c[i] = a[i] /\ c[j] = a[j] BY <1>2, <3>1
    <3>3. ~a[i].torn /\ ~a[j].torn BY <1>4, <3>2
    <3> QED BY <1>3, <1>4, <3>1, <3>2, <3>3 DEF InOrder
  <2>2. CASE i <= Len(a) /\ ~(j <= Len(a))
    <3>1. i \in 1..Len(a) /\ j - Len(a) \in 1..Len(b) /\ j = Len(a) + (j - Len(a)) BY <1>2, <2>2
    <3>2. c[i] = a[i] /\ c[j] = b[j - Len(a)] BY <1>2, <3>1
    <3>3. a[i].hi \in Frames(a) BY <1>4, <3>1, <3>2, EndsAreFrames
    <3>4. b[j - Len(a)].lo \in Frames(b) BY <1>4, <3>1, <3>2, EndsAreFrames
    <3> QED BY <3>2, <3>3, <3>4
  <2>3. CASE ~(i <= Len(a))
    <3>1. PICK k \in 1..Len(b), l \in 1..Len(b) : i = Len(a) + k /\ j = Len(a) + l
      <4>1. /\ i - Len(a) \in 1..Len(b) /\ i = Len(a) + (i - Len(a))
            /\ j - Len(a) \in 1..Len(b) /\ j = Len(a) + (j - Len(a))
        BY <1>2, <1>4, <2>3
      <4> QED BY <4>1
    <3>2. c[i] = b[k] /\ c[j] = b[l] /\ k < l BY <1>2, <1>4, <3>1
    <3>3. ~b[k].torn /\ ~b[l].torn BY <1>4, <3>2
    <3> QED BY <1>3, <3>2, <3>3 DEF InOrder
  <2> QED BY <2>1, <2>2, <2>3
<1> QED BY <1>1, <1>3, <1>4 DEF InOrder

(* A cut write and what it lost are the frames of the buffer, in order.    *)
LEMMA CutFrames ==
  ASSUME NEW es \in Seq(LogRecs), NEW n \in 0..(Len(es) - 1), NEW m \in Nat, Fresh(es), Joined(es, m)
  PROVE  LET lost == Frames(SubSeq(es, n + 1, Len(es))) IN
         /\ Frames(Cut(es, n)) \union lost = Frames(es)
         /\ Frames(Cut(es, n)) \intersect lost = {} /\ InOrder(Cut(es, n))
<1> DEFINE c == Cut(es, n)
           d == SubSeq(es, n + 1, Len(es))
           h == [es[n + 1] EXCEPT !.torn = TRUE]
<1>1. Len(es) \in Nat /\ n \in Nat /\ n + 1 \in 1..Len(es) OBVIOUS
<1>2. es[n + 1] \in LogRecs BY <1>1
<1>3. h \in LogRecs /\ h.torn = TRUE BY <1>2 DEF LogRecs, AnyRecs
<1> HIDE DEF h
<1>4. SubSeq(es, 1, n) \in Seq(LogRecs) /\ Len(SubSeq(es, 1, n)) = n
      /\ \A i \in 1..n : SubSeq(es, 1, n)[i] = es[i]
  BY <1>1
<1>5. /\ c \in Seq(LogRecs) /\ Len(c) = n + 1 /\ c[n + 1] = h /\ \A i \in 1..n : c[i] = es[i]
  BY <1>3, <1>4, <1>1 DEF Cut, h
<1>6. /\ d \in Seq(LogRecs) /\ Len(d) = Len(es) - n
      /\ \A k \in 1..(Len(es) - n) : d[k] = es[n + k]
  BY <1>1
<1> HIDE DEF c, d
<1>7. \A i \in 1..Len(es) : ~es[i].torn BY DEF Fresh
<1>8. \A x : x \in Frames(c) <=> \E i \in 1..n : x \in es[i].lo .. es[i].hi
  <2>1. \A x : x \in Frames(c) <=> \E i \in 1..(n + 1) : ~c[i].torn /\ x \in c[i].lo .. c[i].hi
    BY <1>5, FramesAre
  <2>2. \A i \in 1..(n + 1) : IF i \in 1..n THEN c[i] = es[i] /\ ~es[i].torn ELSE c[i].torn
    BY <1>1, <1>3, <1>5, <1>7
  <2>3. \A i \in 1..n : i \in 1..(n + 1) BY <1>1
  <2> QED BY <2>1, <2>2, <2>3
<1>9. \A x : x \in Frames(d) <=> \E i \in (n + 1)..Len(es) : x \in es[i].lo .. es[i].hi
  <2>1. \A x : x \in Frames(d) <=> \E k \in 1..(Len(es) - n) : ~d[k].torn /\ x \in d[k].lo .. d[k].hi
    BY <1>6, FramesAre
  <2>2. \A k \in 1..(Len(es) - n) : n + k \in (n + 1)..Len(es) /\ n + k \in 1..Len(es) BY <1>1
  <2>3. \A i \in (n + 1)..Len(es) : i - n \in 1..(Len(es) - n) /\ n + (i - n) = i BY <1>1
  <2>4. \A k \in 1..(Len(es) - n) : d[k] = es[n + k] /\ ~d[k].torn BY <1>6, <1>7, <2>2
  <2>5. \A i \in (n + 1)..Len(es) : d[i - n] = es[i] /\ ~d[i - n].torn BY <2>3, <2>4
  <2>6. ASSUME NEW x \in Frames(d) PROVE \E i \in (n + 1)..Len(es) : x \in es[i].lo .. es[i].hi
    BY <2>1, <2>2, <2>4, <2>6
  <2>7. ASSUME NEW x, NEW i \in (n + 1)..Len(es), x \in es[i].lo .. es[i].hi PROVE x \in Frames(d)
    BY <2>1, <2>3, <2>5, <2>7
  <2> QED BY <2>6, <2>7
<1>10. \A x : x \in Frames(es) <=> \E i \in 1..Len(es) : x \in es[i].lo .. es[i].hi
  BY <1>7, FramesAre
<1>11. \A i : i \in 1..Len(es) <=> (i \in 1..n \/ i \in (n + 1)..Len(es)) BY <1>1
<1>12. Frames(c) \union Frames(d) = Frames(es) BY <1>8, <1>9, <1>10, <1>11
<1>13. ASSUME NEW x \in Frames(c), x \in Frames(d) PROVE FALSE
  <2>1. PICK i \in 1..n : x \in es[i].lo .. es[i].hi BY <1>8, <1>13
  <2>2. PICK j \in (n + 1)..Len(es) : x \in es[j].lo .. es[j].hi BY <1>9, <1>13
  <2>3. i \in 1..Len(es) /\ j \in 1..Len(es) /\ i < j BY <1>1
  <2>4. es[i].hi < es[j].lo BY <2>3, JoinedOrdered
  <2>5. es[i].hi \in Nat /\ es[j].lo \in Nat /\ es[i].lo \in Nat /\ es[j].hi \in Nat
    BY <2>3, <1>7, EndsAreFrames
  <2> QED BY <2>1, <2>2, <2>4, <2>5
<1>14. InOrder(c)
  <2>1. DOMAIN c = 1..(n + 1) BY <1>5
  <2>2. ASSUME NEW i \in 1..(n + 1), NEW j \in 1..(n + 1), i < j, ~c[i].torn, ~c[j].torn
        PROVE  c[i].hi < c[j].lo
    <3>1. c[n + 1].torn = TRUE BY <1>3, <1>5
    <3>2. i \in 1..n /\ j \in 1..n
      <4>1. i # n + 1 /\ j # n + 1 BY <2>2, <3>1
      <4> QED BY <1>1, <4>1
    <3>3. c[i] = es[i] /\ c[j] = es[j] /\ i \in 1..Len(es) /\ j \in 1..Len(es) BY <1>1, <1>5, <3>2
    <3> QED BY <2>2, <3>3, JoinedOrdered
  <2> QED BY <2>1, <2>2 DEF InOrder
<1> QED BY <1>12, <1>13, <1>14 DEF c, d

(* Where the disk ends is a number.                                        *)
LEMMA ExpectedIs ==
  ASSUME SinkIInv
  PROVE  Expected \in Nat /\ Expected >= 1
<1>1. PICK a, b, n : a = sink.buffer /\ b = sink.batch /\ n = ring.pos + 1 OBVIOUS
<1>2. a \in Seq(LogRecs) /\ b \in Seq(LogRecs) /\ n \in Nat /\ n >= 1
  BY <1>1 DEF SinkIInv, SinkShape, WriterShape
<1>3. b # <<>> => b[1].lo \in Nat /\ b[1].lo >= 1
  <2>1. b # <<>> => b[1] \in LogRecs BY <1>2
  <2> QED BY <2>1 DEF LogRecs, AnyRecs
<1>4. a # <<>> => a[1].lo \in Nat /\ a[1].lo >= 1
  <2>1. a # <<>> => a[1] \in LogRecs BY <1>2
  <2> QED BY <2>1 DEF LogRecs, AnyRecs
<1> QED BY <1>1, <1>2, <1>3, <1>4 DEF Expected, Waiting, Start

(***************************************************************************)
(* Where every frame is                                                    *)
(***************************************************************************)
InFileOrder == \A s \in InRun(dir, run) : InOrder(dir[s].recs)
AcrossFiles ==
  \A s, t \in InRun(dir, run) : s < t => \A x \in Frames(dir[s].recs), y \in Frames(dir[t].recs) : x < y

(* What left the queue is on disk or lost, and never both.                 *)
Accounted ==
  /\ OnDisk(run) \union gone = 1 .. (Expected - 1)
  /\ OnDisk(run) \intersect gone = {}
  /\ InFileOrder /\ AcrossFiles

(* A run has no file before its writer opens one.                          *)
RunsPast ==
  \A s \in DOMAIN dir : dir[s].recs # <<>> =>
    /\ dir[s].recs[1].run <= run /\ dir[s].recs[1].run \in Nat
    /\ sink.phase = "none" => dir[s].recs[1].run < run

HolesIInv ==
  /\ RunsPast
  /\ sink.phase = "none" => ring.pos = 0 /\ gone = {}
  /\ sink.phase \notin {"none", "aborted"} => Accounted

(* What is on disk, file by file.                                          *)
LEMMA OnDiskAre ==
  \A x : x \in OnDisk(run) <=> \E s \in InRun(dir, run) : x \in Frames(dir[s].recs)
  BY DEF OnDisk

(* Records of the run, behind all others, reach the active file.           *)
LEMMA DiskGrows ==
  ASSUME SinkIInv, RunsPast, Accounted, sink.phase \notin {"none", "aborted"}, NEW es \in Seq(LogRecs),
         NEW l \in Nat, NEW o \in BOOLEAN, dir' = AppendedTo(sink.seq, es, l, o), run' = run, OfRun(es),
         InOrder(es), \A y \in Frames(es) : y \in Nat /\ Expected <= y, sink'.phase # "none"
  PROVE  /\ OnDisk(run)' = OnDisk(run) \union Frames(es)
         /\ InFileOrder' /\ AcrossFiles' /\ RunsPast'
<1> DEFINE q == sink.seq
           r == dir[q].recs
           c == dir'[q].recs
<1>1. q \in DOMAIN dir /\ \A t \in DOMAIN dir : t <= q BY DEF SinkIInv, Numbered, NewestIs
<1>2. /\ DOMAIN dir' = DOMAIN dir /\ c = r \o es /\ \A s \in DOMAIN dir \ {q} : dir'[s] = dir[s]
  BY <1>1, AppendsTo DEF SinkIInv
<1>3. r \in Seq(LogRecs) BY <1>1 DEF SinkIInv, SinkShape, LogFiles
<1>4. OfRun(r) BY DEF SinkIInv, ActiveOK, OfRun
<1>5. DOMAIN dir \subseteq Nat /\ q \in Nat /\ run \in Nat
  BY SMTT(40), <1>1, SinkAssumption DEF SinkIInv, SinkShape
<1>6. Frames(c) = Frames(r) \union Frames(es) BY <1>2, <1>3, FramesCat
<1>7. c \in Seq(LogRecs) /\ \A i \in 1..Len(c) : c[i].run = run
  <2>1. PICK d : d = r \o es OBVIOUS
  <2>2. d \in Seq(LogRecs) BY <2>1, <1>3, CatIs
  <2>3. \A i \in 1..Len(d) : d[i].run = run BY <2>1, <1>3, <1>4, CatOfRun
  <2>4. c = d BY <2>1, <1>2
  <2> QED BY <2>2, <2>3, <2>4
<1> HIDE DEF c
<1>8. c # <<>> => c[1].run = run
  <2>1. c # <<>> => 1 \in 1..Len(c) BY <1>7
  <2> QED BY <1>7, <2>1
<1>9. r # <<>> => r[1].run = run
  <2>1. r # <<>> => 1 \in 1..Len(r) BY <1>3
  <2> QED BY <1>4, <2>1 DEF OfRun
<1>10. q \in InRun(dir, run) <=> r # <<>> BY <1>1, <1>9 DEF InRun
<1>11. q \in InRun(dir', run) <=> c # <<>> BY <1>1, <1>2, <1>8 DEF InRun, c
<1>12. \A s : s # q => (s \in InRun(dir', run) <=> s \in InRun(dir, run)) BY <1>2 DEF InRun
<1>13. \A s : s # q => (s \in InRun(dir, run) => s \in DOMAIN dir /\ dir'[s] = dir[s]) BY <1>2 DEF InRun
<1>14. r = <<>> => Frames(r) = {} BY DEF Frames
<1>15. c = <<>> => Frames(c) = {} BY DEF Frames
<1>16. \A x : x \in OnDisk(run)' <=> \E s \in InRun(dir', run) : x \in Frames(dir'[s].recs)
  BY DEF OnDisk
<1>17. OnDisk(run)' = OnDisk(run) \union Frames(es)
  <2>1. ASSUME NEW x \in OnDisk(run)' PROVE x \in OnDisk(run) \union Frames(es)
    <3>1. PICK s \in InRun(dir', run) : x \in Frames(dir'[s].recs) BY <1>16, <2>1
    <3>2. CASE s # q BY <1>12, <1>13, <3>1, <3>2, OnDiskAre
    <3>3. CASE s = q
      <4>1. x \in Frames(r) \union Frames(es) BY <1>6, <3>1, <3>3 DEF c
      <4> QED BY <1>10, <1>14, <4>1, OnDiskAre
    <3> QED BY <3>2, <3>3
  <2>2. ASSUME NEW x \in OnDisk(run) PROVE x \in OnDisk(run)'
    <3>1. PICK s \in InRun(dir, run) : x \in Frames(dir[s].recs) BY <2>2, OnDiskAre
    <3>2. CASE s # q BY <1>12, <1>13, <1>16, <3>1, <3>2
    <3>3. CASE s = q
      <4>1. x \in Frames(c) BY <1>6, <3>1, <3>3
      <4> QED BY <1>11, <1>15, <1>16, <4>1 DEF c
    <3> QED BY <3>2, <3>3
  <2>3. ASSUME NEW x \in Frames(es) PROVE x \in OnDisk(run)'
    <3>1. x \in Frames(c) BY <1>6, <2>3
    <3> QED BY <1>11, <1>15, <1>16, <3>1 DEF c
  <2> QED BY <2>1, <2>2, <2>3
<1>18. \A x \in OnDisk(run), y \in Frames(es) : x < y
  <2>1. ASSUME NEW x \in OnDisk(run), NEW y \in Frames(es) PROVE x < y
    <3>1. x \in 1 .. (Expected - 1) BY DEF Accounted
    <3>2. y \in Nat /\ Expected <= y OBVIOUS
    <3>3. Expected \in Int BY ExpectedIs
    <3> QED BY <3>1, <3>2, <3>3
  <2> QED BY <2>1
<1>19. InFileOrder'
  <2>1. InOrder(c)
    <3>1. InOrder(r)
      <4>1. CASE r = <<>> BY <4>1 DEF InOrder
      <4>2. CASE r # <<>> BY <4>2, <1>10 DEF Accounted, InFileOrder
      <4> QED BY <4>1, <4>2
    <3>2. \A x \in Frames(r), y \in Frames(es) : x < y
      <4>1. Frames(r) \subseteq OnDisk(run) BY <1>10, <1>14, OnDiskAre
      <4> QED BY <1>18, <4>1
    <3> QED BY <1>2, <1>3, <3>1, <3>2, InOrderCat
  <2>2. ASSUME NEW s \in InRun(dir', run) PROVE InOrder(dir'[s].recs)
    <3>1. CASE s = q BY <2>1, <3>1 DEF c
    <3>2. CASE s # q BY <1>12, <1>13, <3>2 DEF Accounted, InFileOrder
    <3> QED BY <3>1, <3>2
  <2> QED BY <2>2 DEF InFileOrder
<1>20. AcrossFiles'
  <2>1. ASSUME NEW s \in InRun(dir', run), NEW t \in InRun(dir', run), s < t,
               NEW x \in Frames(dir'[s].recs), NEW y \in Frames(dir'[t].recs)
        PROVE  x < y
    <3>1. s \in DOMAIN dir /\ t \in DOMAIN dir BY <1>2 DEF InRun
    <3>2. s # q BY <1>1, <1>5, <2>1, <3>1
    <3>3. s \in InRun(dir, run) /\ x \in Frames(dir[s].recs) BY <1>12, <1>13, <3>2
    <3>4. CASE t # q
      <4>1. t \in InRun(dir, run) /\ y \in Frames(dir[t].recs) BY <1>12, <1>13, <3>4
      <4> QED BY <2>1, <3>3, <4>1 DEF Accounted, AcrossFiles
    <3>5. CASE t = q
      <4>1. y \in Frames(r) \union Frames(es) BY <1>6, <3>5 DEF c
      <4>2. CASE y \in Frames(es) BY <1>18, <3>3, <4>2, OnDiskAre
      <4>3. CASE y \in Frames(r)
        <5>1. q \in InRun(dir, run) BY <1>10, <1>14, <4>3
        <5> QED BY <2>1, <3>3, <3>5, <4>3, <5>1 DEF Accounted, AcrossFiles
      <4> QED BY <4>1, <4>2, <4>3
    <3> QED BY <3>4, <3>5
  <2> QED BY <2>1 DEF AcrossFiles
<1>21. RunsPast'
  <2>1. ASSUME NEW s \in DOMAIN dir', dir'[s].recs # <<>>
        PROVE  dir'[s].recs[1].run <= run /\ dir'[s].recs[1].run \in Nat
    <3>1. CASE s = q BY <1>5, <1>8, <2>1, <3>1 DEF c
    <3>2. CASE s # q BY <1>2, <2>1, <3>2 DEF RunsPast
    <3> QED BY <3>1, <3>2
  <2> QED BY <2>1 DEF RunsPast
<1> QED BY <1>17, <1>19, <1>20, <1>21

(* Files that are deleted take their frames with them, and no others.      *)
LEMMA DiskShrinks ==
  ASSUME SinkIInv, RunsPast, Accounted, NEW n, run' = run, sink'.phase # "none",
         DOMAIN dir' \subseteq DOMAIN dir \union {n}, n \in DOMAIN dir \/ dir'[n] = NoFile,
         \A s \in DOMAIN dir' : s \in DOMAIN dir => dir'[s] = dir[s]
  PROVE  /\ OnDisk(run)' \union Pruned(dir, dir') = OnDisk(run)
         /\ OnDisk(run)' \intersect Pruned(dir, dir') = {}
         /\ InFileOrder' /\ AcrossFiles' /\ RunsPast'
<1>1. \A s : s \in InRun(dir', run) <=> s \in InRun(dir, run) /\ s \in DOMAIN dir'
  BY DEF InRun, NoFile
<1>2. \A s \in InRun(dir', run) : dir'[s] = dir[s]
  BY <1>1 DEF InRun
<1>3. \A x : x \in OnDisk(run)' <=> \E s \in InRun(dir', run) : x \in Frames(dir'[s].recs)
  BY DEF OnDisk
<1>4. \A x : x \in Pruned(dir, dir') <=> \E s \in InRun(dir, run) \ DOMAIN dir' : x \in Frames(dir[s].recs)
  BY DEF Pruned
<1>5. OnDisk(run)' \union Pruned(dir, dir') = OnDisk(run)
  BY <1>1, <1>2, <1>3, <1>4, OnDiskAre
<1>6. ASSUME NEW x \in OnDisk(run)', x \in Pruned(dir, dir') PROVE FALSE
  <2>1. PICK s \in InRun(dir', run) : x \in Frames(dir'[s].recs) BY <1>3, <1>6
  <2>2. PICK t \in InRun(dir, run) \ DOMAIN dir' : x \in Frames(dir[t].recs) BY <1>4, <1>6
  <2>3. s \in InRun(dir, run) /\ x \in Frames(dir[s].recs) /\ s \in DOMAIN dir' /\ s # t
    BY <1>1, <1>2, <2>1, <2>2
  <2>4. s \in Nat /\ t \in Nat BY <2>2, <2>3 DEF InRun, SinkIInv, SinkShape
  <2>5. dir[s].recs \in Seq(LogRecs)
    BY <2>3 DEF InRun, SinkIInv, SinkShape, LogFiles
  <2>6. x \in Nat BY <2>3, <2>5, FramesAreNumbers
  <2>7. CASE s < t
    <3>1. x < x BY <2>2, <2>3, <2>7 DEF Accounted, AcrossFiles
    <3> QED BY <2>6, <3>1
  <2>8. CASE t < s
    <3>1. x < x BY <2>2, <2>3, <2>8 DEF Accounted, AcrossFiles
    <3> QED BY <2>6, <3>1
  <2> QED BY <2>3, <2>4, <2>7, <2>8
<1>7. InFileOrder' BY <1>1, <1>2 DEF Accounted, InFileOrder
<1>8. AcrossFiles' BY <1>1, <1>2 DEF Accounted, AcrossFiles
<1>9. RunsPast'
  <2>1. ASSUME NEW s \in DOMAIN dir', dir'[s].recs # <<>> PROVE s \in DOMAIN dir /\ dir'[s] = dir[s]
    BY <2>1 DEF NoFile
  <2> QED BY <2>1 DEF RunsPast
<1> QED BY <1>5, <1>6, <1>7, <1>8, <1>9

(* A step that touches neither the files nor what the disk waits for.      *)
LEMMA HolesSame ==
  ASSUME SinkIInv, HolesIInv, dir' = dir, run' = run, gone' = gone, sink.phase # "none", sink'.phase # "none",
         sink.phase = "aborted" => sink'.phase = "aborted",
         sink'.phase # "aborted" => Expected' = Expected
  PROVE  HolesIInv'
<1>1. RunsPast' BY DEF HolesIInv, RunsPast
<1>2. sink'.phase \notin {"none", "aborted"} => Accounted'
  BY DEF HolesIInv, Accounted, OnDisk, InFileOrder, AcrossFiles
<1> QED BY <1>1, <1>2 DEF HolesIInv

(* Frames that are only sent are with nobody yet.                          *)
LEMMA HolesRing ==
  ASSUME SinkIInv, HolesIInv, SendFrame \/ CloseRing \/ ShutdownCancels \/ ShutdownReturns
  PROVE  HolesIInv'
<1>1. /\ sink' = sink /\ dir' = dir /\ run' = run /\ gone' = gone
      /\ ring'.pos = ring.pos /\ sink.phase # "none"
  BY DEF SinkIInv, SinkShape, SendFrame, CloseRing, ShutdownCancels, ShutdownReturns
<1>2. Expected' = Expected BY <1>1, QueueKept
<1> QED BY <1>1, <1>2, HolesSame

(* Nothing moves with the phase.                                           *)
LEMMA HolesPhase ==
  ASSUME SinkIInv, HolesIInv, SelectCancelled \/ Drained \/ WriteFull \/ WriteEnds \/ SelectEnds
  PROVE  HolesIInv'
<1>1. /\ dir' = dir /\ run' = run /\ gone' = gone /\ ring' = ring
      /\ sink.phase \in {"select", "drain", "lastDrain", "write"}
  BY DEF SelectCancelled, Drained, WriteFull, WriteEnds, SelectEnds
<1>2. /\ sink'.batch = sink.batch /\ sink'.buffer = sink.buffer
      /\ sink'.phase \in {"done", "lastDrain", "write", "flushThenRotate", "flush"}
  BY ZenonT(40) DEF SelectCancelled, Drained, WriteFull, WriteEnds, SelectEnds, SinkIInv, SinkShape, WriterShape, SinkFields
<1>3. Expected' = Expected BY <1>1, <1>2, QueueKept
<1> QED BY <1>1, <1>2, <1>3, HolesSame

(* What the receiver takes joins the end of the queue.                     *)
LEMMA HolesTake ==
  ASSUME SinkIInv, HolesIInv,
         \/ sink.phase = "select" /\ Take([sink EXCEPT !.phase = "drain"])
         \/ sink.phase \in {"drain", "lastDrain"} /\ Take(sink),
         UNCHANGED <<run, dir, halt, diskFaults, gone>>
  PROVE  HolesIInv'
<1> DEFINE R == Received
<1>1. /\ R \in Seq(LogRecs) /\ Len(R) = 1 /\ R[1].lo = ring.pos + 1 /\ R[1].hi \in Nat /\ R # <<>>
  BY ReceivedIs DEF SinkIInv, Take
<1>2. /\ sink'.batch = sink.batch \o R /\ sink'.buffer = sink.buffer
      /\ sink'.phase = IF sink.phase = "select" THEN "drain" ELSE sink.phase
  BY DEF Take, SinkIInv, SinkShape, WriterShape, SinkFields
<1>3. ring'.pos = R[1].hi BY <1>1 DEF Take, SinkIInv, SinkShape
<1> HIDE DEF R
<1>4. sink.batch \in Seq(LogRecs) /\ ring'.pos + 1 \in Nat
  BY <1>1, <1>3 DEF SinkIInv, SinkShape, WriterShape
<1>5. Start(R, ring'.pos + 1) = ring.pos + 1 BY <1>1 DEF Start
<1>6. Waiting' = Waiting BY <1>1, <1>2, <1>4, <1>5, StartCat DEF Waiting
<1>7. Expected' = Expected BY <1>2, <1>6 DEF Expected
<1> QED BY <1>2, <1>7, HolesSame

(* A record moves within the queue.                                        *)
LEMMA HolesWrite ==
  ASSUME SinkIInv, HolesIInv, WriteRecord
  PROVE  HolesIInv'
<1>1. /\ dir' = dir /\ run' = run /\ ring' = ring /\ gone' = gone
      /\ sink.phase = "write" /\ sink.batch # <<>> /\ sink' = Buffered(sink)
  BY DEF WriteRecord
<1>2. /\ sink'.phase = "write" /\ sink'.batch = Tail(sink.batch)
      /\ sink'.buffer = Append(sink.buffer, Head(sink.batch))
  BY <1>1, BufferedIs DEF SinkIInv, SinkShape, WriterShape
<1>3. Expected' = Expected BY <1>1, <1>2, MovesOn
<1> QED BY <1>1, <1>2, <1>3, HolesSame

(* No records, no frames.                                                  *)
LEMMA NoFrames == Frames(<<>>) = {} /\ InOrder(<<>>)
  BY DEF Frames, InOrder

(* A rotation that fails loses nothing: the old file takes the record.     *)
LEMMA HolesRotateFails ==
  ASSUME SinkIInv, HolesIInv, RotateFails
  PROVE  HolesIInv'
<1> DEFINE s0 == [sink EXCEPT !.phase = "write"]
<1>1. /\ run' = run /\ ring' = ring /\ gone' = gone
      /\ sink.phase = "create" /\ dir' = AppendedTo(sink.seq, <<>>, 0, TRUE)
      /\ sink' = Buffered(s0) /\ sink.batch # <<>>
  BY DEF RotateFails, SinkIInv, BatchShape
<1>2. DOMAIN s0 = SinkFields /\ s0.phase = "write" /\ s0.batch = sink.batch /\ s0.buffer = sink.buffer
  BY DEF SinkIInv, SinkShape, WriterShape, SinkFields
<1> HIDE DEF s0
<1>3. /\ sink'.phase = "write" /\ sink'.batch = Tail(sink.batch)
      /\ sink'.buffer = Append(sink.buffer, Head(sink.batch))
  BY <1>1, <1>2, BufferedIs
<1>4. Expected' = Expected BY <1>1, <1>3, MovesOn
<1>5. PICK es \in Seq(LogRecs) : es = <<>>
  <2>1. <<>> \in Seq(LogRecs) OBVIOUS
  <2> QED BY <2>1
<1>6. OfRun(es) /\ Frames(es) = {} /\ InOrder(es) /\ dir' = AppendedTo(sink.seq, es, 0, TRUE)
  <2>1. OfRun(es) BY <1>5 DEF OfRun
  <2> QED BY <1>1, <1>5, <2>1, NoFrames
<1>7. RunsPast /\ Accounted BY <1>1 DEF HolesIInv
<1>8. OnDisk(run)' = OnDisk(run) /\ InFileOrder' /\ AcrossFiles' /\ RunsPast'
  BY <1>1, <1>3, <1>6, <1>7, DiskGrows
<1>9. Accounted' BY <1>1, <1>4, <1>7, <1>8 DEF Accounted
<1> QED BY <1>3, <1>8, <1>9 DEF HolesIInv

(* The buffer is the frames between the disk and the batch.                *)
LEMMA BufferFrames ==
  ASSUME SinkIInv
  PROVE  /\ Frames(sink.buffer) = Expected .. (Waiting - 1) /\ InOrder(sink.buffer)
         /\ OfRun(sink.buffer) /\ sink.buffer \in Seq(LogRecs) /\ Waiting \in Nat /\ Expected \in Nat
         /\ Expected <= Waiting
<1>1. PICK b, n : b = sink.buffer /\ n = Waiting OBVIOUS
<1>2. b \in Seq(LogRecs) /\ n \in Nat /\ Fresh(b) /\ Joined(b, n)
  BY <1>1, WaitingIs DEF SinkIInv, SinkShape, WriterShape, QueueOK
<1>3. Frames(b) = Start(b, n) .. (n - 1) /\ InOrder(b) BY <1>2, FramesJoined
<1>4. OfRun(b) BY <1>2 DEF Fresh, OfRun
<1>5. Start(b, n) <= n
  <2>1. CASE b = <<>> BY <1>2, <2>1 DEF Start
  <2>2. CASE b # <<>>
    <3>1. 1 \in 1..Len(b) BY <1>2, <2>2
    <3>2. Start(b, n) <= b[1].lo /\ b[1].lo <= b[1].hi /\ b[1].hi < n /\ b[1].lo \in Nat /\ b[1].hi \in Nat
      BY <1>2, <3>1, JoinedRange
    <3> QED BY <1>2, <2>2, <3>2 DEF Start
  <2> QED BY <2>1, <2>2
<1> QED BY <1>1, <1>2, <1>3, <1>4, <1>5, ExpectedIs DEF Expected

(* The buffer's frames go from the queue to the disk.                      *)
LEMMA HolesFlush ==
  ASSUME SinkIInv, HolesIInv, FlushPending
  PROVE  HolesIInv'
<1>1. PICK w \in Nat : sink' = [AfterFlush(sink) EXCEPT !.written = w]
  <2>1. AfterFlush(sink).written = sink.written
    BY DEF AfterFlush, SinkIInv, SinkShape, WriterShape, SinkFields
  <2>2. sink.written + sink.bytes \in Nat BY DEF SinkIInv, SinkShape, WriterShape
  <2> QED BY <2>1, <2>2 DEF FlushPending
<1>2. /\ run' = run /\ halt' = halt /\ ring' = ring /\ gone' = gone
      /\ sink.phase \in {"flush", "flushThenRotate"}
      /\ dir' = AppendedTo(sink.seq, sink.buffer, sink.bytes, FALSE)
  BY DEF FlushPending
<1>3. sink'.phase \in {"prune", "done", "select"} /\ Expected' = Waiting
  BY <1>1, <1>2, FlushLeaves
<1>4. RunsPast /\ Accounted BY <1>2 DEF HolesIInv
<1>5. PICK es : es = sink.buffer OBVIOUS
<1>6. /\ es \in Seq(LogRecs) /\ OfRun(es) /\ InOrder(es) /\ Frames(es) = Expected .. (Waiting - 1)
      /\ Waiting \in Nat /\ Expected \in Nat /\ Expected >= 1 /\ Expected <= Waiting
      /\ sink.bytes \in Nat /\ dir' = AppendedTo(sink.seq, es, sink.bytes, FALSE)
  BY <1>2, <1>5, BufferFrames, ExpectedIs DEF SinkIInv, SinkShape, WriterShape
<1>7. \A y \in Frames(es) : y \in Nat /\ Expected <= y BY <1>6
<1>8. OnDisk(run)' = OnDisk(run) \union Frames(es) /\ InFileOrder' /\ AcrossFiles' /\ RunsPast'
  BY <1>2, <1>3, <1>4, <1>6, <1>7, DiskGrows
<1>9. 1 .. (Expected' - 1) = (1 .. (Expected - 1)) \union Frames(es) BY <1>3, <1>6
<1>10. (1 .. (Expected - 1)) \intersect Frames(es) = {} BY <1>6
<1>11. Accounted' BY <1>2, <1>4, <1>8, <1>9, <1>10 DEF Accounted
<1> QED BY <1>3, <1>8, <1>11 DEF HolesIInv

(* The buffer's frames are on disk or lost, each on one side only.         *)
LEMMA HolesFlushFails ==
  ASSUME SinkIInv, HolesIInv, FlushFails
  PROVE  HolesIInv'
<1>1. PICK w \in Nat : sink' = [AfterFlush(sink) EXCEPT !.written = w]
  <2>1. AfterFlush(sink).written = sink.written
    BY DEF AfterFlush, SinkIInv, SinkShape, WriterShape, SinkFields
  <2>2. sink.written + sink.bytes \in Nat /\ sink.written + 0 \in Nat BY DEF SinkIInv, SinkShape, WriterShape
  <2> QED BY <2>1, <2>2 DEF FlushFails
<1>2. run' = run /\ halt' = halt /\ ring' = ring /\ sink.phase \in {"flush", "flushThenRotate"}
  BY DEF FlushFails
<1>3. sink'.phase \in {"prune", "done", "select"} /\ Expected' = Waiting
  BY <1>1, <1>2, FlushLeaves
<1>4. RunsPast /\ Accounted BY <1>2 DEF HolesIInv
<1>5. PICK b : b = sink.buffer OBVIOUS
<1>6. /\ b \in Seq(LogRecs) /\ Frames(b) = Expected .. (Waiting - 1)
      /\ Waiting \in Nat /\ Expected \in Nat /\ Expected >= 1 /\ Expected <= Waiting /\ sink.bytes \in Nat
      /\ Fresh(b) /\ Joined(b, Waiting)
  BY <1>5, BufferFrames, ExpectedIs DEF SinkIInv, SinkShape, WriterShape, QueueOK
<1>7. PICK es \in Seq(LogRecs), l \in Nat, lost \in SUBSET Frames(b) :
        /\ dir' = AppendedTo(sink.seq, es, l, TRUE) /\ OfRun(es) /\ InOrder(es)
        /\ gone' = gone \union lost /\ Frames(es) \union lost = Frames(b) /\ Frames(es) \intersect lost = {}
  <2>1. CASE dir' = AppendedTo(sink.seq, <<>>, 0, TRUE) /\ gone' = gone \union Frames(b)
    <3>1. <<>> \in Seq(LogRecs) /\ OfRun(<<>>) /\ 0 \in Nat BY DEF OfRun
    <3> QED BY <2>1, <3>1, NoFrames
  <2>2. CASE \E n \in 0..(Len(b) - 1) :
               /\ dir' = AppendedTo(sink.seq, Cut(b, n), sink.bytes, TRUE)
               /\ gone' = gone \union Frames(SubSeq(b, n + 1, Len(b)))
    <3>1. PICK n \in 0..(Len(b) - 1) :
               /\ dir' = AppendedTo(sink.seq, Cut(b, n), sink.bytes, TRUE)
               /\ gone' = gone \union Frames(SubSeq(b, n + 1, Len(b)))
      BY <2>2
    <3>2. Cut(b, n) \in Seq(LogRecs) /\ OfRun(Cut(b, n)) BY <1>6, CutIs
    <3>3. /\ Frames(Cut(b, n)) \union Frames(SubSeq(b, n + 1, Len(b))) = Frames(b)
          /\ Frames(Cut(b, n)) \intersect Frames(SubSeq(b, n + 1, Len(b))) = {} /\ InOrder(Cut(b, n))
      BY <1>6, CutFrames
    <3> QED BY <1>6, <3>1, <3>2, <3>3
  <2> QED BY <1>5, <2>1, <2>2 DEF FlushFails
<1>8. \A y \in Frames(es) : y \in Nat /\ Expected <= y BY <1>6, <1>7
<1>9. OnDisk(run)' = OnDisk(run) \union Frames(es) /\ InFileOrder' /\ AcrossFiles' /\ RunsPast'
  BY <1>2, <1>3, <1>4, <1>7, <1>8, DiskGrows
<1>10. 1 .. (Expected' - 1) = (1 .. (Expected - 1)) \union Frames(b) BY <1>3, <1>6
<1>11. (1 .. (Expected - 1)) \intersect Frames(b) = {} BY <1>6
<1>12. /\ OnDisk(run)' \union gone' = 1 .. (Expected' - 1)
       /\ OnDisk(run)' \intersect gone' = {}
  BY <1>4, <1>7, <1>9, <1>10, <1>11 DEF Accounted
<1>13. Accounted' BY <1>9, <1>12 DEF Accounted
<1> QED BY <1>3, <1>9, <1>13 DEF HolesIInv

(* Pruning gives frames up with their files, and says so.                  *)
LEMMA HolesPrunes ==
  ASSUME SinkIInv, HolesIInv, NEW ok \in BOOLEAN, RotatePrunes(ok)
  PROVE  HolesIInv'
<1>1. /\ run' = run /\ ring' = ring /\ gone' = gone \union Pruned(dir, dir')
      /\ sink.phase = "prune" /\ sink' = [sink EXCEPT !.phase = "create"]
      /\ dir' = Remaining(dir, MaxFiles - 1, sink.seq, ok)
  BY DEF RotatePrunes
<1>2. sink'.buffer = sink.buffer /\ sink'.batch = sink.batch /\ sink'.phase = "create"
  BY <1>1 DEF SinkIInv, SinkShape, WriterShape, SinkFields
<1>3. sink.seq \in DOMAIN dir BY <1>1 DEF SinkIInv, Numbered, NewestIs
<1>4. DOMAIN dir' \subseteq DOMAIN dir /\ \A s \in DOMAIN dir' : dir'[s] = dir[s]
  <2>1. dir \in [DOMAIN dir -> LogFiles] BY DEF SinkIInv, SinkShape
  <2> QED BY <1>1, <2>1, RemainingIs
<1>5. Expected' = Expected BY <1>1, <1>2, QueueKept
<1>6. RunsPast /\ Accounted BY <1>1 DEF HolesIInv
<1>7. /\ OnDisk(run)' \union Pruned(dir, dir') = OnDisk(run)
      /\ OnDisk(run)' \intersect Pruned(dir, dir') = {}
      /\ InFileOrder' /\ AcrossFiles' /\ RunsPast'
  <2>1. DOMAIN dir' \subseteq DOMAIN dir \union {sink.seq} BY <1>4
  <2>2. sink'.phase # "none" BY <1>2
  <2> QED BY <1>1, <1>3, <1>4, <1>6, <2>1, <2>2, DiskShrinks
<1>8. OnDisk(run)' \union gone' = OnDisk(run) \union gone /\ OnDisk(run)' \intersect gone' = {}
  BY <1>1, <1>6, <1>7 DEF Accounted
<1>9. Accounted' BY <1>1, <1>5, <1>6, <1>7, <1>8 DEF Accounted
<1> QED BY <1>2, <1>7, <1>9 DEF HolesIInv

(* The new file is empty, and what converges with it is given up as well.  *)
LEMMA HolesCreates ==
  ASSUME SinkIInv, HolesIInv, NEW ok \in BOOLEAN, RotateCreates(ok)
  PROVE  HolesIInv'
<1> DEFINE s0 == [sink EXCEPT !.phase = "write", !.seq = @ + 1, !.written = 0]
           n == sink.seq + 1
<1>1. /\ run' = run /\ ring' = ring /\ gone' = gone \union Pruned(dir, dir')
      /\ sink.phase = "create" /\ sink' = Buffered(s0) /\ sink.batch # <<>>
      /\ dir' = Remaining(WithFile(dir, n), MaxFiles, n, ok)
  BY DEF RotateCreates, SinkIInv, BatchShape
<1>2. DOMAIN s0 = SinkFields /\ s0.phase = "write" /\ s0.batch = sink.batch /\ s0.buffer = sink.buffer
  BY DEF SinkIInv, SinkShape, WriterShape, SinkFields
<1> HIDE DEF s0
<1>3. /\ sink'.phase = "write" /\ sink'.batch = Tail(sink.batch)
      /\ sink'.buffer = Append(sink.buffer, Head(sink.batch))
  BY <1>1, <1>2, BufferedIs
<1>4. Expected' = Expected BY <1>1, <1>3, MovesOn
<1>5. n \notin DOMAIN dir
  <2>1. /\ (\A t \in DOMAIN dir : t <= sink.seq) /\ DOMAIN dir \subseteq Nat /\ sink.seq \in Nat
    BY <1>1 DEF SinkIInv, Numbered, NewestIs, SinkShape, WriterShape
  <2> QED BY <2>1
<1> HIDE DEF n
<1>6. PICK m : m = WithFile(dir, n) OBVIOUS
<1>7. /\ DOMAIN m = DOMAIN dir \union {n} /\ m \in [DOMAIN dir \union {n} -> LogFiles]
      /\ m[n] = NoFile /\ \A t \in DOMAIN dir \ {n} : m[t] = dir[t]
  <2>1. dir \in [DOMAIN dir -> LogFiles] BY DEF SinkIInv, SinkShape
  <2>2. NoFile \in LogFiles BY DEF NoFile, LogFiles
  <2> QED BY <1>6, <2>1, <2>2 DEF WithFile
<1>8. /\ DOMAIN dir' \subseteq DOMAIN dir \union {n} /\ n \in DOMAIN dir'
      /\ \A s \in DOMAIN dir' : dir'[s] = m[s]
  BY <1>1, <1>6, <1>7, RemainingIs
<1>9. dir'[n] = NoFile /\ \A s \in DOMAIN dir' : s \in DOMAIN dir => dir'[s] = dir[s]
  BY <1>5, <1>7, <1>8
<1>10. RunsPast /\ Accounted BY <1>1 DEF HolesIInv
<1>11. /\ OnDisk(run)' \union Pruned(dir, dir') = OnDisk(run)
       /\ OnDisk(run)' \intersect Pruned(dir, dir') = {}
       /\ InFileOrder' /\ AcrossFiles' /\ RunsPast'
  <2>1. sink'.phase # "none" BY <1>3
  <2> QED BY <1>1, <1>8, <1>9, <1>10, <2>1, DiskShrinks
<1>12. OnDisk(run)' \union gone' = OnDisk(run) \union gone /\ OnDisk(run)' \intersect gone' = {}
  BY <1>1, <1>10, <1>11 DEF Accounted
<1>13. Accounted' BY <1>1, <1>4, <1>10, <1>11, <1>12 DEF Accounted
<1> QED BY <1>3, <1>11, <1>13 DEF HolesIInv

(* A run starts with no frame on disk: its first file is new.              *)
LEMMA HolesOpen ==
  ASSUME SinkIInv, HolesIInv, NEW ok \in BOOLEAN, Open(ok)
  PROVE  HolesIInv'
<1> DEFINE n == NextSeq(Seqs)
<1>1. /\ run' = run /\ ring' = ring /\ gone' = gone
      /\ sink.phase = "none" /\ sink' = [NoSink EXCEPT !.phase = "select", !.seq = n]
      /\ dir' = WithFile(Remaining(dir, MaxFiles - 1, 0, ok), n)
  BY DEF Open
<1> HIDE DEF n
<1>2. sink'.phase = "select" /\ sink'.buffer = <<>> /\ sink'.batch = <<>>
  BY <1>1 DEF NoSink
<1>3. PICK m : m = Remaining(dir, MaxFiles - 1, 0, ok) OBVIOUS
<1>4. DOMAIN m \subseteq DOMAIN dir /\ \A s \in DOMAIN m : m[s] = dir[s]
  <2>1. dir \in [DOMAIN dir -> LogFiles] BY DEF SinkIInv, SinkShape
  <2> QED BY <1>3, <2>1, RemainingIs
<1>5. \A t \in DOMAIN dir' : dir'[t] = NoFile \/ (t \in DOMAIN dir /\ dir'[t] = dir[t])
  BY <1>1, <1>3, <1>4 DEF WithFile
<1>6. \A t \in DOMAIN dir' : dir'[t].recs # <<>> =>
        dir'[t].recs[1].run \in Nat /\ dir'[t].recs[1].run < run /\ run \in Nat
  <2>1. run \in Nat BY SinkAssumption DEF SinkIInv, SinkShape
  <2> QED BY <1>1, <1>5, <2>1 DEF NoFile, HolesIInv, RunsPast
<1>7. RunsPast' BY <1>1, <1>2, <1>6 DEF RunsPast
<1>8. InRun(dir', run) = {} BY <1>6 DEF InRun
<1>9. OnDisk(run)' = {} /\ InFileOrder' /\ AcrossFiles'
  BY <1>1, <1>8 DEF OnDisk, InFileOrder, AcrossFiles
<1>10. Expected' = 1 /\ gone' = {}
  BY <1>1, <1>2 DEF HolesIInv, Expected, Waiting, Start
<1>11. Accounted' BY <1>9, <1>10 DEF Accounted
<1> QED BY <1>2, <1>7, <1>11 DEF HolesIInv

(* What a writer leaves when it is cut off is of its run.                  *)
LEMMA CutOffRuns ==
  ASSUME SinkIInv, RunsPast, sink.phase \notin {"none", "aborted"}, CutOff
  PROVE  \A s \in DOMAIN dir' : dir'[s].recs # <<>> =>
           dir'[s].recs[1].run <= run /\ dir'[s].recs[1].run \in Nat
<1>1. CASE dir' = dir
  BY <1>1 DEF RunsPast
<1>2. CASE \E n \in 0..(Len(sink.buffer) - 1) : dir' = AppendedTo(sink.seq, Cut(sink.buffer, n), sink.bytes, FALSE)
  <2>1. PICK n \in 0..(Len(sink.buffer) - 1) : dir' = AppendedTo(sink.seq, Cut(sink.buffer, n), sink.bytes, FALSE)
    BY <1>2
  <2>2. PICK b, m : b = sink.buffer /\ m = Waiting OBVIOUS
  <2>3. b \in Seq(LogRecs) /\ Fresh(b) /\ Joined(b, m) /\ m \in Nat /\ sink.bytes \in Nat
    BY <2>2, WaitingIs DEF SinkIInv, SinkShape, WriterShape, QueueOK
  <2>4. Cut(b, n) \in Seq(LogRecs) /\ OfRun(Cut(b, n)) BY <2>1, <2>2, <2>3, CutIs
  <2>5. PICK es : es = Cut(b, n) OBVIOUS
  <2>6. PICK r, c, q : r = dir[sink.seq].recs /\ c = r \o es /\ q = sink.seq OBVIOUS
  <2>7. q \in DOMAIN dir /\ r \in Seq(LogRecs) /\ OfRun(r) /\ run \in Nat
    BY SMTT(40), <2>6, SinkAssumption DEF SinkIInv, Numbered, NewestIs, SinkShape, LogFiles, ActiveOK, OfRun
  <2>8. es \in Seq(LogRecs) /\ OfRun(es) /\ dir' = AppendedTo(sink.seq, es, sink.bytes, FALSE)
    BY <2>1, <2>2, <2>4, <2>5
  <2>9. /\ DOMAIN dir' = DOMAIN dir /\ dir'[q].recs = c /\ \A s \in DOMAIN dir \ {q} : dir'[s] = dir[s]
    BY <2>3, <2>6, <2>7, <2>8, AppendsTo DEF SinkIInv
  <2>10. c \in Seq(LogRecs) /\ \A i \in 1..Len(c) : c[i].run = run
    BY ZenonT(40), <2>6, <2>7, <2>8, CatIs, CatOfRun
  <2>11. c # <<>> => c[1].run = run
    <3>1. c # <<>> => 1 \in 1..Len(c) BY <2>10
    <3> QED BY <2>10, <3>1
  <2> QED BY <2>7, <2>9, <2>11 DEF RunsPast
<1> QED BY <1>1, <1>2 DEF CutOff

(* An aborted writer is accounted for by nobody, but its files are its.    *)
LEMMA HolesAbort ==
  ASSUME SinkIInv, HolesIInv, ShutdownAborts
  PROVE  HolesIInv'
<1>1. run' = run /\ sink.phase # "none" /\ sink' = [sink EXCEPT !.phase = "aborted"] /\ CutOff
  BY DEF ShutdownAborts, SinkIInv, IdleBefore
<1>2. sink'.phase = "aborted" BY <1>1 DEF SinkIInv, SinkShape, WriterShape, SinkFields
<1>3. \A s \in DOMAIN dir' : dir'[s].recs # <<>> =>
        dir'[s].recs[1].run <= run /\ dir'[s].recs[1].run \in Nat
  <2>1. CASE dir' = dir BY <2>1 DEF HolesIInv, RunsPast
  <2>2. CASE dir' # dir
    <3>1. sink.phase # "aborted" BY <1>1, <2>2 DEF CutOff
    <3> QED BY <1>1, <3>1, CutOffRuns DEF HolesIInv
  <2> QED BY <2>1, <2>2
<1> QED BY <1>1, <1>2, <1>3 DEF HolesIInv, RunsPast

(* Every file is of an earlier run when the next one starts.               *)
LEMMA HolesNextRun ==
  ASSUME SinkIInv, HolesIInv, NextRun
  PROVE  HolesIInv'
<1>1. /\ run' = run + 1 /\ sink.phase # "none" /\ gone' = {} /\ ring'.pos = 0 /\ sink'.phase = "none"
      /\ dir' = dir \/ (sink.phase # "aborted" /\ CutOff)
  BY DEF NextRun, NoSink
<1>2. \A s \in DOMAIN dir' : dir'[s].recs # <<>> =>
        dir'[s].recs[1].run <= run /\ dir'[s].recs[1].run \in Nat
  <2>1. CASE dir' = dir BY <2>1 DEF HolesIInv, RunsPast
  <2> QED BY <1>1, <2>1, CutOffRuns DEF HolesIInv
<1>3. run \in Nat BY SinkAssumption DEF SinkIInv, SinkShape
<1> QED BY <1>1, <1>2, <1>3 DEF HolesIInv, RunsPast

(* A daemon starts with an empty directory.                                *)
LEMMA HolesInitial == SinkInit => HolesIInv
  BY DEF SinkInit, HolesIInv, RunsPast, NoSink

(* Every step keeps every frame accounted for.                             *)
LEMMA HolesSteps == SinkIInv /\ HolesIInv /\ [SinkNext]_kvars => HolesIInv'
<1> SUFFICES ASSUME SinkIInv, HolesIInv, [SinkNext]_kvars PROVE HolesIInv' OBVIOUS
<1>1. CASE UNCHANGED kvars
  <2>1. run' = run /\ ring' = ring /\ sink' = sink /\ dir' = dir /\ gone' = gone
    BY <1>1 DEF kvars
  <2>2. Expected' = Expected BY <2>1, QueueKept
  <2>3. RunsPast' BY <2>1 DEF HolesIInv, RunsPast
  <2>4. sink'.phase \notin {"none", "aborted"} => Accounted'
    BY <2>1, <2>2 DEF HolesIInv, Accounted, OnDisk, InFileOrder, AcrossFiles
  <2> QED BY <2>1, <2>3, <2>4 DEF HolesIInv
<1>2. CASE SelectRecv
  <2>1. CASE sink.phase = "select" /\ Take([sink EXCEPT !.phase = "drain"])
    BY <1>2, <2>1, HolesTake DEF SelectRecv
  <2>2. CASE SelectEnds BY <2>2, HolesPhase
  <2> QED BY <1>2, <2>1, <2>2 DEF SelectRecv, SelectEnds
<1>3. CASE DrainTakes BY <1>3, HolesTake DEF DrainTakes
<1>4. CASE WriterStep
  BY <1>2, <1>3, <1>4, HolesPhase, HolesWrite, HolesFlush, HolesFlushFails, HolesRotateFails,
     HolesPrunes, HolesCreates DEF WriterStep
<1> QED BY <1>1, <1>4, HolesOpen, HolesRing, HolesAbort, HolesNextRun DEF SinkNext

(* Every frame the receiver passed is on disk, counted by a gap on disk,   *)
(* still with the writer or lost to the disk, never in two places, and the *)
(* files of a run read by number have the frames in order (log_sink.rs).   *)
THEOREM HolesAreVisible == SinkSpec => []HolesVisible
<1>1. SinkIInv /\ HolesIInv => HolesVisible
  <2> SUFFICES ASSUME SinkIInv, HolesIInv, sink.phase \notin {"none", "aborted"} PROVE HolesVisible
    BY DEF HolesVisible
  <2>1. PICK a, b, n, w, x : a = sink.buffer /\ b = sink.batch /\ n = ring.pos + 1 /\ w = Waiting /\ x = Expected
    OBVIOUS
  <2>2. /\ a \in Seq(LogRecs) /\ b \in Seq(LogRecs) /\ n \in Nat /\ ring.pos \in Nat /\ w \in Nat /\ x \in Nat
        /\ Fresh(b) /\ Joined(b, n) /\ Fresh(a) /\ Joined(a, w) /\ w = Start(b, n) /\ x >= 1 /\ x <= w
    BY SMTT(40), <2>1, WaitingIs, BufferFrames, ExpectedIs DEF SinkIInv, SinkShape, WriterShape, QueueOK, Waiting
  <2>3. Frames(b) = w .. (n - 1) /\ Frames(a) = x .. (w - 1)
    BY <2>1, <2>2, FramesJoined, BufferFrames
  <2>4. w <= n
    <3>1. CASE b = <<>> BY <2>2, <3>1 DEF Start
    <3>2. CASE b # <<>>
      <4>1. 1 \in 1..Len(b) BY <2>2, <3>2
      <4>2. b[1].lo <= b[1].hi /\ b[1].hi < n /\ b[1].lo \in Nat /\ b[1].hi \in Nat
        BY <2>2, <4>1, JoinedRange
      <4> QED BY <2>2, <3>2, <4>2 DEF Start
    <3> QED BY <3>1, <3>2
  <2>5. Frames(a) \union Frames(b) = x .. ring.pos BY <2>1, <2>2, <2>3, <2>4
  <2>6. Accounted /\ OnDisk(run) \union gone = 1 .. (x - 1)
    BY <2>1 DEF HolesIInv, Accounted
  <2>7. OnDisk(run) \union gone \union (Frames(a) \union Frames(b)) = 1 .. ring.pos
    BY <2>2, <2>1, <2>4, <2>5, <2>6
  <2>8. (OnDisk(run) \union gone) \intersect (Frames(a) \union Frames(b)) = {}
    BY <2>2, <2>5, <2>6
  <2>9. InOrder(a \o b)
    <3>1. Joined(a \o b, n) /\ a \o b \in Seq(LogRecs) BY <2>2, JoinedCat, CatIs
    <3>2. PICK c : c = a \o b OBVIOUS
    <3>3. \A i, j \in 1..Len(c) : i < j => c[i].hi < c[j].lo BY <2>2, <3>1, <3>2, JoinedOrdered
    <3>4. InOrder(c) BY <3>1, <3>2, <3>3 DEF InOrder
    <3> QED BY <3>2, <3>4
  <2> QED BY <2>1, <2>6, <2>7, <2>8, <2>9 DEF HolesVisible, Accounted, InFileOrder, AcrossFiles
<1>2. SinkSpec => []HolesIInv
  BY HolesInitial, HolesSteps, SinkInvariance, PTL DEF SinkSpec
<1> QED BY <1>1, <1>2, SinkInvariance, PTL

(***************************************************************************)
(* How long a file gets                                                    *)
(***************************************************************************)
Limit == MaxBytes + FrameSize

(* The writer knows the length of its file, and what it holds still fits.  *)
WriterFits ==
  /\ ~dir[sink.seq].over => dir[sink.seq].size = sink.written
  /\ ~dir[sink.seq].over => sink.written + sink.bytes < Limit

SizesIInv ==
  /\ \A s \in DOMAIN dir : ~dir[s].over => dir[s].size < Limit
  /\ sink.phase \notin {"none", "aborted"} => WriterFits

(* A step that touches neither the files nor the lengths.                  *)
LEMMA SizesSame ==
  ASSUME SinkIInv, SizesIInv, dir' = dir, sink.phase # "none", sink'.seq = sink.seq,
         sink'.written = sink.written, sink'.bytes = sink.bytes,
         sink.phase = "aborted" => sink'.phase = "aborted"
  PROVE  SizesIInv'
  BY DEF SizesIInv, WriterFits

(* Steps that only move the writer, the ring or the shutdown.              *)
LEMMA SizesPhase ==
  ASSUME SinkIInv, SizesIInv,
         \/ SelectCancelled \/ Drained \/ WriteFull \/ WriteEnds \/ SelectRecv \/ DrainTakes
         \/ SendFrame \/ CloseRing \/ ShutdownCancels \/ ShutdownReturns
  PROVE  SizesIInv'
<1>1. dir' = dir /\ sink.phase # "none" /\ (sink.phase = "aborted" => sink' = sink)
  BY DEF SelectCancelled, Drained, WriteFull, WriteEnds, SelectRecv, DrainTakes, SendFrame, CloseRing,
         ShutdownCancels, ShutdownReturns, SinkIInv, IdleBefore
<1>2. sink'.seq = sink.seq /\ sink'.written = sink.written /\ sink'.bytes = sink.bytes
  BY ZenonT(40) DEF SelectCancelled, Drained, WriteFull, WriteEnds, SelectRecv, DrainTakes, SendFrame, CloseRing, Take,
         ShutdownCancels, ShutdownReturns, SinkIInv, SinkShape, WriterShape, SinkFields
<1> QED BY <1>1, <1>2, SizesSame

(* A record is buffered while the file and the buffer are below the limit. *)
LEMMA SizesWrite ==
  ASSUME SinkIInv, SizesIInv, WriteRecord
  PROVE  SizesIInv'
<1>1. /\ dir' = dir /\ run' = run /\ ring' = ring /\ sink.phase = "write" /\ sink.batch # <<>>
      /\ sink' = Buffered(sink) /\ ~(sink.written + sink.bytes >= MaxBytes)
  BY DEF WriteRecord, IsFull
<1>2. /\ sink'.phase = "write" /\ sink'.batch = Tail(sink.batch) /\ sink'.seq = sink.seq
      /\ sink'.buffer = Append(sink.buffer, Head(sink.batch)) /\ sink'.written = sink.written
      /\ sink'.bytes = sink.bytes + Size(Head(sink.batch))
  BY <1>1, BufferedIs DEF SinkIInv, SinkShape, WriterShape
<1>3. Size(Head(sink.batch)) \in 1..FrameSize BY <1>1, <1>2, MovesOn
<1>4. sink.written \in Nat /\ sink.bytes \in Nat /\ MaxBytes \in Nat /\ FrameSize \in Nat
  BY SinkAssumption DEF SinkIInv, SinkShape, WriterShape
<1>5. sink'.written + sink'.bytes < Limit
  <2>1. PICK z \in 1..FrameSize : z = Size(Head(sink.batch)) BY <1>3
  <2> QED BY <1>1, <1>2, <1>4, <2>1 DEF Limit
<1> QED BY <1>1, <1>2, <1>5 DEF SizesIInv, WriterFits

(* The buffer reaches the file: the file is as long as the writer thinks.  *)
LEMMA SizesFlush ==
  ASSUME SinkIInv, SizesIInv, FlushPending
  PROVE  SizesIInv'
<1>1. /\ sink.phase \in {"flush", "flushThenRotate"} /\ sink.bytes \in Nat /\ sink.written \in Nat
      /\ dir' = AppendedTo(sink.seq, sink.buffer, sink.bytes, FALSE)
      /\ sink.seq \in DOMAIN dir /\ sink.buffer \in Seq(LogRecs)
  BY DEF FlushPending, SinkIInv, SinkShape, WriterShape, Numbered, NewestIs
<1>2. sink'.seq = sink.seq /\ sink'.bytes = 0 /\ sink'.written = sink.written + sink.bytes
  BY DEF FlushPending, AfterFlush, SinkIInv, SinkShape, WriterShape, SinkFields
<1>3. /\ DOMAIN dir' = DOMAIN dir /\ dir'[sink.seq].over = dir[sink.seq].over
      /\ dir'[sink.seq].size = dir[sink.seq].size + sink.bytes
      /\ \A s \in DOMAIN dir \ {sink.seq} : dir'[s] = dir[s]
  <2>1. DOMAIN dir' = DOMAIN dir /\ dir'[sink.seq].over = (dir[sink.seq].over \/ FALSE)
        /\ dir'[sink.seq].size = dir[sink.seq].size + sink.bytes
        /\ \A s \in DOMAIN dir \ {sink.seq} : dir'[s] = dir[s]
    BY <1>1, AppendsTo DEF SinkIInv
  <2>2. dir[sink.seq].over \in BOOLEAN BY <1>1 DEF SinkIInv, SinkShape, LogFiles
  <2> QED BY <2>1, <2>2
<1>4. WriterFits BY <1>1 DEF SizesIInv
<1>5. ~dir'[sink.seq].over => dir'[sink.seq].size = sink'.written /\ sink'.written < Limit
  BY <1>2, <1>3, <1>4 DEF WriterFits
<1>6. sink'.written + sink'.bytes = sink'.written BY <1>1, <1>2
<1> QED BY <1>2, <1>3, <1>5, <1>6 DEF SizesIInv, WriterFits

(* A failed write leaves a file that is not bounded any more, and says so. *)
LEMMA SizesFails ==
  ASSUME SinkIInv, SizesIInv, sink.phase \notin {"none", "aborted"}, sink'.seq = sink.seq,
         NEW es \in Seq(LogRecs), NEW l \in Nat, dir' = AppendedTo(sink.seq, es, l, TRUE)
  PROVE  SizesIInv'
<1>1. sink.seq \in DOMAIN dir BY DEF SinkIInv, Numbered, NewestIs
<1>2. /\ DOMAIN dir' = DOMAIN dir /\ dir'[sink.seq].over = (dir[sink.seq].over \/ TRUE)
      /\ \A s \in DOMAIN dir \ {sink.seq} : dir'[s] = dir[s]
  BY <1>1, AppendsTo DEF SinkIInv
<1> QED BY <1>2 DEF SizesIInv, WriterFits

(* Pruning leaves the active file as it is.                                *)
LEMMA SizesPrunes ==
  ASSUME SinkIInv, SizesIInv, NEW ok \in BOOLEAN, RotatePrunes(ok)
  PROVE  SizesIInv'
<1>1. /\ sink.phase = "prune" /\ sink' = [sink EXCEPT !.phase = "create"]
      /\ dir' = Remaining(dir, MaxFiles - 1, sink.seq, ok)
  BY DEF RotatePrunes
<1>2. sink'.seq = sink.seq /\ sink'.bytes = sink.bytes /\ sink'.written = sink.written
  BY <1>1 DEF SinkIInv, SinkShape, WriterShape, SinkFields
<1>3. sink.seq \in DOMAIN dir BY <1>1 DEF SinkIInv, Numbered, NewestIs
<1>4. /\ DOMAIN dir' \subseteq DOMAIN dir /\ sink.seq \in DOMAIN dir'
      /\ \A s \in DOMAIN dir' : dir'[s] = dir[s]
  <2>1. dir \in [DOMAIN dir -> LogFiles] BY DEF SinkIInv, SinkShape
  <2> QED BY <1>1, <1>3, <2>1, RemainingIs
<1> QED BY <1>1, <1>2, <1>4 DEF SizesIInv, WriterFits

(* A new file starts with the one record that did not fit the old one.     *)
LEMMA SizesCreates ==
  ASSUME SinkIInv, SizesIInv, NEW ok \in BOOLEAN, RotateCreates(ok)
  PROVE  SizesIInv'
<1> DEFINE s0 == [sink EXCEPT !.phase = "write", !.seq = @ + 1, !.written = 0]
           n == sink.seq + 1
<1>1. /\ run' = run /\ ring' = ring /\ sink.phase = "create" /\ sink' = Buffered(s0) /\ sink.batch # <<>>
      /\ dir' = Remaining(WithFile(dir, n), MaxFiles, n, ok) /\ sink.bytes = 0
  BY DEF RotateCreates, SinkIInv, BatchShape
<1>2. /\ DOMAIN s0 = SinkFields /\ s0.batch = sink.batch /\ s0.buffer = sink.buffer /\ s0.seq = n
      /\ s0.written = 0 /\ s0.bytes = sink.bytes
  BY DEF SinkIInv, SinkShape, WriterShape, SinkFields
<1> HIDE DEF s0
<1>3. /\ sink'.seq = n /\ sink'.batch = Tail(sink.batch) /\ sink'.written = 0
      /\ sink'.buffer = Append(sink.buffer, Head(sink.batch))
      /\ sink'.bytes = sink.bytes + Size(Head(sink.batch))
  BY <1>1, <1>2, BufferedIs
<1>4. Size(Head(sink.batch)) \in 1..FrameSize BY <1>1, <1>3, MovesOn
<1>5. sink'.written + sink'.bytes < Limit /\ 0 < Limit
  <2>1. PICK z \in 1..FrameSize : z = Size(Head(sink.batch)) BY <1>4
  <2>2. MaxBytes \in Nat \ {0} /\ FrameSize \in Nat BY SinkAssumption
  <2>3. sink'.bytes = 0 + z /\ sink'.written = 0 BY <1>1, <1>3, <2>1
  <2> QED BY <2>1, <2>2, <2>3 DEF Limit
<1> HIDE DEF n
<1>6. PICK m : m = WithFile(dir, n) OBVIOUS
<1>7. /\ DOMAIN m = DOMAIN dir \union {n} /\ m \in [DOMAIN dir \union {n} -> LogFiles]
      /\ m[n] = NoFile /\ \A t \in DOMAIN dir \ {n} : m[t] = dir[t]
  <2>1. dir \in [DOMAIN dir -> LogFiles] BY DEF SinkIInv, SinkShape
  <2>2. NoFile \in LogFiles BY DEF NoFile, LogFiles
  <2> QED BY <1>6, <2>1, <2>2 DEF WithFile
<1>8. /\ DOMAIN dir' \subseteq DOMAIN dir \union {n} /\ n \in DOMAIN dir'
      /\ \A s \in DOMAIN dir' : dir'[s] = m[s]
  BY <1>1, <1>6, <1>7, RemainingIs
<1>9. dir'[n].size = 0 /\ \A s \in DOMAIN dir' \ {n} : s \in DOMAIN dir /\ dir'[s] = dir[s]
  BY <1>7, <1>8 DEF NoFile
<1>10. \A s \in DOMAIN dir' : ~dir'[s].over => dir'[s].size < Limit
  BY <1>5, <1>9 DEF SizesIInv
<1> QED BY <1>3, <1>5, <1>9, <1>10 DEF SizesIInv, WriterFits

(* A file that was just opened is empty.                                   *)
LEMMA SizesOpen ==
  ASSUME SinkIInv, SizesIInv, NEW ok \in BOOLEAN, Open(ok)
  PROVE  SizesIInv'
<1> DEFINE n == NextSeq(Seqs)
<1>1. /\ sink' = [NoSink EXCEPT !.phase = "select", !.seq = n]
      /\ dir' = WithFile(Remaining(dir, MaxFiles - 1, 0, ok), n)
  BY DEF Open
<1> HIDE DEF n
<1>2. sink'.seq = n /\ sink'.bytes = 0 /\ sink'.written = 0
  BY <1>1 DEF NoSink
<1>3. PICK m : m = Remaining(dir, MaxFiles - 1, 0, ok) OBVIOUS
<1>4. DOMAIN m \subseteq DOMAIN dir /\ \A s \in DOMAIN m : m[s] = dir[s]
  <2>1. dir \in [DOMAIN dir -> LogFiles] BY DEF SinkIInv, SinkShape
  <2> QED BY <1>3, <2>1, RemainingIs
<1>5. dir'[n] = NoFile /\ \A t \in DOMAIN dir' \ {n} : t \in DOMAIN dir /\ dir'[t] = dir[t]
  BY <1>1, <1>3, <1>4 DEF WithFile
<1>6. 0 < Limit /\ 0 + 0 < Limit BY SinkAssumption DEF Limit
<1>7. dir'[n].size = 0 BY <1>5 DEF NoFile
<1>8. \A s \in DOMAIN dir' : ~dir'[s].over => dir'[s].size < Limit
  BY <1>5, <1>6, <1>7 DEF SizesIInv
<1> QED BY <1>2, <1>6, <1>7, <1>8 DEF SizesIInv, WriterFits

(* A cut write is no longer than the whole one.                            *)
LEMMA SizesCut ==
  ASSUME SinkIInv, SizesIInv, sink.phase \notin {"none", "aborted"}, CutOff
  PROVE  \A s \in DOMAIN dir' : ~dir'[s].over => dir'[s].size < Limit
<1>1. CASE dir' = dir
  BY <1>1 DEF SizesIInv
<1>2. CASE \E n \in 0..(Len(sink.buffer) - 1) : dir' = AppendedTo(sink.seq, Cut(sink.buffer, n), sink.bytes, FALSE)
  <2>1. PICK n \in 0..(Len(sink.buffer) - 1) : dir' = AppendedTo(sink.seq, Cut(sink.buffer, n), sink.bytes, FALSE)
    BY <1>2
  <2>2. PICK b, m : b = sink.buffer /\ m = Waiting OBVIOUS
  <2>3. b \in Seq(LogRecs) /\ Fresh(b) /\ Joined(b, m) /\ m \in Nat /\ sink.bytes \in Nat
    BY <2>2, WaitingIs DEF SinkIInv, SinkShape, WriterShape, QueueOK
  <2>4. Cut(b, n) \in Seq(LogRecs) BY <2>1, <2>2, <2>3, CutIs
  <2>5. PICK es : es = Cut(b, n) OBVIOUS
  <2>6. sink.seq \in DOMAIN dir /\ dir[sink.seq].over \in BOOLEAN
    BY DEF SinkIInv, Numbered, NewestIs, SinkShape, LogFiles
  <2>7. /\ DOMAIN dir' = DOMAIN dir /\ dir'[sink.seq].over = (dir[sink.seq].over \/ FALSE)
        /\ dir'[sink.seq].size = dir[sink.seq].size + sink.bytes
        /\ \A s \in DOMAIN dir \ {sink.seq} : dir'[s] = dir[s]
    BY <2>1, <2>2, <2>3, <2>4, <2>5, <2>6, AppendsTo DEF SinkIInv
  <2>8. WriterFits BY DEF SizesIInv
  <2>9. ~dir'[sink.seq].over => dir'[sink.seq].size < Limit
    BY <2>6, <2>7, <2>8 DEF WriterFits
  <2> QED BY <2>7, <2>9 DEF SizesIInv
<1> QED BY <1>1, <1>2 DEF CutOff

(* The end of a writer, aborted or with its daemon.                        *)
LEMMA SizesEnd ==
  ASSUME SinkIInv, SizesIInv, ShutdownAborts \/ NextRun
  PROVE  SizesIInv'
<1>1. /\ sink.phase # "none" /\ sink'.phase \in {"none", "aborted"}
      /\ dir' = dir \/ (sink.phase # "aborted" /\ CutOff)
  <2>1. CASE ShutdownAborts
    <3>1. sink.phase # "none" BY <2>1 DEF ShutdownAborts, SinkIInv, IdleBefore
    <3>2. sink'.phase = "aborted"
      BY <2>1 DEF ShutdownAborts, SinkIInv, SinkShape, WriterShape, SinkFields
    <3>3. sink.phase = "aborted" => dir' = dir BY <2>1 DEF ShutdownAborts, CutOff
    <3> QED BY <2>1, <3>1, <3>2, <3>3 DEF ShutdownAborts
  <2>2. CASE NextRun BY <2>2 DEF NextRun, NoSink
  <2> QED BY <2>1, <2>2
<1>2. \A s \in DOMAIN dir' : ~dir'[s].over => dir'[s].size < Limit
  <2>1. CASE dir' = dir BY <2>1 DEF SizesIInv
  <2> QED BY <1>1, <2>1, SizesCut
<1> QED BY <1>1, <1>2 DEF SizesIInv

(* No file grows more than one record past the limit while writes and      *)
(* rollover succeed, whatever the size of a batch (Writer::write).         *)
THEOREM FilesAreBounded == SinkSpec => []FileBounded
<1>1. SinkInit => SizesIInv
  BY DEF SinkInit, SizesIInv, NoSink
<1>2. SinkIInv /\ SizesIInv /\ [SinkNext]_kvars => SizesIInv'
  <2> SUFFICES ASSUME SinkIInv, SizesIInv, [SinkNext]_kvars PROVE SizesIInv' OBVIOUS
  <2>1. CASE UNCHANGED kvars BY <2>1 DEF kvars, SizesIInv, WriterFits
  <2>2. CASE FlushFails
    <3>1. sink.phase \notin {"none", "aborted"} /\ sink'.seq = sink.seq /\ sink.bytes \in Nat
      BY <2>2 DEF FlushFails, AfterFlush, SinkIInv, SinkShape, WriterShape, SinkFields
    <3>2. PICK es \in Seq(LogRecs), l \in Nat : dir' = AppendedTo(sink.seq, es, l, TRUE)
      <4>1. CASE dir' = AppendedTo(sink.seq, <<>>, 0, TRUE)
        <5>1. <<>> \in Seq(LogRecs) /\ 0 \in Nat OBVIOUS
        <5> QED BY <4>1, <5>1
      <4>2. CASE \E n \in 0..(Len(sink.buffer) - 1) : dir' = AppendedTo(sink.seq, Cut(sink.buffer, n), sink.bytes, TRUE)
        <5>1. PICK n \in 0..(Len(sink.buffer) - 1) : dir' = AppendedTo(sink.seq, Cut(sink.buffer, n), sink.bytes, TRUE)
          BY <4>2
        <5>2. PICK b, m : b = sink.buffer /\ m = Waiting OBVIOUS
        <5>3. b \in Seq(LogRecs) /\ Fresh(b) /\ Joined(b, m) /\ m \in Nat
          BY <5>2, WaitingIs DEF SinkIInv, SinkShape, WriterShape, QueueOK
        <5>4. Cut(b, n) \in Seq(LogRecs) BY <5>1, <5>2, <5>3, CutIs
        <5> QED BY <3>1, <5>1, <5>2, <5>4
      <4> QED BY <2>2, <4>1, <4>2 DEF FlushFails
    <3> QED BY <3>1, <3>2, SizesFails
  <2>3. CASE RotateFails
    <3>1. PICK s0 : s0 = [sink EXCEPT !.phase = "write"] OBVIOUS
    <3>2. DOMAIN s0 = SinkFields /\ s0.seq = sink.seq
      BY <3>1 DEF SinkIInv, SinkShape, WriterShape, SinkFields
    <3>3. sink'.seq = sink.seq BY <2>3, <3>1, <3>2, BufferedIs DEF RotateFails
    <3>4. <<>> \in Seq(LogRecs) /\ 0 \in Nat OBVIOUS
    <3> QED BY <2>3, <3>3, <3>4, SizesFails DEF RotateFails
  <2>4. CASE WriterStep
    BY <2>2, <2>3, <2>4, SizesPhase, SizesWrite, SizesFlush, SizesPrunes, SizesCreates DEF WriterStep
  <2> QED BY <2>1, <2>4, SizesOpen, SizesPhase, SizesEnd DEF SinkNext
<1>3. SizesIInv => FileBounded BY DEF SizesIInv, FileBounded, Seqs, Limit
<1> QED BY <1>1, <1>2, <1>3, SinkInvariance, PTL DEF SinkSpec

(***************************************************************************)
(* How many files there are                                                *)
(***************************************************************************)
(* prune_targets leaves at most `keep`: all of them but the oldest are     *)
(* newer than the oldest, which has fewer than `keep` newer than itself.   *)
LEMMA KeepsAtMost ==
  ASSUME NEW S \in SUBSET Nat, IsFiniteSet(S), NEW keep \in Nat
  PROVE  IsFiniteSet(S \ PruneTargets(S, keep)) /\ Cardinality(S \ PruneTargets(S, keep)) <= keep
<1> DEFINE newer(s) == {t \in S : t > s}
           K == S \ PruneTargets(S, keep)
<1>1. \A s \in K : ~(Cardinality(newer(s)) >= keep) BY DEF PruneTargets
<1>2. K \in SUBSET S /\ K \in SUBSET Nat OBVIOUS
<1> HIDE DEF K
<1>3. IsFiniteSet(K) BY <1>2, FS_Subset
<1>4. CASE K = {} BY <1>3, <1>4, FS_EmptySet DEF K
<1>5. CASE K # {}
  <2>1. PICK m \in K : \A t \in K : m <= t BY <1>2, <1>5, LeastNumber
  <2>2. m \in Nat /\ newer(m) \in SUBSET S BY <1>2
  <2>3. IsFiniteSet(newer(m)) /\ Cardinality(newer(m)) \in Nat BY <2>2, FS_Subset, FS_CardinalityType
  <2>4. ~(Cardinality(newer(m)) >= keep) BY <1>1
  <2>5. K \in SUBSET (newer(m) \union {m}) BY <1>2, <2>1
  <2>6. m \notin newer(m) BY <2>2
  <2> HIDE DEF newer
  <2>7. /\ IsFiniteSet(newer(m) \union {m})
        /\ Cardinality(newer(m) \union {m}) = Cardinality(newer(m)) + 1
    BY <2>3, <2>6, FS_AddElement
  <2>8. Cardinality(K) <= Cardinality(newer(m) \union {m}) BY <2>5, <2>7, FS_Subset
  <2>9. Cardinality(K) \in Nat BY <1>3, FS_CardinalityType
  <2>10. Cardinality(K) <= keep BY <2>3, <2>4, <2>7, <2>8, <2>9
  <2> QED BY <1>3, <2>10 DEF K
<1> QED BY <1>4, <1>5

(* The directory is finite, and within its budget until the disk fails.    *)
BudgetIInv ==
  /\ IsFiniteSet(DOMAIN dir)
  /\ diskFaults = 0 => Cardinality(DOMAIN dir) <= MaxFiles

(* What the disk lets happen: without a fault so far, nothing failed.      *)
LEMMA NoFaultYet ==
  ASSUME SinkIInv, NEW ok \in BOOLEAN, Cost(ok), diskFaults' = 0
  PROVE  ok = TRUE /\ diskFaults = 0
  BY SinkAssumption DEF SinkIInv, SinkShape, Cost

(* Steps that neither create nor delete a file.                            *)
LEMMA BudgetSame ==
  ASSUME SinkIInv, BudgetIInv, DOMAIN dir' = DOMAIN dir, diskFaults' = 0 => diskFaults = 0
  PROVE  BudgetIInv'
  BY DEF BudgetIInv

(* Deleting keeps the directory in its budget.                             *)
LEMMA BudgetPrunes ==
  ASSUME SinkIInv, BudgetIInv, NEW ok \in BOOLEAN, RotatePrunes(ok)
  PROVE  BudgetIInv'
<1>1. dir' = Remaining(dir, MaxFiles - 1, sink.seq, ok) /\ Cost(ok) BY DEF RotatePrunes
<1>2. DOMAIN dir' \in SUBSET DOMAIN dir
  <2>1. dir \in [DOMAIN dir -> LogFiles] BY DEF SinkIInv, SinkShape
  <2> QED BY <1>1, <2>1, RemainingIs
<1>3. /\ IsFiniteSet(DOMAIN dir') /\ Cardinality(DOMAIN dir') <= Cardinality(DOMAIN dir)
      /\ Cardinality(DOMAIN dir') \in Nat /\ Cardinality(DOMAIN dir) \in Nat
  BY <1>2, FS_Subset, FS_CardinalityType DEF BudgetIInv
<1>4. diskFaults' = 0 => diskFaults = 0 BY <1>1, NoFaultYet
<1> QED BY <1>3, <1>4, SinkAssumption DEF BudgetIInv

(* The new file is one of the newest `max_files`, which is what is kept.   *)
LEMMA BudgetCreates ==
  ASSUME SinkIInv, BudgetIInv, NEW ok \in BOOLEAN, RotateCreates(ok)
  PROVE  BudgetIInv'
<1> DEFINE n == sink.seq + 1
           D == DOMAIN dir \union {n}
<1>1. dir' = Remaining(WithFile(dir, n), MaxFiles, n, ok) /\ Cost(ok) /\ sink.phase = "create"
  BY DEF RotateCreates
<1>2. /\ (\A t \in DOMAIN dir : t <= sink.seq) /\ DOMAIN dir \subseteq Nat /\ sink.seq \in Nat
  BY <1>1 DEF SinkIInv, Numbered, NewestIs, SinkShape, WriterShape
<1>3. D \in SUBSET Nat /\ n \in D /\ {t \in D : t > n} = {} BY <1>2
<1>4. DOMAIN WithFile(dir, n) = D BY DEF WithFile
<1> HIDE DEF n, D
<1>5. IsFiniteSet(D) BY FS_AddElement DEF BudgetIInv, D
<1>6. DOMAIN dir' \in SUBSET D BY <1>1, <1>4 DEF Remaining, Restrict
<1>7. IsFiniteSet(DOMAIN dir') BY <1>5, <1>6, FS_Subset
<1>8. ASSUME diskFaults' = 0 PROVE Cardinality(DOMAIN dir') <= MaxFiles
  <2>1. ok = TRUE BY <1>1, <1>8, NoFaultYet
  <2>2. Cardinality({t \in D : t > n}) = 0 BY <1>3, FS_EmptySet
  <2>3. MaxFiles \in Nat \ {0} BY SinkAssumption
  <2>4. n \notin PruneTargets(D, MaxFiles) BY <2>2, <2>3 DEF PruneTargets
  <2>5. DOMAIN dir' = D \ PruneTargets(D, MaxFiles)
    BY <1>1, <1>4, <2>1, <2>4 DEF Remaining, Restrict, Prunable
  <2> QED BY <1>3, <1>5, <2>3, <2>5, KeepsAtMost
<1> QED BY <1>7, <1>8 DEF BudgetIInv

(* A new run makes room for its file first.                                *)
LEMMA BudgetOpen ==
  ASSUME SinkIInv, BudgetIInv, NEW ok \in BOOLEAN, Open(ok)
  PROVE  BudgetIInv'
<1> DEFINE n == NextSeq(Seqs)
<1>1. dir' = WithFile(Remaining(dir, MaxFiles - 1, 0, ok), n) /\ Cost(ok) BY DEF Open
<1> HIDE DEF n
<1>2. PICK m : m = Remaining(dir, MaxFiles - 1, 0, ok) OBVIOUS
<1>3. DOMAIN dir' = DOMAIN m \union {n} BY <1>1, <1>2 DEF WithFile
<1>4. DOMAIN m \in SUBSET DOMAIN dir BY <1>2 DEF Remaining, Restrict
<1>5. IsFiniteSet(DOMAIN m) BY <1>4, FS_Subset DEF BudgetIInv
<1>6. /\ IsFiniteSet(DOMAIN dir') /\ Cardinality(DOMAIN m) \in Nat
      /\ Cardinality(DOMAIN dir') <= Cardinality(DOMAIN m) + 1
  <2>1. Cardinality(DOMAIN m) \in Nat BY <1>5, FS_CardinalityType
  <2> QED BY <1>3, <1>5, <2>1, FS_AddElement
<1>7. ASSUME diskFaults' = 0 PROVE Cardinality(DOMAIN dir') <= MaxFiles
  <2>1. ok = TRUE BY <1>1, <1>7, NoFaultYet
  <2>2. MaxFiles \in Nat \ {0} /\ MaxFiles - 1 \in Nat BY SinkAssumption
  <2>3. DOMAIN dir \in SUBSET Nat /\ 0 \notin DOMAIN dir BY DEF SinkIInv, SinkShape
  <2>4. DOMAIN m = DOMAIN dir \ PruneTargets(DOMAIN dir, MaxFiles - 1)
    BY <1>2, <2>1, <2>3 DEF Remaining, Restrict, Prunable, PruneTargets
  <2>5. Cardinality(DOMAIN m) <= MaxFiles - 1 BY <2>2, <2>3, <2>4, KeepsAtMost DEF BudgetIInv
  <2>6. Cardinality(DOMAIN dir') \in Nat BY <1>6, FS_CardinalityType
  <2> QED BY <1>6, <2>2, <2>5, <2>6
<1> QED BY <1>6, <1>7 DEF BudgetIInv

(* Steps of the writer that fail: the files are the same, the budget is    *)
(* not promised any more.                                                  *)
LEMMA BudgetFails ==
  ASSUME SinkIInv, BudgetIInv, FlushFails \/ RotateFails
  PROVE  BudgetIInv'
<1>1. Cost(FALSE) /\ DOMAIN dir' = DOMAIN dir BY DEF FlushFails, RotateFails, AppendedTo
<1>2. diskFaults' # 0 BY <1>1, NoFaultYet
<1> QED BY <1>1, <1>2, BudgetSame

(* The active file exists whatever rotation prunes, and without a fault of *)
(* the disk the directory never holds more than max_files (Writer::open,   *)
(* rotate, prune_dir).                                                     *)
THEOREM FilesAreRetained == SinkSpec => []Retained
<1>1. SinkInit => BudgetIInv
  <2> SUFFICES ASSUME SinkInit PROVE BudgetIInv OBVIOUS
  <2>1. DOMAIN dir = {} BY DEF SinkInit
  <2> QED BY <2>1, FS_EmptySet, SinkAssumption DEF BudgetIInv
<1>2. SinkIInv /\ BudgetIInv /\ [SinkNext]_kvars => BudgetIInv'
  <2> SUFFICES ASSUME SinkIInv, BudgetIInv, [SinkNext]_kvars PROVE BudgetIInv' OBVIOUS
  <2>1. CASE UNCHANGED kvars BY <2>1, BudgetSame DEF kvars
  <2>2. CASE \/ SelectRecv \/ SelectCancelled \/ DrainTakes \/ Drained \/ WriteRecord \/ WriteFull \/ WriteEnds
             \/ SendFrame \/ CloseRing \/ ShutdownCancels \/ ShutdownReturns
    BY SMTT(40), <2>2, BudgetSame DEF SelectRecv, SelectCancelled, DrainTakes, Drained, WriteRecord, WriteFull, WriteEnds,
                            SendFrame, CloseRing, ShutdownCancels, ShutdownReturns
  <2>3. CASE FlushPending \/ ShutdownAborts \/ NextRun
    BY <2>3, BudgetSame DEF FlushPending, ShutdownAborts, NextRun, CutOff, AppendedTo
  <2>4. CASE WriterStep
    BY <2>2, <2>3, <2>4, BudgetFails, BudgetPrunes, BudgetCreates DEF WriterStep
  <2> QED BY <2>1, <2>2, <2>3, <2>4, BudgetOpen DEF SinkNext
<1>3. SinkIInv /\ BudgetIInv => Retained
  BY DEF SinkIInv, BudgetIInv, Retained, Numbered, NewestIs, Seqs
<1> QED BY <1>1, <1>2, <1>3, SinkInvariance, PTL DEF SinkSpec

-----------------------------------------------------------------------------
(***************************************************************************)
(* The parts in one specification: a behaviour of the whole is one of each *)
(* part, because a step of another part leaves its variables alone.        *)
(***************************************************************************)
(* Every part behaves as it does alone, whichever has the focus.           *)
LEMMA EdgesAreParts ==
  EdgesSpec => StoreSpec /\ NativeSpec /\ ParserSpec /\ SinkSpec /\ ClientSpec /\ CommandsSpec
<1>1. EdgesInit => StoreInit /\ NativeInit /\ ParserInit /\ SinkInit /\ ClientInit /\ CommandsInit
  BY DEF EdgesInit
<1>2. [EdgesNext]_edgeVars => [StoreNext]_svars /\ [NativeNext]_nvars /\ [ParserSteps]_lvars
  BY DEF EdgesNext, OnStore, OnNative, OnParser, OnSink, OnClient, OnCommands, edgeVars
<1>3. [EdgesNext]_edgeVars => [SinkNext]_kvars /\ [ClientNext]_avars /\ [CommandsNext]_cvars
  BY DEF EdgesNext, OnStore, OnNative, OnParser, OnSink, OnClient, OnCommands, edgeVars
<1> QED BY <1>1, <1>2, <1>3, PTL
        DEF EdgesSpec, StoreSpec, NativeSpec, ParserSpec, SinkSpec, ClientSpec, CommandsSpec

(* What holds of the parts besides the properties named above: every state *)
(* has its shape; no file is found half written, no socket is lost to a    *)
(* sweep, no daemon reaps another's core; the marker stays until death is  *)
(* proven; every line is in one frame, of its own stream, and the worst    *)
(* one is the cause reported; log files are whole, bounded, retained and   *)
(* drained; a busy pipe means unsent; a successful update takes effect.    *)
THEOREM EdgesCorrect == EdgesSpec => []EdgesInv
<1>1. EdgesSpec => [](StoreTypeOK /\ NeverTorn /\ SocketFindable /\ CurrentNotReaped)
  BY EdgesAreParts, StoreTypes, NoFileTorn, SocketsAreFound, CurrentIsNotReaped, PTL
<1>2. EdgesSpec => [](NativeTypeOK /\ DirtyUntilProven)
  BY EdgesAreParts, NativeTypes, MarkerUntilProven, PTL
<1>3. EdgesSpec => [](ParserTypeOK /\ LinesKept /\ OwnContinuations /\ SummaryIsWorst /\ PremiumDated)
  BY EdgesAreParts, ParserTypes, LinesAreKept, ContinuationsAreOwn, SummaryIsTheWorst, PremiumIsDated, PTL
<1>4. EdgesSpec => [](SinkTypeOK /\ FilesWhole /\ Retained /\ FileBounded /\ DrainedAtShutdown)
  BY EdgesAreParts, SinkTypes, FilesAreWhole, FilesAreRetained, FilesAreBounded, ShutdownDrains, PTL
<1>5. EdgesSpec => [](ClientTypeOK /\ BusyIsUnsent)
  BY EdgesAreParts, ClientTypes, BusyMeansUnsent, PTL
<1>6. EdgesSpec => [](CommandsTypeOK /\ UpdateTakesEffect)
  BY EdgesAreParts, CommandsTypes, UpdateIsEffective, PTL
<1>7. /\ StoreTypeOK /\ NeverTorn /\ SocketFindable /\ CurrentNotReaped
      /\ NativeTypeOK /\ DirtyUntilProven
      /\ ParserTypeOK /\ LinesKept /\ OwnContinuations /\ SummaryIsWorst /\ PremiumDated
      /\ SinkTypeOK /\ FilesWhole /\ Retained /\ FileBounded /\ DrainedAtShutdown
      /\ ClientTypeOK /\ BusyIsUnsent
      /\ CommandsTypeOK /\ UpdateTakesEffect
      => EdgesInv
  BY DEF EdgesInv
<1> QED BY <1>1, <1>2, <1>3, <1>4, <1>5, <1>6, <1>7, PTL
=============================================================================
