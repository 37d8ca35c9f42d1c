------------------------- MODULE RuntimeStoreProofs -------------------------
(***************************************************************************)
(* What module RuntimeStore promises, for every number of daemons, epochs, *)
(* contents and faults.  The invariant says, for every operation and every *)
(* position in its script, what is on the disk (and what a power loss      *)
(* would leave); from it follow that the runtime file is the plan's, that  *)
(* no file is torn, and that a boot leaves nothing of its predecessors.    *)
(*                                                                         *)
(* The proof has a lemma for each file-system call (what it changes, what  *)
(* it keeps), one for each operation (every position to the next), and one *)
(* for each decision and failure between them.                             *)
(***************************************************************************)
EXTENDS RuntimeStore, NaturalsInduction, WellFoundedInduction, TLAPS

(***************************************************************************)
(* The inductive invariant                                                 *)
(***************************************************************************)
StoreOps == {"none", "scan", "sweep", "launch", "apply", "restart", "rollback", "drop", "discard"}
CoreStates == {"none", "alive", "dead", "reaped", "stray"}
MaybeContents == Contents \union {Gone}
DaemonStates ==
  [pc : {"down", "up"}, op : StoreOps, at : 1 .. 12, epoch : 0 .. MaxEpoch,
   todo : SUBSET EpochNumbers, alloc : 0 .. MaxEpoch, cur : 0 .. MaxEpoch,
   conf : MaybeContents, old : MaybeContents, durable : BOOLEAN, fresh : BOOLEAN]

DiskOK ==
  /\ disk \in [Files -> Values]
  /\ stable \in [Files -> SUBSET Values]
  /\ \A f \in Files : disk[f] \in stable[f]
  /\ core \in [EpochNumbers -> CoreStates]

DaemonsOK ==
  /\ dm \in [Daemons -> DaemonStates]
  /\ owner \in Daemons \union {Nobody}
  /\ faults \in Nat

(* The lock: only its holder is up.                                        *)
StoreLocked ==
  \A d \in Daemons : IF dm[d].pc = "up" THEN owner = d ELSE dm[d] = Down

(* A controller socket never outlives the runtime config of its epoch.     *)
SocketNamed ==
  \A e \in EpochNumbers :
    disk[File("controller", e)] # Gone => disk[File("config", e)] # Gone

(* Until a boot is through, a running process it has not reached yet has   *)
(* its record.                                                             *)
AllRecorded ==
  \A e \in EpochNumbers : core[e] = "alive" => disk[File("pid", e)] # Gone
Recorded ==
  (\A d \in Daemons : dm[d].pc = "down" \/ dm[d].op \in {"scan", "sweep"}) => AllRecorded

(* The file under f is v: whatever a power loss does; if the plan's commit *)
(* was durable; once it is published.                                      *)
Safe(f, v) == disk[f] = v /\ stable[f] = {v}
StoreHolds(m, v) ==
  LET f == File("config", m.epoch) IN disk[f] = v /\ (m.durable => stable[f] = {v})
Complete(f, v) == disk[f] = v /\ Torn \notin stable[f]

(* What is on the disk before call m.at of each script.                    *)
LaunchAt(m) ==
  LET e == m.epoch IN
  /\ e # 0 /\ m.cur = 0 /\ e <= m.alloc /\ m.conf \in Contents /\ m.durable /\ m.at <= 12
  /\ m.at = 3 => Complete(File("tmp", e), m.conf)
  /\ m.at >= 4 => disk[File("config", e)] = m.conf
  /\ m.at >= 6 => Safe(File("config", e), m.conf)
  /\ m.at >= 8 => core[e] = "alive"
  /\ m.at = 10 => Complete(File("pid.tmp", e), Rec)

Current(m) == m.epoch # 0 /\ m.cur = m.epoch /\ m.epoch <= m.alloc /\ m.conf \in Contents

ApplyAt(m) ==
  LET e == m.epoch IN
  /\ Current(m) /\ m.old \in Contents /\ m.at <= 10 /\ core[e] = "alive"
  /\ m.at <= 8 => StoreHolds(m, m.old)
  /\ m.at \in 3 .. 8 => Complete(File("full.tmp", e), m.conf)
  /\ m.at = 5 => Complete(File("tmp", e), m.old)
  /\ m.at >= 6 => disk[File("backup", e)] = m.old
  /\ m.at = 9 => disk[File("config", e)] = m.conf /\ ~m.durable
  /\ m.at >= 10 => StoreHolds(m, m.conf)

RestartAt(m) ==
  LET e == m.epoch IN
  /\ Current(m) /\ m.old \in Contents /\ m.at <= 8 /\ StoreHolds(m, m.conf)
  /\ disk[File("backup", e)] = m.old
  /\ m.at >= 4 => core[e] = "alive"
  /\ m.at = 6 => Complete(File("pid.tmp", e), Rec)

RollbackAt(m) ==
  LET e == m.epoch IN
  /\ Current(m) /\ m.at <= 12 /\ disk[File("config", e)] # Gone
  /\ m.at <= 3 => disk[File("backup", e)] = m.conf
  /\ m.at = 4 => Complete(File("tmp", e), m.conf)
  /\ m.at >= 5 => disk[File("config", e)] = m.conf
  /\ m.at = 5 => ~m.durable
  /\ m.at >= 6 => StoreHolds(m, m.conf)
  /\ m.at >= 8 => core[e] = "alive"
  /\ m.at = 10 => Complete(File("pid.tmp", e), Rec)

(* A swept epoch: no recorded process, no artifact.                        *)
StoreClean(e) == core[e] # "alive" /\ \A f \in Artifacts(e) : disk[f] = Gone

SweepAt(m) ==
  /\ m.cur = 0 /\ m.epoch # 0 /\ m.at <= 4
  /\ \A e \in EpochNumbers : StoreClean(e) \/ e \in m.todo \/ e = m.epoch
  /\ m.at >= 2 => core[m.epoch] # "alive"
  /\ m.at >= 3 => StoreClean(m.epoch)

(* Where the daemon in state m stands in what it runs.                     *)
Stands(m) ==
  /\ m.op = "launch" => LaunchAt(m)
  /\ m.op = "apply" => ApplyAt(m)
  /\ m.op = "restart" => RestartAt(m)
  /\ m.op = "rollback" => RollbackAt(m)
  /\ m.op = "discard" => m.epoch # 0 /\ m.cur = 0 /\ m.at <= 4
  /\ m.op = "sweep" => SweepAt(m)
  /\ m.op = "scan" => m.cur = 0 /\ \A e \in EpochNumbers : StoreClean(e) \/ e \in m.todo
  /\ m.op = "drop" => m.at <= 2
  /\ m.op = "drop" \/ (m.op = "none" /\ m.cur # 0) =>
       Current(m) /\ StoreHolds(m, m.conf) /\ core[m.epoch] = "alive"
  /\ m.fresh => m.op = "none" /\ m.cur = 0 /\ \A e \in EpochNumbers : StoreClean(e)

(* What every call keeps, whoever makes it.                                *)
StoreSound == DiskOK /\ NeverTorn /\ SocketNamed

StoreIInv ==
  /\ StoreSound /\ DaemonsOK /\ StoreLocked /\ Recorded
  /\ \A d \in Daemons : dm[d].pc = "up" => Stands(dm[d])

(***************************************************************************)
(* One call: what it changes and what it keeps                             *)
(***************************************************************************)
Staging == {"tmp", "full.tmp", "pid.tmp"}
Same(f) == disk'[f] = disk[f] /\ stable'[f] = stable[f]
OnlyAt(fs) == \A f \in Files \ fs : Same(f)

(* Names are pairs: they differ if kind or epoch do.                       *)
LEMMA FileNames ==
  /\ \A k \in Kinds, e \in EpochNumbers : File(k, e) \in Files
  /\ \A f \in Files : f[1] \in Kinds /\ f[2] \in EpochNumbers /\ f = File(f[1], f[2])
  /\ \A k, e : File(k, e)[1] = k /\ File(k, e)[2] = e
  /\ \A k, e, j, i : File(k, e) = File(j, i) <=> k = j /\ e = i
BY DEF File, Files

(* create_new of a staging name.                                           *)
LEMMA CreateKeeps ==
  ASSUME StoreSound, NEW f \in Files, f[1] \in Staging, Call(Do("create", f))
  PROVE  StoreSound' /\ OnlyAt({f}) /\ core' = core
<1>1. /\ disk' = [disk EXCEPT ![f] = Torn]
      /\ stable' = [stable EXCEPT ![f] = @ \union {Torn}]
      /\ core' = core
  BY DEF Call, Do, Allowed, FileCall, ReapCall, SpawnCall, KillCall, ClearCall, Set
<1>2. OnlyAt({f}) /\ DiskOK'
  BY <1>1 DEF StoreSound, DiskOK, OnlyAt, Same, Values
<1>3. NeverTorn'
  BY <1>1 DEF StoreSound, DiskOK, NeverTorn, Staging
<1>4. SocketNamed'
  BY <1>1, <1>2, FileNames DEF StoreSound, SocketNamed, OnlyAt, Same, Staging, Kinds
<1> QED BY <1>1, <1>2, <1>3, <1>4 DEF StoreSound

(* write_all and sync_all of a staging file.                               *)
LEMMA FillKeeps ==
  ASSUME StoreSound, NEW f \in Files, f[1] \in Staging, NEW v \in Values, v # Torn, Call(Fill(f, v))
  PROVE  StoreSound' /\ OnlyAt({f}) /\ core' = core /\ Complete(f, v)'
<1>1. /\ disk' = [disk EXCEPT ![f] = v]
      /\ stable' = [stable EXCEPT ![f] = (@ \ {Torn}) \union {v}]
      /\ core' = core
  BY DEF Call, Fill, Allowed, FileCall, ReapCall, SpawnCall, KillCall, ClearCall, Written
<1>2. OnlyAt({f}) /\ DiskOK'
  BY <1>1 DEF StoreSound, DiskOK, OnlyAt, Same
<1>3. NeverTorn'
  BY <1>1 DEF StoreSound, DiskOK, NeverTorn, Staging
<1>4. SocketNamed'
  BY <1>1, <1>2, FileNames DEF StoreSound, SocketNamed, OnlyAt, Same, Staging, Kinds
<1>5. Complete(f, v)'
  BY <1>1 DEF StoreSound, DiskOK, Complete
<1> QED BY <1>1, <1>2, <1>3, <1>4, <1>5 DEF StoreSound

(* A staged copy of a config or a backup is a complete one.                *)
LEMMA StoreCopyKeeps ==
  ASSUME StoreSound, NEW f \in Files, f[1] \in Staging, NEW g \in Files,
         g[1] \in {"config", "backup"}, NEW v, disk[g] = v, Call(To("copy", f, g))
  PROVE  StoreSound' /\ OnlyAt({f}) /\ core' = core /\ Complete(f, v)'
<1>1. /\ disk' = [disk EXCEPT ![f] = disk[g]]
      /\ stable' = [stable EXCEPT ![f] = (@ \ {Torn}) \union {disk[g]}]
      /\ core' = core
  BY DEF Call, To, Allowed, FileCall, ReapCall, SpawnCall, KillCall, ClearCall, Written
<1>0. disk[g] # Torn /\ disk[g] \in Values
  BY DEF StoreSound, NeverTorn, DiskOK
<1>2. OnlyAt({f}) /\ DiskOK'
  BY <1>0, <1>1 DEF StoreSound, DiskOK, OnlyAt, Same
<1>3. NeverTorn'
  BY <1>1 DEF StoreSound, DiskOK, NeverTorn, Staging
<1>4. SocketNamed'
  BY <1>1, <1>2, FileNames DEF StoreSound, SocketNamed, OnlyAt, Same, Staging, Kinds
<1>5. Complete(f, v)'
  BY <1>0, <1>1 DEF StoreSound, DiskOK, Complete
<1> QED BY <1>1, <1>2, <1>3, <1>4, <1>5 DEF StoreSound

(* unlink of a staging name or a backup.                                   *)
LEMMA UnlinkKeeps ==
  ASSUME StoreSound, NEW f \in Files, f[1] \in Staging \union {"backup"}, Call(Do("unlink", f))
  PROVE  StoreSound' /\ OnlyAt({f}) /\ core' = core
<1>1. /\ disk' = [disk EXCEPT ![f] = Gone]
      /\ stable' = [stable EXCEPT ![f] = @ \union {Gone}]
      /\ core' = core
  BY DEF Call, Do, Allowed, FileCall, ReapCall, SpawnCall, KillCall, ClearCall, Set
<1>2. OnlyAt({f}) /\ DiskOK'
  BY <1>1 DEF StoreSound, DiskOK, OnlyAt, Same, Values
<1>3. NeverTorn'
  BY <1>1 DEF StoreSound, DiskOK, NeverTorn, Staging, Gone, Torn
<1>4. SocketNamed'
  BY <1>1, <1>2, FileNames DEF StoreSound, SocketNamed, OnlyAt, Same, Staging, Kinds
<1> QED BY <1>1, <1>2, <1>3, <1>4 DEF StoreSound

(* hard_link of a complete file to a name that was free.                   *)
LEMMA LinkKeeps ==
  ASSUME StoreSound, NEW f \in Files, NEW g \in Files, g[1] \in {"config", "pid", "backup"},
         Torn \notin stable[f], Call(To("link", f, g))
  PROVE  StoreSound' /\ OnlyAt({g}) /\ core' = core /\ disk'[g] = disk[f]
<1>1. /\ disk' = [disk EXCEPT ![g] = disk[f]]
      /\ stable' = [stable EXCEPT ![g] = @ \union Published(f)]
      /\ core' = core
      /\ disk[f] # Gone
  BY DEF Call, To, Allowed, FileCall, ReapCall, SpawnCall, KillCall, ClearCall
<1>2. OnlyAt({g}) /\ DiskOK'
  <2>1. disk[f] \in Published(f) /\ Published(f) \in SUBSET Values
    BY <1>1 DEF StoreSound, DiskOK, Published
  <2> QED BY <1>1, <2>1 DEF StoreSound, DiskOK, OnlyAt, Same
<1>3. NeverTorn'
  BY <1>1 DEF StoreSound, DiskOK, NeverTorn, Published
<1>4. SocketNamed'
  <2> SUFFICES ASSUME NEW e \in EpochNumbers, disk'[File("controller", e)] # Gone
              PROVE disk'[File("config", e)] # Gone
    BY DEF SocketNamed
  <2>1. File("controller", e) \in Files /\ File("config", e) \in Files
        /\ File("controller", e) # g
    BY FileNames DEF Kinds
  <2>2. disk[File("config", e)] # Gone
    BY <1>2, <2>1 DEF StoreSound, SocketNamed, OnlyAt, Same
  <2> QED BY <1>1, <1>2, <2>1, <2>2 DEF OnlyAt, Same, StoreSound, DiskOK
<1>5. disk'[g] = disk[f]
  BY <1>1 DEF StoreSound, DiskOK
<1> QED BY <1>1, <1>2, <1>3, <1>4, <1>5 DEF StoreSound

(* rename of a complete staging file over the runtime config.              *)
LEMMA RenameKeeps ==
  ASSUME StoreSound, NEW f \in Files, f[1] \in Staging, NEW g \in Files, g[1] = "config",
         Torn \notin stable[f], Call(To("rename", f, g))
  PROVE  StoreSound' /\ OnlyAt({f, g}) /\ core' = core /\ disk'[g] = disk[f]
<1>0. f # g
  BY DEF Staging
<1>1. /\ disk' = [disk EXCEPT ![g] = disk[f], ![f] = Gone]
      /\ stable' = [stable EXCEPT ![g] = @ \union Published(f), ![f] = @ \union {Gone}]
      /\ core' = core
      /\ disk[f] # Gone
  BY DEF Call, To, Allowed, FileCall, ReapCall, SpawnCall, KillCall, ClearCall
<1>2. OnlyAt({f, g}) /\ DiskOK' /\ disk'[g] = disk[f]
  <2>1. disk[f] \in Published(f) /\ Published(f) \in SUBSET Values /\ Gone \in Values
    BY <1>1 DEF StoreSound, DiskOK, Published, Values
  <2> QED BY <1>0, <1>1, <2>1 DEF StoreSound, DiskOK, OnlyAt, Same
<1>3. NeverTorn'
  BY <1>0, <1>1 DEF StoreSound, DiskOK, NeverTorn, Published, Staging
<1>4. SocketNamed'
  <2> SUFFICES ASSUME NEW e \in EpochNumbers, disk'[File("controller", e)] # Gone
              PROVE disk'[File("config", e)] # Gone
    BY DEF SocketNamed
  <2>1. /\ File("controller", e) \in Files /\ File("config", e) \in Files
        /\ File("controller", e) \notin {f, g} /\ File("config", e) # f
    BY FileNames DEF Kinds, Staging
  <2>2. disk[File("config", e)] # Gone
    BY <1>2, <2>1 DEF StoreSound, SocketNamed, OnlyAt, Same
  <2> QED BY <1>1, <1>2, <2>1, <2>2 DEF OnlyAt, Same
<1> QED BY <1>1, <1>2, <1>3, <1>4 DEF StoreSound

(* fsync of the directory: what a reader sees is what stays.               *)
LEMMA SyncKeeps ==
  ASSUME StoreSound, NEW f, NEW c \in {"sync", "trysync"}, Call(Do(c, f))
  PROVE  /\ StoreSound' /\ core' = core /\ disk' = disk
         /\ \A g \in Files : g[1] # "controller" => stable'[g] = {disk[g]}
<1>1. /\ disk' = disk /\ core' = core
      /\ stable' = [g \in Files |-> IF g[1] = "controller" THEN stable[g] ELSE {disk[g]}]
  BY DEF Call, Do, Allowed, FileCall, ReapCall, SpawnCall, KillCall, ClearCall
<1>2. DiskOK'
  BY <1>1 DEF StoreSound, DiskOK
<1>3. NeverTorn'
  BY <1>1 DEF StoreSound, DiskOK, NeverTorn
<1>4. SocketNamed'
  BY <1>1 DEF StoreSound, SocketNamed
<1> QED BY <1>1, <1>2, <1>3, <1>4 DEF StoreSound

(* reap_epoch_pid_file: what had a record is not running any more.         *)
LEMMA ReapKeeps ==
  ASSUME StoreSound, NEW e \in EpochNumbers, Call(Do("reap", File("pid", e)))
  PROVE  /\ StoreSound' /\ OnlyAt({File("pid", e)})
         /\ \A x \in EpochNumbers \ {e} : core'[x] = core[x]
         /\ disk[File("pid", e)] # Gone => core'[e] # "alive"
         /\ core[e] # "alive" => core'[e] # "alive"
<1> DEFINE f == File("pid", e)
<1>0. f \in Files /\ f[2] = e /\ f[1] = "pid"
  BY FileNames DEF Kinds
<1>1. IF disk[f] = Gone THEN UNCHANGED <<disk, stable, core>>
      ELSE /\ core' = [core EXCEPT ![e] = IF @ = "alive" THEN "reaped" ELSE @]
           /\ disk' = [disk EXCEPT ![f] = Gone]
           /\ stable' = [stable EXCEPT ![f] = @ \union {Gone}]
  BY <1>0 DEF Call, Do, Allowed, FileCall, ReapCall, SpawnCall, KillCall, ClearCall, Set
<1> HIDE DEF f
<1>2. OnlyAt({f}) /\ DiskOK'
  BY <1>0, <1>1 DEF StoreSound, DiskOK, OnlyAt, Same, Values, CoreStates
<1>3. NeverTorn'
  BY <1>1 DEF StoreSound, DiskOK, NeverTorn, Gone, Torn
<1>4. SocketNamed'
  BY <1>0, <1>2, FileNames DEF StoreSound, SocketNamed, OnlyAt, Same, Kinds
<1>5. /\ \A x \in EpochNumbers \ {e} : core'[x] = core[x]
      /\ disk[f] # Gone => core'[e] # "alive"
      /\ core[e] # "alive" => core'[e] # "alive"
  BY <1>1 DEF StoreSound, DiskOK, CoreStates
<1> QED BY <1>2, <1>3, <1>4, <1>5 DEF StoreSound, f

(* The core of an epoch that has its config starts.                        *)
LEMMA SpawnKeeps ==
  ASSUME StoreSound, NEW e \in EpochNumbers, disk[File("config", e)] # Gone,
         Call(Do("spawn", File("config", e)))
  PROVE  /\ StoreSound'
         /\ \A f \in Files : f[1] \notin {"sock", "controller"} => Same(f)
         /\ core'[e] = "alive"
<1> DEFINE g == File(IF ControllerDir THEN "controller" ELSE "sock", e)
<1>0. /\ g \in Files /\ g[2] = e /\ g[1] \in {"sock", "controller"}
      /\ File("config", e)[2] = e /\ File("config", e) \in Files
      /\ \A x \in EpochNumbers : File("controller", x) \in Files /\ File("config", x) \in Files
                                 /\ File("config", x) # g
  BY FileNames DEF Kinds
<1>1. /\ core' = [core EXCEPT ![e] = "alive"]
      /\ \/ UNCHANGED <<disk, stable>>
         \/ /\ disk' = [disk EXCEPT ![g] = Sock]
            /\ stable' = [stable EXCEPT ![g] = @ \union {Sock}]
  BY <1>0 DEF Call, Do, Allowed, FileCall, ReapCall, SpawnCall, KillCall, ClearCall, Set
<1>5. \A x \in EpochNumbers : File("controller", x) = g => x = e
  BY FileNames
<1> HIDE DEF g
<1>2. DiskOK' /\ core'[e] = "alive"
  BY <1>0, <1>1 DEF StoreSound, DiskOK, Values, CoreStates
<1>6. \A f \in Files : f[1] \notin {"sock", "controller"} => Same(f)
  BY <1>0, <1>1 DEF StoreSound, DiskOK, Same
<1>3. NeverTorn'
  BY <1>0, <1>1 DEF StoreSound, DiskOK, NeverTorn, Sock, Torn
<1>4. SocketNamed'
  <2> SUFFICES ASSUME NEW x \in EpochNumbers, disk'[File("controller", x)] # Gone
              PROVE disk'[File("config", x)] # Gone
    BY DEF SocketNamed
  <2>1. disk[File("config", x)] # Gone
    BY <1>0, <1>1, <1>5 DEF StoreSound, SocketNamed, DiskOK
  <2> QED BY <1>0, <1>1, <2>1 DEF StoreSound, DiskOK
<1> QED BY <1>2, <1>3, <1>4, <1>6 DEF StoreSound

(* stop_and_confirm_dead.                                                  *)
LEMMA KillKeeps ==
  ASSUME StoreSound, NEW e \in EpochNumbers, Call(Do("kill", File("pid", e)))
  PROVE  StoreSound' /\ OnlyAt({File("pid", e)}) /\ core'[e] = "dead"
<1> DEFINE f == File("pid", e)
<1>0. f \in Files /\ f[2] = e /\ f[1] = "pid"
  BY FileNames DEF Kinds
<1>1. /\ core' = [core EXCEPT ![e] = "dead"]
      /\ disk' = [disk EXCEPT ![f] = Gone]
      /\ stable' = [stable EXCEPT ![f] = @ \union {Gone}]
  BY <1>0 DEF Call, Do, Allowed, FileCall, ReapCall, SpawnCall, KillCall, ClearCall, Set
<1> HIDE DEF f
<1>2. OnlyAt({f}) /\ DiskOK' /\ core'[e] = "dead"
  BY <1>0, <1>1 DEF StoreSound, DiskOK, OnlyAt, Same, Values, CoreStates
<1>3. NeverTorn'
  BY <1>1 DEF StoreSound, DiskOK, NeverTorn, Gone, Torn
<1>4. SocketNamed'
  BY <1>0, <1>2, FileNames DEF StoreSound, SocketNamed, OnlyAt, Same, Kinds
<1> QED BY <1>2, <1>3, <1>4 DEF StoreSound, f

(* The listing names every artifact and the controller socket first.       *)
LEMMA ListingIs ==
  /\ DOMAIN Listing = 1 .. 8 /\ Listing[1] = "controller" /\ Listing[2] = "config"
  /\ \A i \in DOMAIN Listing : Listing[i] \in Kinds
  /\ \A k \in Kinds : \E i \in DOMAIN Listing : Listing[i] = k
  /\ \A i \in DOMAIN Listing : Listing[i] = "config" => i = 2
BY DEF Listing, Kinds

(* remove_regular_file, the socket before the config.                      *)
LEMMA ClearKeeps ==
  ASSUME StoreSound, NEW e \in EpochNumbers, Call(Do("clear", File("config", e)))
  PROVE  /\ StoreSound' /\ core' = core
         /\ \A f \in Files : f[2] # e => Same(f)
         /\ \A f \in Files : disk'[f] = disk[f] \/ disk'[f] = Gone
         /\ Left(disk', e) = {} => \A f \in Artifacts(e) : disk'[f] = Gone
<1> DEFINE F(i) == File(Listing[i], e)
<1>0. /\ File("config", e)[2] = e
      /\ \A i \in DOMAIN Listing : F(i) \in Files /\ F(i)[1] = Listing[i] /\ F(i)[2] = e
  BY FileNames, ListingIs
<1>1. /\ core' = core
      /\ \/ UNCHANGED <<disk, stable>>
         \/ \E i \in Left(disk, e) :
              /\ \A j \in Left(disk, e) : i <= j
              /\ disk' = [disk EXCEPT ![F(i)] = Gone]
              /\ stable' = [stable EXCEPT ![F(i)] = @ \union {Gone}]
  BY <1>0 DEF Call, Do, Allowed, FileCall, ReapCall, SpawnCall, KillCall, ClearCall, Set
<1>5. Left(disk', e) = {} => \A f \in Artifacts(e) : disk'[f] = Gone
  <2> SUFFICES ASSUME Left(disk', e) = {}, NEW k \in Kinds PROVE disk'[File(k, e)] = Gone
    BY DEF Artifacts
  <2>1. PICK i \in DOMAIN Listing : Listing[i] = k
    BY ListingIs
  <2> QED BY <2>1 DEF Left
<1>2. CASE UNCHANGED <<disk, stable>>
  BY <1>1, <1>2, <1>5 DEF StoreSound, DiskOK, NeverTorn, SocketNamed, Same
<1>3. ASSUME NEW i \in Left(disk, e), \A j \in Left(disk, e) : i <= j,
             disk' = [disk EXCEPT ![F(i)] = Gone],
             stable' = [stable EXCEPT ![F(i)] = @ \union {Gone}]
      PROVE  /\ StoreSound'
             /\ \A f \in Files : f[2] # e => Same(f)
             /\ \A f \in Files : disk'[f] = disk[f] \/ disk'[f] = Gone
  <2>0. i \in DOMAIN Listing
    BY DEF Left
  <2>1. DiskOK' /\ \A f \in Files : disk'[f] = disk[f] \/ disk'[f] = Gone
    BY <1>0, <1>1, <1>3, <2>0 DEF StoreSound, DiskOK, Values
  <2>2. \A f \in Files : f[2] # e => Same(f)
    BY <1>0, <1>3, <2>0 DEF StoreSound, DiskOK, Same
  <2>3. NeverTorn'
    BY <1>0, <1>3, <2>0 DEF StoreSound, DiskOK, NeverTorn, Gone, Torn
  <2>4. SocketNamed'
    <3> SUFFICES ASSUME NEW x \in EpochNumbers, disk'[File("controller", x)] # Gone
                PROVE disk'[File("config", x)] # Gone
      BY DEF SocketNamed
    <3>1. File("controller", x) \in Files /\ File("config", x) \in Files
      BY FileNames DEF Kinds
    <3>2. disk[File("controller", x)] # Gone
      BY <2>1, <3>1
    <3>3. disk[File("config", x)] # Gone
      BY <3>2 DEF StoreSound, SocketNamed
    <3>4. CASE File("config", x) # F(i)
      BY <1>3, <3>1, <3>3, <3>4 DEF StoreSound, DiskOK
    <3>5. CASE File("config", x) = F(i)
      <4>1. x = e /\ Listing[i] = "config"
        BY <3>5, FileNames
      <4>2. i = 2 /\ 1 \in Left(disk, e)
        BY <2>0, <3>2, <4>1, ListingIs DEF Left
      <4> QED BY <1>3, <4>2
    <3> QED BY <3>4, <3>5
  <2> QED BY <2>1, <2>2, <2>3, <2>4 DEF StoreSound
<1> QED BY <1>1, <1>2, <1>3, <1>5
(***************************************************************************)
(* The scripts, call by call                                               *)
(***************************************************************************)
(* The calls of launch, in order.                                         *)
LEMMA LaunchCalls ==
  ASSUME NEW m, m.op = "launch"
  PROVE  LET e == m.epoch  s == Script(m) IN
         /\ Len(s) = 11
         /\ s[1] = Do("create", File("tmp", e))
         /\ s[2] = Fill(File("tmp", e), m.conf)
         /\ s[3] = To("link", File("tmp", e), File("config", e))
         /\ s[4] = Do("unlink", File("tmp", e))
         /\ s[5] = Do("sync", File("config", e))
         /\ s[6] = Do("reap", File("pid", e))
         /\ s[7] = Do("spawn", File("config", e))
         /\ s[8] = Do("create", File("pid.tmp", e))
         /\ s[9] = Fill(File("pid.tmp", e), Rec)
         /\ s[10] = To("link", File("pid.tmp", e), File("pid", e))
         /\ s[11] = Do("unlink", File("pid.tmp", e))
BY DEF Script, LaunchScript, Stage, CommitNew, MoveNew, Sync, SpawnRecorded

(* The calls of apply, in order.                                          *)
LEMMA ApplyCalls ==
  ASSUME NEW m, m.op = "apply"
  PROVE  LET e == m.epoch  s == Script(m) IN
         /\ Len(s) = 9
         /\ s[1] = Do("create", File("full.tmp", e))
         /\ s[2] = Fill(File("full.tmp", e), m.conf)
         /\ s[3] = Do("create", File("tmp", e))
         /\ s[4] = To("copy", File("tmp", e), File("config", e))
         /\ s[5] = To("link", File("tmp", e), File("backup", e))
         /\ s[6] = Do("unlink", File("tmp", e))
         /\ s[7] = Do("sync", File("config", e))
         /\ s[8] = To("rename", File("full.tmp", e), File("config", e))
         /\ s[9] = Do("trysync", File("config", e))
BY DEF Script, ApplyScript, Stage, Backup, StageCopy, MoveNew, Sync, CommitReplace

(* The calls of restart, in order.                                        *)
LEMMA RestartCalls ==
  ASSUME NEW m, m.op = "restart"
  PROVE  LET e == m.epoch  s == Script(m) IN
         /\ Len(s) = 7
         /\ s[1] = Do("kill", File("pid", e))
         /\ s[2] = Do("reap", File("pid", e))
         /\ s[3] = Do("spawn", File("config", e))
         /\ s[4] = Do("create", File("pid.tmp", e))
         /\ s[5] = Fill(File("pid.tmp", e), Rec)
         /\ s[6] = To("link", File("pid.tmp", e), File("pid", e))
         /\ s[7] = Do("unlink", File("pid.tmp", e))
BY DEF Script, RestartScript, StopProcess, SpawnRecorded, MoveNew

(* The calls of rollback, in order.                                       *)
LEMMA RollbackCalls ==
  ASSUME NEW m, m.op = "rollback"
  PROVE  LET e == m.epoch  s == Script(m) IN
         /\ Len(s) = 11
         /\ s[1] = Do("kill", File("pid", e))
         /\ s[2] = Do("create", File("tmp", e))
         /\ s[3] = To("copy", File("tmp", e), File("backup", e))
         /\ s[4] = To("rename", File("tmp", e), File("config", e))
         /\ s[5] = Do("trysync", File("config", e))
         /\ s[6] = Do("reap", File("pid", e))
         /\ s[7] = Do("spawn", File("config", e))
         /\ s[8] = Do("create", File("pid.tmp", e))
         /\ s[9] = Fill(File("pid.tmp", e), Rec)
         /\ s[10] = To("link", File("pid.tmp", e), File("pid", e))
         /\ s[11] = Do("unlink", File("pid.tmp", e))
BY DEF Script, RollbackScript, StopProcess, RestoreBackup, StageCopy, CommitReplace,
     SpawnRecorded, MoveNew

(* The calls of discard, in order.                                        *)
LEMMA DiscardCalls ==
  ASSUME NEW m, m.op = "discard"
  PROVE  LET e == m.epoch  s == Script(m) IN
         /\ Len(s) = 3
         /\ s[1] = Do("kill", File("pid", e))
         /\ s[2] = Do("clear", File("config", e))
         /\ s[3] = Do("sync", File("config", e))
BY DEF Script, DiscardScript, StopProcess, Cleanup, Sync

(* The calls of sweep, in order.                                          *)
LEMMA SweepCalls ==
  ASSUME NEW m, m.op = "sweep"
  PROVE  LET e == m.epoch  s == Script(m) IN
         /\ Len(s) = 3
         /\ s[1] = Do("reap", File("pid", e))
         /\ s[2] = Do("clear", File("config", e))
         /\ s[3] = Do("sync", File("config", e))
BY DEF Script, SweepEpoch, Cleanup, Sync

(* The calls of drop, in order.                                           *)
LEMMA DropCalls ==
  ASSUME NEW m, m.op = "drop"
  PROVE  LET e == m.epoch  s == Script(m) IN
         /\ Len(s) = 1
         /\ s[1] = Do("unlink", File("backup", e))
BY DEF Script, DropBackup

(* Between operations and while a boot looks around no script runs.        *)
LEMMA NoCalls ==
  ASSUME NEW m, m.op \in {"none", "scan"}
  PROVE  Len(Script(m)) = 0
BY DEF Script

(* No script is longer than eleven calls.                                  *)
LEMMA ScriptBound ==
  ASSUME NEW m \in DaemonStates
  PROVE  Len(Script(m)) \in 0 .. 11
<1>1. m.op \in StoreOps
  BY DEF DaemonStates
<1> QED BY <1>1, LaunchCalls, ApplyCalls, RestartCalls, RollbackCalls, DiscardCalls,
           SweepCalls, DropCalls, NoCalls DEF StoreOps

(* The daemon states of the record fields.                                 *)
LEMMA DaemonFields ==
  ASSUME NEW m \in DaemonStates
  PROVE  /\ m.pc \in {"down", "up"} /\ m.op \in StoreOps /\ m.at \in 1 .. 12
         /\ m.epoch \in 0 .. MaxEpoch /\ m.todo \in SUBSET EpochNumbers
         /\ m.alloc \in 0 .. MaxEpoch /\ m.cur \in 0 .. MaxEpoch
         /\ m.conf \in MaybeContents /\ m.old \in MaybeContents
         /\ m.durable \in BOOLEAN /\ m.fresh \in BOOLEAN
BY DEF DaemonStates

(* What the daemon d becomes; the others stay.                             *)
Becomes(d) ==
  /\ owner' = owner /\ faults' \in Nat /\ dm' \in [Daemons -> DaemonStates]
  /\ \A x \in Daemons \ {d} : dm'[x] = dm[x]
  /\ dm'[d].pc = "up"

(* One daemon that is up moves: what is left to show.                      *)
LEMMA Moves ==
  ASSUME StoreIInv, NEW d \in Daemons, dm[d].pc = "up", Becomes(d),
         StoreSound', Recorded', Stands(dm[d])'
  PROVE  StoreIInv'
<1>1. DaemonsOK'
  BY DEF StoreIInv, DaemonsOK, Becomes
<1>2. StoreLocked'
  BY DEF StoreIInv, StoreLocked, Becomes
<1>3. \A x \in Daemons : dm'[x].pc = "up" => x = d
  BY <1>2 DEF StoreIInv, StoreLocked, Becomes
<1>4. \A x \in Daemons : dm'[x].pc = "up" => Stands(dm[x])'
  BY <1>3
<1> QED BY <1>1, <1>2, <1>4 DEF StoreIInv

(* From state m the daemon comes to state n by the call s.                 *)
Advances(m, n, s) ==
  /\ m \in DaemonStates /\ n \in DaemonStates
  /\ n.pc = m.pc /\ n.op = m.op /\ n.epoch = m.epoch /\ n.todo = m.todo /\ n.alloc = m.alloc
  /\ n.cur = m.cur /\ n.conf = m.conf /\ n.old = m.old /\ n.fresh = m.fresh
  /\ n.at = (IF s.do = "clear" /\ Left(disk', s.f[2]) # {} THEN m.at ELSE m.at + 1)
  /\ n.durable = ((m.durable /\ s.do # "rename") \/ s.do = "trysync")
CallOf(m) == Script(m)[m.at]
Runs(m, n) == m.at \in 1 .. Len(Script(m)) /\ Call(CallOf(m)) /\ Advances(m, n, CallOf(m))

(* A step runs the next call of the script of the daemon that is up.       *)
LEMMA StepIs ==
  ASSUME StoreIInv, NEW d \in Daemons, Step(d)
  PROVE  /\ dm[d].pc = "up" /\ ~dm[d].fresh /\ Stands(dm[d])
         /\ Becomes(d) /\ Runs(dm[d], dm'[d])
<1> DEFINE m == dm[d]
           s == Script(m)[m.at]
           k == IF s.do = "clear" /\ Left(disk', s.f[2]) # {} THEN m.at ELSE m.at + 1
           b == (m.durable /\ s.do # "rename") \/ s.do = "trysync"
           n == [m EXCEPT !.at = k, !.durable = b]
<1>1. /\ m.op # "none" /\ m.at <= Len(Script(m)) /\ Call(s)
      /\ dm' = [dm EXCEPT ![d].at = k, ![d].durable = b]
      /\ owner' = owner /\ faults' = faults
  BY DEF Step, Running, NextCall
<1>2. dm \in [Daemons -> DaemonStates] /\ m \in DaemonStates /\ faults \in Nat
  BY DEF StoreIInv, DaemonsOK
<1>3. m.pc = "up"
  BY <1>1, <1>2, DaemonFields DEF StoreIInv, StoreLocked, Down
<1>4. Stands(m)
  BY <1>3 DEF StoreIInv
<1>5. ~m.fresh
  BY <1>1, <1>4 DEF Stands
<1>6. m.at \in 1 .. Len(Script(m)) /\ m.at + 1 \in 1 .. 12 /\ m.at \in 1 .. 12
  <2> DEFINE a == m.at
             l == Len(Script(m))
  <2>1. l \in 0 .. 11 /\ a \in 1 .. 12 /\ a <= l
    BY <1>1, <1>2, ScriptBound, DaemonFields
  <2> HIDE DEF a, l
  <2>2. a \in 1 .. l /\ a + 1 \in 1 .. 12 /\ a \in 1 .. 12
    BY <2>1
  <2> QED BY <2>2 DEF a, l
<1>7. k = m.at \/ k = m.at + 1
  BY Zenon
<1>8. b \in BOOLEAN
  BY Zenon
<1> HIDE DEF k, b, s
<1>9. n \in DaemonStates
  BY <1>2, <1>6, <1>7, <1>8 DEF DaemonStates
<1>10. /\ n.pc = m.pc /\ n.op = m.op /\ n.epoch = m.epoch /\ n.todo = m.todo /\ n.alloc = m.alloc
       /\ n.cur = m.cur /\ n.conf = m.conf /\ n.old = m.old /\ n.fresh = m.fresh
       /\ n.at = k /\ n.durable = b
  BY <1>2 DEF DaemonStates
<1>11. dm' = [dm EXCEPT ![d] = n]
  BY <1>1
<1> HIDE DEF n
<1>12. dm' \in [Daemons -> DaemonStates] /\ dm'[d] = n /\ \A x \in Daemons \ {d} : dm'[x] = dm[x]
  BY <1>2, <1>9, <1>11
<1>13. Becomes(d)
  BY <1>1, <1>2, <1>3, <1>10, <1>12 DEF Becomes
<1>14. s = CallOf(m)
  BY DEF CallOf, s
<1>15. Advances(m, n, s)
  BY <1>2, <1>9, <1>10 DEF Advances, k, b
<1>16. Runs(m, dm'[d])
  BY <1>1, <1>6, <1>12, <1>14, <1>15 DEF Runs
<1> QED BY <1>3, <1>4, <1>5, <1>13, <1>16

(***************************************************************************)
(* Steps of each operation                                                 *)
(***************************************************************************)
(* The names of an epoch are names, and none is another.                   *)
LEMMA EpochNames ==
  ASSUME NEW e \in EpochNumbers
  PROVE  /\ \A k \in Kinds : File(k, e) \in Files /\ File(k, e)[1] = k /\ File(k, e)[2] = e
         /\ \A k \in Kinds, j \in Kinds : k # j => File(k, e) # File(j, e)
BY FileNames

(* No content is one of the marks of the model.                            *)
LEMMA ContentsPlain ==
  \A v \in Contents : v \in Values /\ v # Gone /\ v # Torn
BY StoreAssumption DEF Values

(* A call that neither clears nor replaces: the next one is due.           *)
LEMMA PlainCall ==
  ASSUME NEW m, NEW n, NEW s, Runs(m, n), CallOf(m) = s,
         s.do \notin {"clear", "rename", "trysync"}
  PROVE  Call(s) /\ n.at = m.at + 1 /\ n.durable = m.durable
<1>1. n.durable \in BOOLEAN /\ m.durable \in BOOLEAN
  BY DaemonFields DEF Runs, Advances
<1> QED BY <1>1 DEF Runs, Advances

(* A replacement is not durable before its directory is synced.            *)
LEMMA ReplacingCall ==
  ASSUME NEW m, NEW n, NEW s, Runs(m, n), CallOf(m) = s, s.do \in {"rename", "trysync"}
  PROVE  Call(s) /\ n.at = m.at + 1 /\ (n.durable <=> s.do = "trysync")
<1>1. n.durable \in BOOLEAN /\ m.durable \in BOOLEAN
  BY DaemonFields DEF Runs, Advances
<1> QED BY <1>1 DEF Runs, Advances

(* prepare_launch and the recorded spawn, call by call.                    *)
LEMMA LaunchRuns ==
  ASSUME StoreSound, NEW m, NEW n, m.op = "launch", LaunchAt(m), Runs(m, n)
  PROVE  StoreSound' /\ LaunchAt(n)'
<1> DEFINE e == m.epoch
           v == m.conf
           C == File("config", e)
           T == File("tmp", e)
           U == File("full.tmp", e)
           B == File("backup", e)
           Q == File("pid.tmp", e)
           P == File("pid", e)
<1>1. /\ m \in DaemonStates /\ n \in DaemonStates /\ Len(Script(m)) = 11
      /\ m.at \in 1 .. 11
  BY LaunchCalls DEF Runs, Advances
<1>2. /\ e \in EpochNumbers /\ e # 0 /\ e <= m.alloc
      /\ v \in Contents /\ v \in Values /\ v # Torn /\ v # Gone
      /\ m.cur = 0 /\ m.durable
  BY <1>1, DaemonFields, ContentsPlain DEF LaunchAt, Current, EpochNumbers
<1>3. /\ C \in Files /\ T \in Files /\ U \in Files /\ B \in Files /\ Q \in Files /\ P \in Files
      /\ C # T /\ C # U /\ C # B /\ C # Q /\ C # P /\ T # U /\ T # B /\ T # Q /\ T # P
      /\ U # B /\ U # Q /\ U # P /\ B # Q /\ B # P /\ P # Q
      /\ C[1] = "config" /\ T[1] = "tmp" /\ U[1] = "full.tmp" /\ B[1] = "backup"
      /\ Q[1] = "pid.tmp" /\ P[1] = "pid"
  BY <1>2, EpochNames DEF Kinds
<1>4. /\ n.epoch = e /\ n.cur = m.cur /\ n.conf = v /\ n.alloc = m.alloc
  BY DEF Runs, Advances
<1> HIDE DEF e, v, C, T, U, B, Q, P
<1>c1. CASE m.at = 1
  <2>1. CallOf(m) = Do("create", T)
    BY <1>1, <1>c1, LaunchCalls DEF CallOf, e, v, C, T, U, B, Q, P
  <2>2. Call(Do("create", T)) /\ n.at = 2 /\ n.durable = m.durable
    BY <1>1, <1>c1, <2>1, PlainCall DEF Do
  <2>4. StoreSound' /\ OnlyAt({T}) /\ core' = core
    BY <1>2, <1>3, <2>2, CreateKeeps DEF Staging
  <2> QED BY <1>1, <1>2, <1>3, <1>4, <1>c1, <2>2, <2>4
         DEF LaunchAt, Current, Complete, Safe, StoreHolds, OnlyAt, Same, e, v, C, T, U, B, Q, P
<1>c2. CASE m.at = 2
  <2>1. CallOf(m) = Fill(T, v)
    BY <1>1, <1>c2, LaunchCalls DEF CallOf, e, v, C, T, U, B, Q, P
  <2>2. Call(Fill(T, v)) /\ n.at = 3 /\ n.durable = m.durable
    BY <1>1, <1>c2, <2>1, PlainCall DEF Fill
  <2>4. StoreSound' /\ OnlyAt({T}) /\ core' = core /\ Complete(T, v)'
    BY <1>2, <1>3, <2>2, FillKeeps DEF Staging
  <2> QED BY <1>1, <1>2, <1>3, <1>4, <1>c2, <2>2, <2>4
         DEF LaunchAt, Current, Complete, Safe, StoreHolds, OnlyAt, Same, e, v, C, T, U, B, Q, P
<1>c3. CASE m.at = 3
  <2>1. CallOf(m) = To("link", T, C)
    BY <1>1, <1>c3, LaunchCalls DEF CallOf, e, v, C, T, U, B, Q, P
  <2>2. Call(To("link", T, C)) /\ n.at = 4 /\ n.durable = m.durable
    BY <1>1, <1>c3, <2>1, PlainCall DEF To
  <2>3. Complete(T, v)
    BY <1>1, <1>2, <1>c3 DEF LaunchAt, Complete, Safe, StoreHolds, e, v, C, T, U, B, Q, P
  <2>4. StoreSound' /\ OnlyAt({C}) /\ core' = core /\ disk'[C] = v
    BY <1>2, <1>3, <2>2, <2>3, LinkKeeps DEF Complete
  <2> QED BY <1>1, <1>2, <1>3, <1>4, <1>c3, <2>2, <2>4
         DEF LaunchAt, Current, Complete, Safe, StoreHolds, OnlyAt, Same, e, v, C, T, U, B, Q, P
<1>c4. CASE m.at = 4
  <2>1. CallOf(m) = Do("unlink", T)
    BY <1>1, <1>c4, LaunchCalls DEF CallOf, e, v, C, T, U, B, Q, P
  <2>2. Call(Do("unlink", T)) /\ n.at = 5 /\ n.durable = m.durable
    BY <1>1, <1>c4, <2>1, PlainCall DEF Do
  <2>4. StoreSound' /\ OnlyAt({T}) /\ core' = core
    BY <1>2, <1>3, <2>2, UnlinkKeeps DEF Staging
  <2> QED BY <1>1, <1>2, <1>3, <1>4, <1>c4, <2>2, <2>4
         DEF LaunchAt, Current, Complete, Safe, StoreHolds, OnlyAt, Same, e, v, C, T, U, B, Q, P
<1>c5. CASE m.at = 5
  <2>1. CallOf(m) = Do("sync", C)
    BY <1>1, <1>c5, LaunchCalls DEF CallOf, e, v, C, T, U, B, Q, P
  <2>2. Call(Do("sync", C)) /\ n.at = 6 /\ n.durable = m.durable
    BY <1>1, <1>c5, <2>1, PlainCall DEF Do
  <2>4. /\ StoreSound' /\ core' = core /\ disk' = disk
        /\ \A g \in Files : g[1] # "controller" => stable'[g] = {disk[g]}
    BY <1>2, <1>3, <2>2, SyncKeeps
  <2> QED BY <1>1, <1>2, <1>3, <1>4, <1>c5, <2>2, <2>4
         DEF LaunchAt, Current, Complete, Safe, StoreHolds, OnlyAt, Same, e, v, C, T, U, B, Q, P
<1>c6. CASE m.at = 6
  <2>1. CallOf(m) = Do("reap", P)
    BY <1>1, <1>c6, LaunchCalls DEF CallOf, e, v, C, T, U, B, Q, P
  <2>2. Call(Do("reap", P)) /\ n.at = 7 /\ n.durable = m.durable
    BY <1>1, <1>c6, <2>1, PlainCall DEF Do
  <2>4. StoreSound' /\ OnlyAt({P})
    BY <1>2, <1>3, <2>2, ReapKeeps DEF P
  <2> QED BY <1>1, <1>2, <1>3, <1>4, <1>c6, <2>2, <2>4
         DEF LaunchAt, Current, Complete, Safe, StoreHolds, OnlyAt, Same, e, v, C, T, U, B, Q, P
<1>c7. CASE m.at = 7
  <2>1. CallOf(m) = Do("spawn", C)
    BY <1>1, <1>c7, LaunchCalls DEF CallOf, e, v, C, T, U, B, Q, P
  <2>2. Call(Do("spawn", C)) /\ n.at = 8 /\ n.durable = m.durable
    BY <1>1, <1>c7, <2>1, PlainCall DEF Do
  <2>3. disk[C] # Gone
    BY <1>1, <1>2, <1>c7 DEF LaunchAt, Complete, Safe, StoreHolds, e, v, C, T, U, B, Q, P
  <2>4. /\ StoreSound' /\ core'[e] = "alive"
        /\ \A g \in Files : g[1] \notin {"sock", "controller"} => Same(g)
    BY <1>2, <1>3, <2>2, <2>3, SpawnKeeps DEF C
  <2> QED BY <1>1, <1>2, <1>3, <1>4, <1>c7, <2>2, <2>4
         DEF LaunchAt, Current, Complete, Safe, StoreHolds, OnlyAt, Same, e, v, C, T, U, B, Q, P
<1>c8. CASE m.at = 8
  <2>1. CallOf(m) = Do("create", Q)
    BY <1>1, <1>c8, LaunchCalls DEF CallOf, e, v, C, T, U, B, Q, P
  <2>2. Call(Do("create", Q)) /\ n.at = 9 /\ n.durable = m.durable
    BY <1>1, <1>c8, <2>1, PlainCall DEF Do
  <2>4. StoreSound' /\ OnlyAt({Q}) /\ core' = core
    BY <1>2, <1>3, <2>2, CreateKeeps DEF Staging
  <2> QED BY <1>1, <1>2, <1>3, <1>4, <1>c8, <2>2, <2>4
         DEF LaunchAt, Current, Complete, Safe, StoreHolds, OnlyAt, Same, e, v, C, T, U, B, Q, P
<1>c9. CASE m.at = 9
  <2>1. CallOf(m) = Fill(Q, Rec)
    BY <1>1, <1>c9, LaunchCalls DEF CallOf, e, v, C, T, U, B, Q, P
  <2>2. Call(Fill(Q, Rec)) /\ n.at = 10 /\ n.durable = m.durable
    BY <1>1, <1>c9, <2>1, PlainCall DEF Fill
  <2>4. StoreSound' /\ OnlyAt({Q}) /\ core' = core /\ Complete(Q, Rec)'
    BY <1>2, <1>3, <2>2, FillKeeps DEF Staging, Rec, Torn, Values
  <2> QED BY <1>1, <1>2, <1>3, <1>4, <1>c9, <2>2, <2>4
         DEF LaunchAt, Current, Complete, Safe, StoreHolds, OnlyAt, Same, e, v, C, T, U, B, Q, P
<1>c10. CASE m.at = 10
  <2>1. CallOf(m) = To("link", Q, P)
    BY <1>1, <1>c10, LaunchCalls DEF CallOf, e, v, C, T, U, B, Q, P
  <2>2. Call(To("link", Q, P)) /\ n.at = 11 /\ n.durable = m.durable
    BY <1>1, <1>c10, <2>1, PlainCall DEF To
  <2>3. Complete(Q, Rec)
    BY <1>1, <1>2, <1>c10 DEF LaunchAt, Complete, Safe, StoreHolds, e, v, C, T, U, B, Q, P
  <2>4. StoreSound' /\ OnlyAt({P}) /\ core' = core /\ disk'[P] = Rec
    BY <1>2, <1>3, <2>2, <2>3, LinkKeeps DEF Complete
  <2> QED BY <1>1, <1>2, <1>3, <1>4, <1>c10, <2>2, <2>4
         DEF LaunchAt, Current, Complete, Safe, StoreHolds, OnlyAt, Same, e, v, C, T, U, B, Q, P
<1>c11. CASE m.at = 11
  <2>1. CallOf(m) = Do("unlink", Q)
    BY <1>1, <1>c11, LaunchCalls DEF CallOf, e, v, C, T, U, B, Q, P
  <2>2. Call(Do("unlink", Q)) /\ n.at = 12 /\ n.durable = m.durable
    BY <1>1, <1>c11, <2>1, PlainCall DEF Do
  <2>4. StoreSound' /\ OnlyAt({Q}) /\ core' = core
    BY <1>2, <1>3, <2>2, UnlinkKeeps DEF Staging
  <2> QED BY <1>1, <1>2, <1>3, <1>4, <1>c11, <2>2, <2>4
         DEF LaunchAt, Current, Complete, Safe, StoreHolds, OnlyAt, Same, e, v, C, T, U, B, Q, P
<1> QED BY <1>1, <1>c1, <1>c2, <1>c3, <1>c4, <1>c5, <1>c6, <1>c7, <1>c8, <1>c9, <1>c10, <1>c11

(* apply_locked up to the replaced runtime file.                           *)
LEMMA ApplyRuns ==
  ASSUME StoreSound, NEW m, NEW n, m.op = "apply", ApplyAt(m), Runs(m, n)
  PROVE  StoreSound' /\ ApplyAt(n)'
<1> DEFINE e == m.epoch
           v == m.conf
           o == m.old
           C == File("config", e)
           T == File("tmp", e)
           U == File("full.tmp", e)
           B == File("backup", e)
           Q == File("pid.tmp", e)
           P == File("pid", e)
<1>1. /\ m \in DaemonStates /\ n \in DaemonStates /\ Len(Script(m)) = 9
      /\ m.at \in 1 .. 9
  BY ApplyCalls DEF Runs, Advances
<1>2. /\ e \in EpochNumbers /\ e # 0 /\ e <= m.alloc
      /\ v \in Contents /\ v \in Values /\ v # Torn /\ v # Gone
      /\ o \in Contents /\ o \in Values /\ o # Torn /\ o # Gone
      /\ m.cur = e
  BY <1>1, DaemonFields, ContentsPlain DEF ApplyAt, Current, EpochNumbers
<1>3. /\ C \in Files /\ T \in Files /\ U \in Files /\ B \in Files /\ Q \in Files /\ P \in Files
      /\ C # T /\ C # U /\ C # B /\ C # Q /\ C # P /\ T # U /\ T # B /\ T # Q /\ T # P
      /\ U # B /\ U # Q /\ U # P /\ B # Q /\ B # P /\ P # Q
      /\ C[1] = "config" /\ T[1] = "tmp" /\ U[1] = "full.tmp" /\ B[1] = "backup"
      /\ Q[1] = "pid.tmp" /\ P[1] = "pid"
  BY <1>2, EpochNames DEF Kinds
<1>4. /\ n.epoch = e /\ n.cur = m.cur /\ n.conf = v /\ n.alloc = m.alloc /\ n.old = o
  BY DEF Runs, Advances, e, v, o
<1> HIDE DEF e, v, o, C, T, U, B, Q, P
<1>c1. CASE m.at = 1
  <2>1. CallOf(m) = Do("create", U)
    BY <1>1, <1>c1, ApplyCalls DEF CallOf, e, v, o, C, T, U, B, Q, P
  <2>2. Call(Do("create", U)) /\ n.at = 2 /\ n.durable = m.durable
    BY <1>1, <1>c1, <2>1, PlainCall DEF Do
  <2>4. StoreSound' /\ OnlyAt({U}) /\ core' = core
    BY <1>2, <1>3, <2>2, CreateKeeps DEF Staging
  <2> QED BY <1>1, <1>2, <1>3, <1>4, <1>c1, <2>2, <2>4
         DEF ApplyAt, Current, Complete, Safe, StoreHolds, OnlyAt, Same, e, v, o, C, T, U, B, Q, P
<1>c2. CASE m.at = 2
  <2>1. CallOf(m) = Fill(U, v)
    BY <1>1, <1>c2, ApplyCalls DEF CallOf, e, v, o, C, T, U, B, Q, P
  <2>2. Call(Fill(U, v)) /\ n.at = 3 /\ n.durable = m.durable
    BY <1>1, <1>c2, <2>1, PlainCall DEF Fill
  <2>4. StoreSound' /\ OnlyAt({U}) /\ core' = core /\ Complete(U, v)'
    BY <1>2, <1>3, <2>2, FillKeeps DEF Staging
  <2> QED BY <1>1, <1>2, <1>3, <1>4, <1>c2, <2>2, <2>4
         DEF ApplyAt, Current, Complete, Safe, StoreHolds, OnlyAt, Same, e, v, o, C, T, U, B, Q, P
<1>c3. CASE m.at = 3
  <2>1. CallOf(m) = Do("create", T)
    BY <1>1, <1>c3, ApplyCalls DEF CallOf, e, v, o, C, T, U, B, Q, P
  <2>2. Call(Do("create", T)) /\ n.at = 4 /\ n.durable = m.durable
    BY <1>1, <1>c3, <2>1, PlainCall DEF Do
  <2>4. StoreSound' /\ OnlyAt({T}) /\ core' = core
    BY <1>2, <1>3, <2>2, CreateKeeps DEF Staging
  <2> QED BY <1>1, <1>2, <1>3, <1>4, <1>c3, <2>2, <2>4
         DEF ApplyAt, Current, Complete, Safe, StoreHolds, OnlyAt, Same, e, v, o, C, T, U, B, Q, P
<1>c4. CASE m.at = 4
  <2>1. CallOf(m) = To("copy", T, C)
    BY <1>1, <1>c4, ApplyCalls DEF CallOf, e, v, o, C, T, U, B, Q, P
  <2>2. Call(To("copy", T, C)) /\ n.at = 5 /\ n.durable = m.durable
    BY <1>1, <1>c4, <2>1, PlainCall DEF To
  <2>3. disk[C] = o
    BY <1>1, <1>2, <1>c4 DEF ApplyAt, Complete, Safe, StoreHolds, e, v, o, C, T, U, B, Q, P
  <2>4. StoreSound' /\ OnlyAt({T}) /\ core' = core /\ Complete(T, o)'
    BY <1>2, <1>3, <2>2, <2>3, StoreCopyKeeps DEF Staging
  <2> QED BY <1>1, <1>2, <1>3, <1>4, <1>c4, <2>2, <2>4
         DEF ApplyAt, Current, Complete, Safe, StoreHolds, OnlyAt, Same, e, v, o, C, T, U, B, Q, P
<1>c5. CASE m.at = 5
  <2>1. CallOf(m) = To("link", T, B)
    BY <1>1, <1>c5, ApplyCalls DEF CallOf, e, v, o, C, T, U, B, Q, P
  <2>2. Call(To("link", T, B)) /\ n.at = 6 /\ n.durable = m.durable
    BY <1>1, <1>c5, <2>1, PlainCall DEF To
  <2>3. Complete(T, o)
    BY <1>1, <1>2, <1>c5 DEF ApplyAt, Complete, Safe, StoreHolds, e, v, o, C, T, U, B, Q, P
  <2>4. StoreSound' /\ OnlyAt({B}) /\ core' = core /\ disk'[B] = o
    BY <1>2, <1>3, <2>2, <2>3, LinkKeeps DEF Complete
  <2> QED BY <1>1, <1>2, <1>3, <1>4, <1>c5, <2>2, <2>4
         DEF ApplyAt, Current, Complete, Safe, StoreHolds, OnlyAt, Same, e, v, o, C, T, U, B, Q, P
<1>c6. CASE m.at = 6
  <2>1. CallOf(m) = Do("unlink", T)
    BY <1>1, <1>c6, ApplyCalls DEF CallOf, e, v, o, C, T, U, B, Q, P
  <2>2. Call(Do("unlink", T)) /\ n.at = 7 /\ n.durable = m.durable
    BY <1>1, <1>c6, <2>1, PlainCall DEF Do
  <2>4. StoreSound' /\ OnlyAt({T}) /\ core' = core
    BY <1>2, <1>3, <2>2, UnlinkKeeps DEF Staging
  <2> QED BY <1>1, <1>2, <1>3, <1>4, <1>c6, <2>2, <2>4
         DEF ApplyAt, Current, Complete, Safe, StoreHolds, OnlyAt, Same, e, v, o, C, T, U, B, Q, P
<1>c7. CASE m.at = 7
  <2>1. CallOf(m) = Do("sync", C)
    BY <1>1, <1>c7, ApplyCalls DEF CallOf, e, v, o, C, T, U, B, Q, P
  <2>2. Call(Do("sync", C)) /\ n.at = 8 /\ n.durable = m.durable
    BY <1>1, <1>c7, <2>1, PlainCall DEF Do
  <2>4. /\ StoreSound' /\ core' = core /\ disk' = disk
        /\ \A g \in Files : g[1] # "controller" => stable'[g] = {disk[g]}
    BY <1>2, <1>3, <2>2, SyncKeeps
  <2> QED BY <1>1, <1>2, <1>3, <1>4, <1>c7, <2>2, <2>4
         DEF ApplyAt, Current, Complete, Safe, StoreHolds, OnlyAt, Same, e, v, o, C, T, U, B, Q, P
<1>c8. CASE m.at = 8
  <2>1. CallOf(m) = To("rename", U, C)
    BY <1>1, <1>c8, ApplyCalls DEF CallOf, e, v, o, C, T, U, B, Q, P
  <2>2. Call(To("rename", U, C)) /\ n.at = 9 /\ ~n.durable
    BY <1>1, <1>c8, <2>1, ReplacingCall DEF To
  <2>3. Complete(U, v)
    BY <1>1, <1>2, <1>c8 DEF ApplyAt, Complete, Safe, StoreHolds, e, v, o, C, T, U, B, Q, P
  <2>4. StoreSound' /\ OnlyAt({U, C}) /\ core' = core /\ disk'[C] = v
    BY <1>2, <1>3, <2>2, <2>3, RenameKeeps DEF Staging, Complete
  <2> QED BY <1>1, <1>2, <1>3, <1>4, <1>c8, <2>2, <2>4
         DEF ApplyAt, Current, Complete, Safe, StoreHolds, OnlyAt, Same, e, v, o, C, T, U, B, Q, P
<1>c9. CASE m.at = 9
  <2>1. CallOf(m) = Do("trysync", C)
    BY <1>1, <1>c9, ApplyCalls DEF CallOf, e, v, o, C, T, U, B, Q, P
  <2>2. Call(Do("trysync", C)) /\ n.at = 10 /\ n.durable
    BY <1>1, <1>c9, <2>1, ReplacingCall DEF Do
  <2>4. /\ StoreSound' /\ core' = core /\ disk' = disk
        /\ \A g \in Files : g[1] # "controller" => stable'[g] = {disk[g]}
    BY <1>2, <1>3, <2>2, SyncKeeps
  <2> QED BY <1>1, <1>2, <1>3, <1>4, <1>c9, <2>2, <2>4
         DEF ApplyAt, Current, Complete, Safe, StoreHolds, OnlyAt, Same, e, v, o, C, T, U, B, Q, P
<1> QED BY <1>1, <1>c1, <1>c2, <1>c3, <1>c4, <1>c5, <1>c6, <1>c7, <1>c8, <1>c9

(* The restart of the same epoch.                                          *)
LEMMA RestartRuns ==
  ASSUME StoreSound, NEW m, NEW n, m.op = "restart", RestartAt(m), Runs(m, n)
  PROVE  StoreSound' /\ RestartAt(n)'
<1> DEFINE e == m.epoch
           v == m.conf
           o == m.old
           C == File("config", e)
           T == File("tmp", e)
           U == File("full.tmp", e)
           B == File("backup", e)
           Q == File("pid.tmp", e)
           P == File("pid", e)
<1>1. /\ m \in DaemonStates /\ n \in DaemonStates /\ Len(Script(m)) = 7
      /\ m.at \in 1 .. 7
  BY RestartCalls DEF Runs, Advances
<1>2. /\ e \in EpochNumbers /\ e # 0 /\ e <= m.alloc
      /\ v \in Contents /\ v \in Values /\ v # Torn /\ v # Gone
      /\ o \in Contents /\ o \in Values /\ o # Torn /\ o # Gone
      /\ m.cur = e
  BY <1>1, DaemonFields, ContentsPlain DEF RestartAt, Current, EpochNumbers
<1>3. /\ C \in Files /\ T \in Files /\ U \in Files /\ B \in Files /\ Q \in Files /\ P \in Files
      /\ C # T /\ C # U /\ C # B /\ C # Q /\ C # P /\ T # U /\ T # B /\ T # Q /\ T # P
      /\ U # B /\ U # Q /\ U # P /\ B # Q /\ B # P /\ P # Q
      /\ C[1] = "config" /\ T[1] = "tmp" /\ U[1] = "full.tmp" /\ B[1] = "backup"
      /\ Q[1] = "pid.tmp" /\ P[1] = "pid"
  BY <1>2, EpochNames DEF Kinds
<1>4. /\ n.epoch = e /\ n.cur = m.cur /\ n.conf = v /\ n.alloc = m.alloc /\ n.old = o
  BY DEF Runs, Advances, e, v, o
<1> HIDE DEF e, v, o, C, T, U, B, Q, P
<1>c1. CASE m.at = 1
  <2>1. CallOf(m) = Do("kill", P)
    BY <1>1, <1>c1, RestartCalls DEF CallOf, e, v, o, C, T, U, B, Q, P
  <2>2. Call(Do("kill", P)) /\ n.at = 2 /\ n.durable = m.durable
    BY <1>1, <1>c1, <2>1, PlainCall DEF Do
  <2>4. StoreSound' /\ OnlyAt({P})
    BY <1>2, <1>3, <2>2, KillKeeps DEF P
  <2> QED BY <1>1, <1>2, <1>3, <1>4, <1>c1, <2>2, <2>4
         DEF RestartAt, Current, Complete, Safe, StoreHolds, OnlyAt, Same, e, v, o, C, T, U, B, Q, P
<1>c2. CASE m.at = 2
  <2>1. CallOf(m) = Do("reap", P)
    BY <1>1, <1>c2, RestartCalls DEF CallOf, e, v, o, C, T, U, B, Q, P
  <2>2. Call(Do("reap", P)) /\ n.at = 3 /\ n.durable = m.durable
    BY <1>1, <1>c2, <2>1, PlainCall DEF Do
  <2>4. StoreSound' /\ OnlyAt({P})
    BY <1>2, <1>3, <2>2, ReapKeeps DEF P
  <2> QED BY <1>1, <1>2, <1>3, <1>4, <1>c2, <2>2, <2>4
         DEF RestartAt, Current, Complete, Safe, StoreHolds, OnlyAt, Same, e, v, o, C, T, U, B, Q, P
<1>c3. CASE m.at = 3
  <2>1. CallOf(m) = Do("spawn", C)
    BY <1>1, <1>c3, RestartCalls DEF CallOf, e, v, o, C, T, U, B, Q, P
  <2>2. Call(Do("spawn", C)) /\ n.at = 4 /\ n.durable = m.durable
    BY <1>1, <1>c3, <2>1, PlainCall DEF Do
  <2>3. disk[C] # Gone
    BY <1>1, <1>2, <1>c3 DEF RestartAt, Complete, Safe, StoreHolds, e, v, o, C, T, U, B, Q, P
  <2>4. /\ StoreSound' /\ core'[e] = "alive"
        /\ \A g \in Files : g[1] \notin {"sock", "controller"} => Same(g)
    BY <1>2, <1>3, <2>2, <2>3, SpawnKeeps DEF C
  <2> QED BY <1>1, <1>2, <1>3, <1>4, <1>c3, <2>2, <2>4
         DEF RestartAt, Current, Complete, Safe, StoreHolds, OnlyAt, Same, e, v, o, C, T, U, B, Q, P
<1>c4. CASE m.at = 4
  <2>1. CallOf(m) = Do("create", Q)
    BY <1>1, <1>c4, RestartCalls DEF CallOf, e, v, o, C, T, U, B, Q, P
  <2>2. Call(Do("create", Q)) /\ n.at = 5 /\ n.durable = m.durable
    BY <1>1, <1>c4, <2>1, PlainCall DEF Do
  <2>4. StoreSound' /\ OnlyAt({Q}) /\ core' = core
    BY <1>2, <1>3, <2>2, CreateKeeps DEF Staging
  <2> QED BY <1>1, <1>2, <1>3, <1>4, <1>c4, <2>2, <2>4
         DEF RestartAt, Current, Complete, Safe, StoreHolds, OnlyAt, Same, e, v, o, C, T, U, B, Q, P
<1>c5. CASE m.at = 5
  <2>1. CallOf(m) = Fill(Q, Rec)
    BY <1>1, <1>c5, RestartCalls DEF CallOf, e, v, o, C, T, U, B, Q, P
  <2>2. Call(Fill(Q, Rec)) /\ n.at = 6 /\ n.durable = m.durable
    BY <1>1, <1>c5, <2>1, PlainCall DEF Fill
  <2>4. StoreSound' /\ OnlyAt({Q}) /\ core' = core /\ Complete(Q, Rec)'
    BY <1>2, <1>3, <2>2, FillKeeps DEF Staging, Rec, Torn, Values
  <2> QED BY <1>1, <1>2, <1>3, <1>4, <1>c5, <2>2, <2>4
         DEF RestartAt, Current, Complete, Safe, StoreHolds, OnlyAt, Same, e, v, o, C, T, U, B, Q, P
<1>c6. CASE m.at = 6
  <2>1. CallOf(m) = To("link", Q, P)
    BY <1>1, <1>c6, RestartCalls DEF CallOf, e, v, o, C, T, U, B, Q, P
  <2>2. Call(To("link", Q, P)) /\ n.at = 7 /\ n.durable = m.durable
    BY <1>1, <1>c6, <2>1, PlainCall DEF To
  <2>3. Complete(Q, Rec)
    BY <1>1, <1>2, <1>c6 DEF RestartAt, Complete, Safe, StoreHolds, e, v, o, C, T, U, B, Q, P
  <2>4. StoreSound' /\ OnlyAt({P}) /\ core' = core /\ disk'[P] = Rec
    BY <1>2, <1>3, <2>2, <2>3, LinkKeeps DEF Complete
  <2> QED BY <1>1, <1>2, <1>3, <1>4, <1>c6, <2>2, <2>4
         DEF RestartAt, Current, Complete, Safe, StoreHolds, OnlyAt, Same, e, v, o, C, T, U, B, Q, P
<1>c7. CASE m.at = 7
  <2>1. CallOf(m) = Do("unlink", Q)
    BY <1>1, <1>c7, RestartCalls DEF CallOf, e, v, o, C, T, U, B, Q, P
  <2>2. Call(Do("unlink", Q)) /\ n.at = 8 /\ n.durable = m.durable
    BY <1>1, <1>c7, <2>1, PlainCall DEF Do
  <2>4. StoreSound' /\ OnlyAt({Q}) /\ core' = core
    BY <1>2, <1>3, <2>2, UnlinkKeeps DEF Staging
  <2> QED BY <1>1, <1>2, <1>3, <1>4, <1>c7, <2>2, <2>4
         DEF RestartAt, Current, Complete, Safe, StoreHolds, OnlyAt, Same, e, v, o, C, T, U, B, Q, P
<1> QED BY <1>1, <1>c1, <1>c2, <1>c3, <1>c4, <1>c5, <1>c6, <1>c7

(* The backup restored under another start.                                *)
LEMMA RollbackRuns ==
  ASSUME StoreSound, NEW m, NEW n, m.op = "rollback", RollbackAt(m), Runs(m, n)
  PROVE  StoreSound' /\ RollbackAt(n)'
<1> DEFINE e == m.epoch
           v == m.conf
           C == File("config", e)
           T == File("tmp", e)
           U == File("full.tmp", e)
           B == File("backup", e)
           Q == File("pid.tmp", e)
           P == File("pid", e)
<1>1. /\ m \in DaemonStates /\ n \in DaemonStates /\ Len(Script(m)) = 11
      /\ m.at \in 1 .. 11
  BY RollbackCalls DEF Runs, Advances
<1>2. /\ e \in EpochNumbers /\ e # 0 /\ e <= m.alloc
      /\ v \in Contents /\ v \in Values /\ v # Torn /\ v # Gone
      /\ m.cur = e
  BY <1>1, DaemonFields, ContentsPlain DEF RollbackAt, Current, EpochNumbers
<1>3. /\ C \in Files /\ T \in Files /\ U \in Files /\ B \in Files /\ Q \in Files /\ P \in Files
      /\ C # T /\ C # U /\ C # B /\ C # Q /\ C # P /\ T # U /\ T # B /\ T # Q /\ T # P
      /\ U # B /\ U # Q /\ U # P /\ B # Q /\ B # P /\ P # Q
      /\ C[1] = "config" /\ T[1] = "tmp" /\ U[1] = "full.tmp" /\ B[1] = "backup"
      /\ Q[1] = "pid.tmp" /\ P[1] = "pid"
  BY <1>2, EpochNames DEF Kinds
<1>4. /\ n.epoch = e /\ n.cur = m.cur /\ n.conf = v /\ n.alloc = m.alloc
  BY DEF Runs, Advances
<1> HIDE DEF e, v, C, T, U, B, Q, P
<1>c1. CASE m.at = 1
  <2>1. CallOf(m) = Do("kill", P)
    BY <1>1, <1>c1, RollbackCalls DEF CallOf, e, v, C, T, U, B, Q, P
  <2>2. Call(Do("kill", P)) /\ n.at = 2 /\ n.durable = m.durable
    BY <1>1, <1>c1, <2>1, PlainCall DEF Do
  <2>4. StoreSound' /\ OnlyAt({P})
    BY <1>2, <1>3, <2>2, KillKeeps DEF P
  <2> QED BY <1>1, <1>2, <1>3, <1>4, <1>c1, <2>2, <2>4
         DEF RollbackAt, Current, Complete, Safe, StoreHolds, OnlyAt, Same, e, v, C, T, U, B, Q, P
<1>c2. CASE m.at = 2
  <2>1. CallOf(m) = Do("create", T)
    BY <1>1, <1>c2, RollbackCalls DEF CallOf, e, v, C, T, U, B, Q, P
  <2>2. Call(Do("create", T)) /\ n.at = 3 /\ n.durable = m.durable
    BY <1>1, <1>c2, <2>1, PlainCall DEF Do
  <2>4. StoreSound' /\ OnlyAt({T}) /\ core' = core
    BY <1>2, <1>3, <2>2, CreateKeeps DEF Staging
  <2> QED BY <1>1, <1>2, <1>3, <1>4, <1>c2, <2>2, <2>4
         DEF RollbackAt, Current, Complete, Safe, StoreHolds, OnlyAt, Same, e, v, C, T, U, B, Q, P
<1>c3. CASE m.at = 3
  <2>1. CallOf(m) = To("copy", T, B)
    BY <1>1, <1>c3, RollbackCalls DEF CallOf, e, v, C, T, U, B, Q, P
  <2>2. Call(To("copy", T, B)) /\ n.at = 4 /\ n.durable = m.durable
    BY <1>1, <1>c3, <2>1, PlainCall DEF To
  <2>3. disk[B] = v
    BY <1>1, <1>2, <1>c3 DEF RollbackAt, Complete, Safe, StoreHolds, e, v, C, T, U, B, Q, P
  <2>4. StoreSound' /\ OnlyAt({T}) /\ core' = core /\ Complete(T, v)'
    BY <1>2, <1>3, <2>2, <2>3, StoreCopyKeeps DEF Staging
  <2> QED BY <1>1, <1>2, <1>3, <1>4, <1>c3, <2>2, <2>4
         DEF RollbackAt, Current, Complete, Safe, StoreHolds, OnlyAt, Same, e, v, C, T, U, B, Q, P
<1>c4. CASE m.at = 4
  <2>1. CallOf(m) = To("rename", T, C)
    BY <1>1, <1>c4, RollbackCalls DEF CallOf, e, v, C, T, U, B, Q, P
  <2>2. Call(To("rename", T, C)) /\ n.at = 5 /\ ~n.durable
    BY <1>1, <1>c4, <2>1, ReplacingCall DEF To
  <2>3. Complete(T, v)
    BY <1>1, <1>2, <1>c4 DEF RollbackAt, Complete, Safe, StoreHolds, e, v, C, T, U, B, Q, P
  <2>4. StoreSound' /\ OnlyAt({T, C}) /\ core' = core /\ disk'[C] = v
    BY <1>2, <1>3, <2>2, <2>3, RenameKeeps DEF Staging, Complete
  <2> QED BY <1>1, <1>2, <1>3, <1>4, <1>c4, <2>2, <2>4
         DEF RollbackAt, Current, Complete, Safe, StoreHolds, OnlyAt, Same, e, v, C, T, U, B, Q, P
<1>c5. CASE m.at = 5
  <2>1. CallOf(m) = Do("trysync", C)
    BY <1>1, <1>c5, RollbackCalls DEF CallOf, e, v, C, T, U, B, Q, P
  <2>2. Call(Do("trysync", C)) /\ n.at = 6 /\ n.durable
    BY <1>1, <1>c5, <2>1, ReplacingCall DEF Do
  <2>4. /\ StoreSound' /\ core' = core /\ disk' = disk
        /\ \A g \in Files : g[1] # "controller" => stable'[g] = {disk[g]}
    BY <1>2, <1>3, <2>2, SyncKeeps
  <2> QED BY <1>1, <1>2, <1>3, <1>4, <1>c5, <2>2, <2>4
         DEF RollbackAt, Current, Complete, Safe, StoreHolds, OnlyAt, Same, e, v, C, T, U, B, Q, P
<1>c6. CASE m.at = 6
  <2>1. CallOf(m) = Do("reap", P)
    BY <1>1, <1>c6, RollbackCalls DEF CallOf, e, v, C, T, U, B, Q, P
  <2>2. Call(Do("reap", P)) /\ n.at = 7 /\ n.durable = m.durable
    BY <1>1, <1>c6, <2>1, PlainCall DEF Do
  <2>4. StoreSound' /\ OnlyAt({P})
    BY <1>2, <1>3, <2>2, ReapKeeps DEF P
  <2> QED BY <1>1, <1>2, <1>3, <1>4, <1>c6, <2>2, <2>4
         DEF RollbackAt, Current, Complete, Safe, StoreHolds, OnlyAt, Same, e, v, C, T, U, B, Q, P
<1>c7. CASE m.at = 7
  <2>1. CallOf(m) = Do("spawn", C)
    BY <1>1, <1>c7, RollbackCalls DEF CallOf, e, v, C, T, U, B, Q, P
  <2>2. Call(Do("spawn", C)) /\ n.at = 8 /\ n.durable = m.durable
    BY <1>1, <1>c7, <2>1, PlainCall DEF Do
  <2>3. disk[C] # Gone
    BY <1>1, <1>2, <1>c7 DEF RollbackAt, Complete, Safe, StoreHolds, e, v, C, T, U, B, Q, P
  <2>4. /\ StoreSound' /\ core'[e] = "alive"
        /\ \A g \in Files : g[1] \notin {"sock", "controller"} => Same(g)
    BY <1>2, <1>3, <2>2, <2>3, SpawnKeeps DEF C
  <2> QED BY <1>1, <1>2, <1>3, <1>4, <1>c7, <2>2, <2>4
         DEF RollbackAt, Current, Complete, Safe, StoreHolds, OnlyAt, Same, e, v, C, T, U, B, Q, P
<1>c8. CASE m.at = 8
  <2>1. CallOf(m) = Do("create", Q)
    BY <1>1, <1>c8, RollbackCalls DEF CallOf, e, v, C, T, U, B, Q, P
  <2>2. Call(Do("create", Q)) /\ n.at = 9 /\ n.durable = m.durable
    BY <1>1, <1>c8, <2>1, PlainCall DEF Do
  <2>4. StoreSound' /\ OnlyAt({Q}) /\ core' = core
    BY <1>2, <1>3, <2>2, CreateKeeps DEF Staging
  <2> QED BY <1>1, <1>2, <1>3, <1>4, <1>c8, <2>2, <2>4
         DEF RollbackAt, Current, Complete, Safe, StoreHolds, OnlyAt, Same, e, v, C, T, U, B, Q, P
<1>c9. CASE m.at = 9
  <2>1. CallOf(m) = Fill(Q, Rec)
    BY <1>1, <1>c9, RollbackCalls DEF CallOf, e, v, C, T, U, B, Q, P
  <2>2. Call(Fill(Q, Rec)) /\ n.at = 10 /\ n.durable = m.durable
    BY <1>1, <1>c9, <2>1, PlainCall DEF Fill
  <2>4. StoreSound' /\ OnlyAt({Q}) /\ core' = core /\ Complete(Q, Rec)'
    BY <1>2, <1>3, <2>2, FillKeeps DEF Staging, Rec, Torn, Values
  <2> QED BY <1>1, <1>2, <1>3, <1>4, <1>c9, <2>2, <2>4
         DEF RollbackAt, Current, Complete, Safe, StoreHolds, OnlyAt, Same, e, v, C, T, U, B, Q, P
<1>c10. CASE m.at = 10
  <2>1. CallOf(m) = To("link", Q, P)
    BY <1>1, <1>c10, RollbackCalls DEF CallOf, e, v, C, T, U, B, Q, P
  <2>2. Call(To("link", Q, P)) /\ n.at = 11 /\ n.durable = m.durable
    BY <1>1, <1>c10, <2>1, PlainCall DEF To
  <2>3. Complete(Q, Rec)
    BY <1>1, <1>2, <1>c10 DEF RollbackAt, Complete, Safe, StoreHolds, e, v, C, T, U, B, Q, P
  <2>4. StoreSound' /\ OnlyAt({P}) /\ core' = core /\ disk'[P] = Rec
    BY <1>2, <1>3, <2>2, <2>3, LinkKeeps DEF Complete
  <2> QED BY <1>1, <1>2, <1>3, <1>4, <1>c10, <2>2, <2>4
         DEF RollbackAt, Current, Complete, Safe, StoreHolds, OnlyAt, Same, e, v, C, T, U, B, Q, P
<1>c11. CASE m.at = 11
  <2>1. CallOf(m) = Do("unlink", Q)
    BY <1>1, <1>c11, RollbackCalls DEF CallOf, e, v, C, T, U, B, Q, P
  <2>2. Call(Do("unlink", Q)) /\ n.at = 12 /\ n.durable = m.durable
    BY <1>1, <1>c11, <2>1, PlainCall DEF Do
  <2>4. StoreSound' /\ OnlyAt({Q}) /\ core' = core
    BY <1>2, <1>3, <2>2, UnlinkKeeps DEF Staging
  <2> QED BY <1>1, <1>2, <1>3, <1>4, <1>c11, <2>2, <2>4
         DEF RollbackAt, Current, Complete, Safe, StoreHolds, OnlyAt, Same, e, v, C, T, U, B, Q, P
<1> QED BY <1>1, <1>c1, <1>c2, <1>c3, <1>c4, <1>c5, <1>c6, <1>c7, <1>c8, <1>c9, <1>c10, <1>c11

(* The removal of a backup touches nothing the current core needs.         *)
LEMMA DropRuns ==
  ASSUME StoreSound, NEW m, NEW n, m.op = "drop", Current(m), StoreHolds(m, m.conf),
         core[m.epoch] = "alive", Runs(m, n)
  PROVE  StoreSound' /\ n.at <= 2 /\ Current(n) /\ StoreHolds(n, n.conf)' /\ core'[n.epoch] = "alive"
<1> DEFINE e == m.epoch
           B == File("backup", e)
           C == File("config", e)
<1>0. m \in DaemonStates /\ Len(Script(m)) = 1 /\ m.at \in 1 .. Len(Script(m))
  BY DropCalls DEF Runs, Advances
<1>1. m \in DaemonStates /\ m.at = 1
  BY <1>0
<1>2. e \in EpochNumbers
  BY <1>1, DaemonFields DEF Current, EpochNumbers
<1>3. B \in Files /\ C \in Files /\ B # C /\ B[1] = "backup"
  BY <1>2, EpochNames DEF Kinds
<1>4. CallOf(m) = Do("unlink", B)
  BY <1>1, DropCalls DEF CallOf
<1> HIDE DEF B
<1>5. Call(Do("unlink", B)) /\ n.at = 2 /\ n.durable = m.durable
  BY <1>1, <1>4, PlainCall DEF Do
<1>6. StoreSound' /\ OnlyAt({B}) /\ core' = core
  BY <1>3, <1>5, UnlinkKeeps
<1>7. n.epoch = e /\ n.cur = m.cur /\ n.conf = m.conf /\ n.alloc = m.alloc
  BY DEF Runs, Advances
<1> QED BY <1>3, <1>5, <1>6, <1>7 DEF Current, StoreHolds, OnlyAt, Same

(* A discarded epoch is stopped and cleared.                               *)
LEMMA DiscardRuns ==
  ASSUME StoreSound, NEW m, NEW n, m.op = "discard", m.epoch # 0, m.cur = 0, Runs(m, n)
  PROVE  StoreSound' /\ n.epoch # 0 /\ n.cur = 0 /\ n.at <= 4
<1> DEFINE e == m.epoch
           P == File("pid", e)
           C == File("config", e)
<1>1. m \in DaemonStates /\ Len(Script(m)) = 3 /\ m.at \in 1 .. 3 /\ Call(CallOf(m))
  BY DiscardCalls DEF Runs, Advances
<1>2. e \in EpochNumbers
  BY <1>1, DaemonFields DEF EpochNumbers
<1>3. n.epoch = e /\ n.cur = 0 /\ n.at <= 4
  BY <1>1 DEF Runs, Advances
<1>4. CASE m.at = 1
  <2>1. CallOf(m) = Do("kill", P)
    BY <1>1, <1>4, DiscardCalls DEF CallOf
  <2> QED BY <1>1, <1>2, <1>3, <2>1, KillKeeps
<1>5. CASE m.at = 2
  <2>1. CallOf(m) = Do("clear", C)
    BY <1>1, <1>5, DiscardCalls DEF CallOf
  <2> QED BY <1>1, <1>2, <1>3, <2>1, ClearKeeps
<1>6. CASE m.at = 3
  <2>1. CallOf(m) = Do("sync", C)
    BY <1>1, <1>6, DiscardCalls DEF CallOf
  <2> QED BY <1>1, <1>2, <1>3, <2>1, SyncKeeps
<1> QED BY <1>1, <1>4, <1>5, <1>6

(* A swept epoch loses its recorded process first, then its files.         *)
LEMMA SweepRuns ==
  ASSUME StoreSound, AllRecorded, NEW m, NEW n, m.op = "sweep", SweepAt(m), Runs(m, n)
  PROVE  StoreSound' /\ AllRecorded' /\ SweepAt(n)'
<1> DEFINE e == m.epoch
           P == File("pid", e)
           C == File("config", e)
<1>1. m \in DaemonStates /\ Len(Script(m)) = 3 /\ m.at \in 1 .. 3 /\ Call(CallOf(m))
  BY SweepCalls DEF Runs, Advances
<1>2. e \in EpochNumbers /\ e # 0 /\ m.cur = 0
  BY <1>1, DaemonFields DEF EpochNumbers, SweepAt
<1>3. n.epoch = e /\ n.cur = 0 /\ n.todo = m.todo
  BY <1>2 DEF Runs, Advances
<1>4. /\ \A x \in EpochNumbers : \A f \in Artifacts(x) : f \in Files /\ f[2] = x
      /\ \A x \in EpochNumbers : File("pid", x) \in Artifacts(x)
  BY FileNames DEF Artifacts, Kinds
<1>5. CASE m.at = 1
  <2>1. CallOf(m) = Do("reap", P)
    BY <1>1, <1>5, SweepCalls DEF CallOf
  <2>2. n.at = 2
    BY <1>5, <2>1, PlainCall DEF Do
  <2>3. /\ StoreSound' /\ OnlyAt({P})
        /\ \A x \in EpochNumbers \ {e} : core'[x] = core[x]
        /\ disk[P] # Gone => core'[e] # "alive"
        /\ core[e] # "alive" => core'[e] # "alive"
    BY <1>1, <1>2, <2>1, ReapKeeps
  <2>4. core'[e] # "alive"
    BY <1>2, <2>3 DEF AllRecorded
  <2>5. \A x \in EpochNumbers \ {e} : core'[x] = core[x] /\ \A f \in Artifacts(x) : disk'[f] = disk[f]
    BY <1>2, <1>4, <2>3, FileNames DEF OnlyAt, Same
  <2>6. AllRecorded'
    BY <1>4, <2>4, <2>5 DEF AllRecorded
  <2> QED BY <1>2, <1>3, <2>2, <2>3, <2>4, <2>5, <2>6 DEF SweepAt, StoreClean
<1>6. CASE m.at = 2
  <2>1. CallOf(m) = Do("clear", C)
    BY <1>1, <1>6, SweepCalls DEF CallOf
  <2>2. /\ StoreSound' /\ core' = core
        /\ \A f \in Files : f[2] # e => Same(f)
        /\ \A f \in Files : disk'[f] = disk[f] \/ disk'[f] = Gone
        /\ Left(disk', e) = {} => \A f \in Artifacts(e) : disk'[f] = Gone
    BY <1>1, <1>2, <2>1, ClearKeeps
  <2>3. n.at \in {2, 3} /\ (n.at = 3 => Left(disk', e) = {})
    BY <1>2, <1>6, <2>1, FileNames DEF Runs, Advances, Do
  <2>4. core[e] # "alive"
    BY <1>6 DEF SweepAt
  <2>5. AllRecorded'
    BY <1>4, <2>2, <2>4 DEF AllRecorded, Same
  <2>6. \A x \in EpochNumbers : StoreClean(x) => StoreClean(x)'
    BY <1>4, <2>2 DEF StoreClean
  <2>7. n.at = 3 => StoreClean(e)'
    BY <1>2, <2>2, <2>3, <2>4 DEF StoreClean
  <2> QED BY <1>2, <1>3, <2>2, <2>3, <2>4, <2>5, <2>6, <2>7 DEF SweepAt, StoreClean
<1>7. CASE m.at = 3
  <2>1. CallOf(m) = Do("sync", C)
    BY <1>1, <1>7, SweepCalls DEF CallOf
  <2>2. n.at = 4
    BY <1>7, <2>1, PlainCall DEF Do
  <2>3. StoreSound' /\ core' = core /\ disk' = disk
    BY <1>1, <1>2, <2>1, SyncKeeps
  <2> QED BY <1>2, <1>3, <1>7, <2>2, <2>3 DEF SweepAt, StoreClean, AllRecorded
<1> QED BY <1>1, <1>5, <1>6, <1>7

(* A step of the daemon that is up, whatever it runs.                      *)
LEMMA StepKeeps ==
  ASSUME StoreIInv, NEW d \in Daemons, Step(d)
  PROVE  StoreIInv'
<1>1. /\ dm[d].pc = "up" /\ ~dm[d].fresh /\ Stands(dm[d]) /\ Becomes(d) /\ Runs(dm[d], dm'[d])
      /\ StoreSound
  BY StepIs DEF StoreIInv
<1>2. dm'[d].op = dm[d].op /\ ~dm'[d].fresh /\ dm'[d].pc = "up" /\ dm[d].op \in StoreOps
  BY <1>1, DaemonFields DEF Runs, Advances
<1>3. dm[d].op \notin {"sweep", "scan"} => Recorded'
  BY <1>2 DEF Recorded
<1> DEFINE Goal == StoreSound' /\ Recorded' /\ Stands(dm[d])'
<1>4. ASSUME dm[d].op = "launch" PROVE Goal
  <2>1. StoreSound' /\ LaunchAt(dm[d])'
    BY <1>1, <1>4, LaunchRuns DEF Stands
  <2> QED BY <1>2, <1>3, <1>4, <2>1 DEF Stands
<1>5. ASSUME dm[d].op = "apply" PROVE Goal
  <2>1. StoreSound' /\ ApplyAt(dm[d])'
    BY <1>1, <1>5, ApplyRuns DEF Stands
  <2> QED BY <1>2, <1>3, <1>5, <2>1 DEF Stands
<1>6. ASSUME dm[d].op = "restart" PROVE Goal
  <2>1. StoreSound' /\ RestartAt(dm[d])'
    BY <1>1, <1>6, RestartRuns DEF Stands
  <2> QED BY <1>2, <1>3, <1>6, <2>1 DEF Stands
<1>7. ASSUME dm[d].op = "rollback" PROVE Goal
  <2>1. StoreSound' /\ RollbackAt(dm[d])'
    BY <1>1, <1>7, RollbackRuns DEF Stands
  <2> QED BY <1>2, <1>3, <1>7, <2>1 DEF Stands
<1>8. ASSUME dm[d].op = "discard" PROVE Goal
  <2>1. StoreSound' /\ dm'[d].epoch # 0 /\ dm'[d].cur = 0 /\ dm'[d].at <= 4
    BY <1>1, <1>8, DiscardRuns DEF Stands
  <2> QED BY <1>2, <1>3, <1>8, <2>1 DEF Stands
<1>9. ASSUME dm[d].op = "drop" PROVE Goal
  <2>1. /\ StoreSound' /\ dm'[d].at <= 2 /\ Current(dm[d])' /\ StoreHolds(dm[d], dm[d].conf)'
        /\ core'[dm'[d].epoch] = "alive"
    BY <1>1, <1>9, DropRuns DEF Stands, Current, StoreHolds
  <2> QED BY <1>2, <1>3, <1>9, <2>1 DEF Stands
<1>10. ASSUME dm[d].op = "sweep" PROVE Goal
  <2>1. AllRecorded
    BY <1>1, <1>10, DaemonFields DEF StoreIInv, Recorded, StoreLocked, Down, DaemonsOK
  <2>2. StoreSound' /\ AllRecorded' /\ SweepAt(dm[d])'
    BY <1>1, <1>10, <2>1, SweepRuns DEF Stands
  <2>3. Recorded'
    BY <2>2 DEF Recorded
  <2> QED BY <1>2, <1>10, <2>2, <2>3 DEF Stands
<1>11. dm[d].op \notin {"none", "scan"}
  BY <1>1, NoCalls DEF Runs
<1>12. Goal
  BY <1>2, <1>4, <1>5, <1>6, <1>7, <1>8, <1>9, <1>10, <1>11 DEF StoreOps
<1> QED BY <1>1, <1>12, Moves

(***************************************************************************)
(* What the daemon decides between its scripts                             *)
(***************************************************************************)
(* A nonempty set of numbers has a least one.                              *)
LEMMA LeastOf ==
  ASSUME NEW S \in SUBSET Nat, S # {}
  PROVE  \E n \in S : \A m \in S : n <= m
<1>1. PICK n \in S : \A m \in S : <<m, n>> \notin OpToRel(<, Nat)
  BY NatLessThanWellFounded, WFMin
<1>2. \A m \in S : ~(m < n)
  BY <1>1 DEF OpToRel
<1> QED BY <1>2

(* The least of some epochs is one of them.                                *)
LEMMA MinIn ==
  ASSUME NEW S \in SUBSET EpochNumbers, S # {}
  PROVE  Min(S) \in S
<1>1. S \in SUBSET Nat
  BY StoreAssumption DEF EpochNumbers
<1>2. \E n \in S : \A m \in S : n <= m
  BY <1>1, LeastOf
<1> QED BY <1>2 DEF Min

(* The number a boot allocates from is one it found, or zero.              *)
LEMMA MaxIn ==
  ASSUME NEW S \in SUBSET EpochNumbers
  PROVE  Max(S \union {0}) \in 0 .. MaxEpoch
<1> DEFINE U == S \union {0}
           R == {MaxEpoch - x : x \in U}
<1>1. U \in SUBSET (0 .. MaxEpoch) /\ MaxEpoch \in Nat
  BY StoreAssumption DEF EpochNumbers
<1>2. R \in SUBSET Nat /\ R # {}
  BY <1>1
<1>3. PICK r \in R : \A y \in R : r <= y
  BY <1>2, LeastOf
<1>4. PICK n \in U : r = MaxEpoch - n
  BY <1>3
<1>5. \A y \in U : n >= y
  BY <1>1, <1>3, <1>4
<1>6. Max(U) \in U
  BY <1>5 DEF Max
<1> QED BY <1>1, <1>6

(* Nothing on the disk moves and no process: what held still does.         *)
LEMMA StoreQuiet ==
  ASSUME NEW n, UNCHANGED <<disk, stable, core>>
  PROVE  (StoreSound => StoreSound') /\ (AllRecorded => AllRecorded') /\ (Stands(n) => Stands(n)')
<1>1. StoreSound => StoreSound'
  BY DEF StoreSound, DiskOK, NeverTorn, SocketNamed
<1>2. AllRecorded => AllRecorded'
  BY DEF AllRecorded
<1>3. Stands(n) => Stands(n)'
  BY DEF Stands, LaunchAt, ApplyAt, RestartAt, RollbackAt, SweepAt, StoreClean, Current, StoreHolds, Safe, Complete
<1> QED BY <1>1, <1>2, <1>3

(* The daemon that is up comes to state n.                                 *)
LEMMA MovesTo ==
  ASSUME StoreIInv, NEW d \in Daemons, dm[d].pc = "up", NEW n \in DaemonStates, n.pc = "up",
         dm' = [dm EXCEPT ![d] = n], owner' = owner, faults' \in Nat, StoreSound', Stands(n)',
         n.op \in {"scan", "sweep"} => AllRecorded'
  PROVE  StoreIInv'
<1>1. dm \in [Daemons -> DaemonStates]
  BY DEF StoreIInv, DaemonsOK
<1>2. dm' \in [Daemons -> DaemonStates] /\ dm'[d] = n /\ \A x \in Daemons \ {d} : dm'[x] = dm[x]
  BY <1>1
<1>3. Becomes(d)
  BY <1>2 DEF Becomes
<1>4. Recorded'
  BY <1>2 DEF Recorded
<1>5. Stands(dm[d])'
  BY <1>2
<1> QED BY <1>3, <1>4, <1>5, Moves

(* The same, with the disk and the processes as they were.                 *)
LEMMA MovesQuietly ==
  ASSUME StoreIInv, NEW d \in Daemons, dm[d].pc = "up", NEW n \in DaemonStates, n.pc = "up",
         dm' = [dm EXCEPT ![d] = n], owner' = owner, faults' \in Nat,
         UNCHANGED <<disk, stable, core>>, Stands(n), n.op \in {"scan", "sweep"} => AllRecorded
  PROVE  StoreIInv'
BY MovesTo, StoreQuiet DEF StoreIInv

(* What is known of the daemon d when it is not down.                      *)
LEMMA UpFacts ==
  ASSUME StoreIInv, NEW d \in Daemons, dm[d].pc = "up" \/ dm[d].op # "none"
  PROVE  /\ dm[d] \in DaemonStates /\ dm[d].pc = "up" /\ Stands(dm[d]) /\ faults \in Nat
         /\ owner = d /\ \A x \in Daemons \ {d} : dm[x] = Down
         /\ dm[d].op # "none" \/ dm[d].cur # 0 => ~dm[d].fresh
<1>1. dm[d] \in DaemonStates /\ faults \in Nat /\ \A x \in Daemons : dm[x] \in DaemonStates
  BY DEF StoreIInv, DaemonsOK
<1>2. dm[d].pc = "up"
  BY <1>1, DaemonFields DEF StoreIInv, StoreLocked, Down
<1>3. owner = d /\ \A x \in Daemons \ {d} : dm[x] = Down
  BY <1>2 DEF StoreIInv, StoreLocked
<1>4. Stands(dm[d])
  BY <1>2 DEF StoreIInv
<1>5. dm[d].op # "none" \/ dm[d].cur # 0 => ~dm[d].fresh
  BY <1>4 DEF Stands
<1> QED BY <1>1, <1>2, <1>3, <1>4, <1>5

(* sweep_orphans: the next number, or the boot is through.                 *)
LEMMA SweepNextKeeps ==
  ASSUME StoreIInv, NEW d \in Daemons, SweepNext(d)
  PROVE  StoreIInv'
<1> DEFINE m == dm[d]
<1>1. /\ m.op \in {"scan", "sweep"} /\ m.at > Len(Script(m))
      /\ UNCHANGED <<disk, stable, core>> /\ owner' = owner /\ faults' = faults
  BY DEF SweepNext, Ended
<1>2. /\ m \in DaemonStates /\ m.pc = "up" /\ Stands(m) /\ faults \in Nat /\ m.cur = 0
      /\ \A x \in Daemons \ {d} : dm[x].pc = "down"
  BY <1>1, UpFacts DEF Down, Stands, SweepAt
<1>3. AllRecorded
  BY <1>1, <1>2 DEF StoreIInv, Recorded
<1>4. \A x \in EpochNumbers : StoreClean(x) \/ x \in m.todo
  <2>1. CASE m.op = "scan"
    BY <1>2, <2>1 DEF Stands
  <2>2. CASE m.op = "sweep"
    <3>1. m.at > 3
      BY <1>1, <2>2, SweepCalls
    <3> QED BY <1>2, <2>2, <3>1, DaemonFields DEF Stands, SweepAt
  <2> QED BY <1>1, <2>1, <2>2
<1>5. m.todo \in SUBSET EpochNumbers
  BY <1>2, DaemonFields
<1>6. CASE m.todo = {}
  <2>1. PICK n : n = [m EXCEPT !.op = "none", !.at = 1, !.epoch = 0, !.fresh = TRUE]
    OBVIOUS
  <2>2. n.pc = m.pc /\ n.op = "none" /\ n.cur = m.cur
    BY <1>2, <2>1 DEF DaemonStates
  <2>5. "none" \in StoreOps /\ 1 \in 1 .. 12 /\ 0 \in 0 .. MaxEpoch /\ TRUE \in BOOLEAN
    BY StoreAssumption DEF StoreOps
  <2>6. n \in DaemonStates
    BY <1>2, <2>1, <2>5 DEF DaemonStates
  <2>3. dm' = [dm EXCEPT ![d] = n]
    BY <1>6, <2>1 DEF SweepNext
  <2>4. Stands(n)
    BY <1>2, <1>4, <1>6, <2>2 DEF Stands
  <2> QED BY <1>1, <1>2, <2>2, <2>3, <2>4, <2>6, MovesQuietly
<1>7. CASE m.todo # {}
  <2>0. PICK e \in m.todo : e = Min(m.todo)
    BY <1>5, <1>7, MinIn
  <2>1. PICK n : n = [m EXCEPT !.op = "sweep", !.at = 1, !.epoch = e, !.todo = @ \ {e}]
    OBVIOUS
  <2>5. e \in 1 .. MaxEpoch /\ e \in 0 .. MaxEpoch /\ m.todo \ {e} \in SUBSET EpochNumbers
    BY <1>5, <2>0, StoreAssumption DEF EpochNumbers
  <2>2. /\ n.pc = m.pc /\ n.op = "sweep" /\ n.cur = m.cur /\ n.epoch = e
        /\ n.todo = m.todo \ {e} /\ n.at = 1 /\ n.fresh = m.fresh
    BY <1>2, <2>1 DEF DaemonStates
  <2>6. "sweep" \in StoreOps /\ 1 \in 1 .. 12
    BY DEF StoreOps
  <2>7. n \in DaemonStates
    BY <1>2, <2>1, <2>5, <2>6 DEF DaemonStates
  <2>3. dm' = [dm EXCEPT ![d] = n]
    BY <1>7, <2>0, <2>1 DEF SweepNext
  <2>4. Stands(n)
    BY <1>1, <1>2, <1>4, <2>2, <2>5, UpFacts DEF Stands, SweepAt
  <2> QED BY <1>1, <1>2, <1>3, <2>2, <2>3, <2>4, <2>7, MovesQuietly
<1> QED BY <1>6, <1>7

(* Start: a new number, and nothing to keep yet.                           *)
LEMMA LaunchKeeps ==
  ASSUME StoreIInv, NEW d \in Daemons, NEW v \in Contents, Launch(d, v)
  PROVE  StoreIInv'
<1> DEFINE m == dm[d]
<1>1. /\ m.pc = "up" /\ m.cur = 0 /\ m.alloc < MaxEpoch
      /\ UNCHANGED <<disk, stable, core>> /\ owner' = owner /\ faults' = faults
  BY DEF Launch, Ready
<1>2. m \in DaemonStates /\ faults \in Nat
  BY <1>1, UpFacts
<1>3. PICK e : e = m.alloc + 1
  OBVIOUS
<1>4. e \in 1 .. MaxEpoch /\ e # 0 /\ e <= e
  BY <1>1, <1>2, <1>3, DaemonFields, StoreAssumption
<1>5. PICK n : n = [m EXCEPT !.op = "launch", !.at = 1, !.alloc = e, !.epoch = e, !.conf = v,
                            !.fresh = FALSE, !.durable = TRUE]
  OBVIOUS
<1>6. /\ n.pc = m.pc /\ n.op = "launch" /\ n.cur = m.cur /\ n.epoch = e
      /\ n.alloc = e /\ n.conf = v /\ n.at = 1 /\ n.fresh = FALSE /\ n.durable = TRUE
  BY <1>2, <1>5 DEF DaemonStates
<1>9. /\ "launch" \in StoreOps /\ 1 \in 1 .. 12 /\ e \in 0 .. MaxEpoch /\ v \in MaybeContents
      /\ FALSE \in BOOLEAN /\ TRUE \in BOOLEAN
  BY <1>4 DEF StoreOps, MaybeContents
<1>10. n \in DaemonStates
  BY <1>2, <1>5, <1>9 DEF DaemonStates
<1>7. dm' = [dm EXCEPT ![d] = n]
  BY <1>3, <1>5 DEF Launch
<1>8. Stands(n)
  BY <1>1, <1>4, <1>6 DEF Stands, LaunchAt
<1> QED BY <1>1, <1>2, <1>6, <1>7, <1>8, <1>10, MovesQuietly

(* A script that has ended stands past its last call.                      *)
LEMMA EndedPast ==
  ASSUME NEW m \in DaemonStates, m.at > Len(Script(m))
  PROVE  /\ m.op = "launch" => m.at = 12
         /\ m.op = "apply" => m.at >= 10
         /\ m.op = "restart" => m.at >= 8
         /\ m.op = "rollback" => m.at = 12
<1> DEFINE k == m.at
           l == Len(Script(m))
<1>1. k \in 1 .. 12 /\ k > l
  BY DaemonFields
<1>2. /\ m.op = "launch" => l = 11
      /\ m.op = "apply" => l = 9
      /\ m.op = "restart" => l = 7
      /\ m.op = "rollback" => l = 11
  BY LaunchCalls, ApplyCalls, RestartCalls, RollbackCalls
<1> HIDE DEF k, l
<1>3. (l = 11 => k = 12) /\ (l = 9 => k >= 10) /\ (l = 7 => k >= 8)
  BY <1>1
<1> QED BY <1>2, <1>3, Zenon DEF k

(* Which operation a daemon may enter, and where.                          *)
LEMMA Entries ==
  /\ "none" \in StoreOps /\ "drop" \in StoreOps /\ "restart" \in StoreOps /\ "rollback" \in StoreOps
  /\ "discard" \in StoreOps /\ "apply" \in StoreOps
  /\ 1 \in 1 .. 12 /\ 2 \in 1 .. 12 /\ 0 \in 0 .. MaxEpoch /\ MaxEpoch \in Nat
BY StoreAssumption DEF StoreOps

(* Start succeeded: the new epoch is the current one.                      *)
LEMMA LaunchedKeeps ==
  ASSUME StoreIInv, NEW d \in Daemons, Launched(d)
  PROVE  StoreIInv'
<1> DEFINE m == dm[d]
<1>1. /\ m.op = "launch" /\ m.at > Len(Script(m))
      /\ UNCHANGED <<disk, stable, core>> /\ owner' = owner /\ faults' = faults
  BY DEF Launched, Ended
<1>2. /\ m \in DaemonStates /\ m.pc = "up" /\ Stands(m) /\ faults \in Nat
      /\ m.op # "none" \/ m.cur # 0 => ~m.fresh
  BY <1>1, UpFacts
<1>3. m.epoch \in EpochNumbers /\ LaunchAt(m) /\ m.at = 12 /\ m.epoch \in 0 .. MaxEpoch
  BY <1>1, <1>2, EndedPast, DaemonFields DEF Stands, LaunchAt, EpochNumbers
<1>4. PICK n : n = [m EXCEPT !.op = "none", !.at = 1, !.cur = m.epoch]
  OBVIOUS
<1>5. dm' = [dm EXCEPT ![d] = n]
  BY <1>4 DEF Launched, Ended
<1>6a. n \in DaemonStates
  BY <1>2, <1>3, <1>4, Entries DEF DaemonStates
<1>6. /\ n.pc = m.pc /\ n.op = "none" /\ n.cur = m.epoch /\ n.epoch = m.epoch
      /\ n.conf = m.conf /\ n.alloc = m.alloc /\ n.fresh = m.fresh
  BY <1>2, <1>3, <1>4 DEF DaemonStates
<1>7. Stands(n)
  BY <1>1, <1>2, <1>3, <1>6 DEF Stands, LaunchAt, Safe, Current, StoreHolds
<1> QED BY <1>1, <1>2, <1>5, <1>6, <1>6a, <1>7, MovesQuietly

(* stop, shutdown: the epoch is given up.                                  *)
LEMMA StopKeeps ==
  ASSUME StoreIInv, NEW d \in Daemons, Stop(d)
  PROVE  StoreIInv'
<1> DEFINE m == dm[d]
<1>1. /\ m.pc = "up" /\ m.cur # 0 /\ m.op = "none"
      /\ UNCHANGED <<disk, stable, core>> /\ owner' = owner /\ faults' = faults
  BY DEF Stop, Ready
<1>2. /\ m \in DaemonStates /\ m.pc = "up" /\ Stands(m) /\ faults \in Nat
      /\ m.op # "none" \/ m.cur # 0 => ~m.fresh
  BY <1>1, UpFacts
<1>3. m.op = "none" /\ Current(m)
  BY <1>1, <1>2 DEF Stands
<1>4. PICK n : n = [m EXCEPT !.op = "discard", !.at = 1, !.cur = 0]
  OBVIOUS
<1>5. dm' = [dm EXCEPT ![d] = n]
  BY <1>4 DEF Stop, Ready
<1>6a. n \in DaemonStates
  BY <1>2, <1>3, <1>4, Entries DEF DaemonStates
<1>6. /\ n.pc = m.pc /\ n.op = "discard" /\ n.cur = 0 /\ n.at = 1
      /\ n.epoch = m.epoch /\ n.fresh = m.fresh
  BY <1>2, <1>3, <1>4 DEF DaemonStates
<1>7. Stands(n)
  BY <1>1, <1>2, <1>3, <1>6 DEF Stands, Current
<1> QED BY <1>1, <1>2, <1>5, <1>6, <1>6a, <1>7, MovesQuietly

(* apply: the plan before is what a rejected one goes back to.             *)
LEMMA ApplyKeeps ==
  ASSUME StoreIInv, NEW d \in Daemons, NEW v \in Contents, Apply(d, v)
  PROVE  StoreIInv'
<1> DEFINE m == dm[d]
<1>1. /\ m.pc = "up" /\ m.cur # 0 /\ m.op = "none"
      /\ UNCHANGED <<disk, stable, core>> /\ owner' = owner /\ faults' = faults
  BY DEF Apply, Ready
<1>2. /\ m \in DaemonStates /\ m.pc = "up" /\ Stands(m) /\ faults \in Nat
      /\ m.op # "none" \/ m.cur # 0 => ~m.fresh
  BY <1>1, UpFacts
<1>3. /\ Current(m) /\ StoreHolds(m, m.conf) /\ core[m.epoch] = "alive"
      /\ m.conf \in MaybeContents /\ v \in MaybeContents
  BY <1>1, <1>2 DEF Stands, Current, MaybeContents
<1>4. PICK n : n = [m EXCEPT !.op = "apply", !.at = 1, !.old = m.conf, !.conf = v]
  OBVIOUS
<1>5. dm' = [dm EXCEPT ![d] = n]
  BY <1>4 DEF Apply, Ready
<1>6a. n \in DaemonStates
  BY <1>2, <1>3, <1>4, Entries DEF DaemonStates
<1>6. /\ n.pc = m.pc /\ n.op = "apply" /\ n.cur = m.cur /\ n.at = 1
      /\ n.epoch = m.epoch /\ n.fresh = m.fresh /\ n.conf = v /\ n.old = m.conf
      /\ n.alloc = m.alloc /\ n.durable = m.durable
  BY <1>2, <1>3, <1>4 DEF DaemonStates
<1>7. Stands(n)
  BY <1>1, <1>2, <1>3, <1>6 DEF Stands, ApplyAt, Current, StoreHolds
<1> QED BY <1>1, <1>2, <1>5, <1>6, <1>6a, <1>7, MovesQuietly

(* Reconciled in place, or by a restart of the same epoch.                 *)
LEMMA ReconcileKeeps ==
  ASSUME StoreIInv, NEW d \in Daemons, NEW b \in BOOLEAN, Reconcile(d, b)
  PROVE  StoreIInv'
<1> DEFINE m == dm[d]
           op == IF b THEN "drop" ELSE "restart"
<1>1. /\ m.op = "apply" /\ m.at > Len(Script(m))
      /\ UNCHANGED <<disk, stable, core>> /\ owner' = owner /\ faults' = faults
  BY DEF Reconcile, Ended
<1>2. m \in DaemonStates /\ m.pc = "up" /\ Stands(m) /\ faults \in Nat /\ ~m.fresh
  BY <1>1, UpFacts
<1>3. ApplyAt(m) /\ m.at >= 10 /\ m.at \in 1 .. 12
  BY <1>1, <1>2, EndedPast, DaemonFields DEF Stands, ApplyAt
<1>4. PICK n : n = [m EXCEPT !.op = op, !.at = 1]
  OBVIOUS
<1>5. dm' = [dm EXCEPT ![d] = n]
  BY <1>4 DEF Reconcile, Enter
<1>6. op \in {"drop", "restart"} /\ op \in StoreOps
  BY Entries
<1> HIDE DEF op
<1>7a. n \in DaemonStates
  BY <1>2, <1>4, <1>6, Entries DEF DaemonStates
<1>7. /\ n.pc = m.pc /\ n.op = op /\ n.cur = m.cur /\ n.at = 1
      /\ n.epoch = m.epoch /\ n.fresh = m.fresh /\ n.conf = m.conf /\ n.old = m.old
      /\ n.alloc = m.alloc /\ n.durable = m.durable
  BY <1>2, <1>4, <1>6 DEF DaemonStates
<1>8. Stands(n)
  BY <1>2, <1>3, <1>6, <1>7 DEF Stands, ApplyAt, RestartAt, Current, StoreHolds
<1> QED BY <1>1, <1>2, <1>5, <1>6, <1>7, <1>7a, <1>8, MovesQuietly

(* The restarted process is ready, or the backup is due.                   *)
LEMMA RestartedKeeps ==
  ASSUME StoreIInv, NEW d \in Daemons, NEW b \in BOOLEAN, Restarted(d, b)
  PROVE  StoreIInv'
<1> DEFINE m == dm[d]
<1>1. /\ m.op = "restart" /\ m.at > Len(Script(m))
      /\ UNCHANGED <<disk, stable, core>> /\ owner' = owner /\ faults' = faults
  BY DEF Restarted, Ended
<1>2. m \in DaemonStates /\ m.pc = "up" /\ Stands(m) /\ faults \in Nat /\ ~m.fresh
  BY <1>1, UpFacts
<1>3. RestartAt(m) /\ m.at >= 8 /\ m.at \in 1 .. 12
  BY <1>1, <1>2, EndedPast, DaemonFields DEF Stands, RestartAt
<1>4. CASE b
  <2>1. PICK n : n = [m EXCEPT !.op = "drop", !.at = 1]
    OBVIOUS
  <2>2. dm' = [dm EXCEPT ![d] = n]
    BY <1>4, <2>1 DEF Restarted, Enter
  <2>3a. n \in DaemonStates
    BY <1>2, <2>1, Entries DEF DaemonStates
  <2>3. /\ n.pc = m.pc /\ n.op = "drop" /\ n.cur = m.cur /\ n.at = 1
        /\ n.epoch = m.epoch /\ n.fresh = m.fresh /\ n.conf = m.conf
        /\ n.alloc = m.alloc /\ n.durable = m.durable
    BY <1>2, <2>1 DEF DaemonStates
  <2>4. Stands(n)
    BY <1>2, <1>3, <2>3 DEF Stands, RestartAt, Current, StoreHolds
  <2> QED BY <1>1, <1>2, <2>2, <2>3, <2>3a, <2>4, MovesQuietly
<1>5. CASE ~b
  <2>0. m.old \in MaybeContents /\ m.conf # Gone
    BY <1>2, <1>3, DaemonFields, ContentsPlain DEF RestartAt, Current
  <2>1. PICK n : n = [m EXCEPT !.op = "rollback", !.at = 1, !.conf = m.old]
    OBVIOUS
  <2>2. dm' = [dm EXCEPT ![d] = n]
    BY <1>5, <2>1 DEF Restarted, RollBack
  <2>3a. n \in DaemonStates
    BY <1>2, <2>0, <2>1, Entries DEF DaemonStates
  <2>3. /\ n.pc = m.pc /\ n.op = "rollback" /\ n.cur = m.cur /\ n.at = 1
        /\ n.epoch = m.epoch /\ n.fresh = m.fresh /\ n.conf = m.old
        /\ n.alloc = m.alloc /\ n.durable = m.durable
    BY <1>2, <2>0, <2>1 DEF DaemonStates
  <2>4. Stands(n)
    BY <1>2, <1>3, <2>0, <2>3 DEF Stands, RestartAt, RollbackAt, Current, StoreHolds
  <2> QED BY <1>1, <1>2, <2>2, <2>3, <2>3a, <2>4, MovesQuietly
<1> QED BY <1>4, <1>5

(* The restored epoch runs: its backup goes.                               *)
LEMMA RolledBackKeeps ==
  ASSUME StoreIInv, NEW d \in Daemons, RolledBack(d)
  PROVE  StoreIInv'
<1> DEFINE m == dm[d]
<1>1. /\ m.op = "rollback" /\ m.at > Len(Script(m))
      /\ UNCHANGED <<disk, stable, core>> /\ owner' = owner /\ faults' = faults
  BY DEF RolledBack, Ended, Enter
<1>2. /\ m \in DaemonStates /\ m.pc = "up" /\ Stands(m) /\ faults \in Nat
      /\ m.op # "none" \/ m.cur # 0 => ~m.fresh
  BY <1>1, UpFacts
<1>3. RollbackAt(m) /\ m.at = 12
  BY <1>1, <1>2, EndedPast, DaemonFields DEF Stands, RollbackAt
<1>4. PICK n : n = [m EXCEPT !.op = "drop", !.at = 1]
  OBVIOUS
<1>5. dm' = [dm EXCEPT ![d] = n]
  BY <1>4 DEF RolledBack, Ended, Enter
<1>6a. n \in DaemonStates
  BY <1>2, <1>4, Entries DEF DaemonStates
<1>6. /\ n.pc = m.pc /\ n.op = "drop" /\ n.cur = m.cur /\ n.at = 1
      /\ n.epoch = m.epoch /\ n.fresh = m.fresh /\ n.conf = m.conf
      /\ n.alloc = m.alloc /\ n.durable = m.durable
  BY <1>2, <1>4 DEF DaemonStates
<1>7. Stands(n)
  BY <1>1, <1>2, <1>3, <1>6 DEF Stands, RollbackAt, Current, StoreHolds
<1> QED BY <1>1, <1>2, <1>5, <1>6, <1>6a, <1>7, MovesQuietly

(* A transaction is over, its last call done or given up.                  *)
LEMMA OverKeeps ==
  ASSUME StoreIInv, NEW d \in Daemons, dm[d].op \in {"drop", "discard"}, Enter(d, "none", 1),
         UNCHANGED <<disk, stable, core>>, owner' = owner, faults' \in Nat
  PROVE  StoreIInv'
<1> DEFINE m == dm[d]
<1>1. m \in DaemonStates /\ m.pc = "up" /\ Stands(m) /\ ~m.fresh
  BY UpFacts
<1>2. PICK n : n = [m EXCEPT !.op = "none", !.at = 1]
  OBVIOUS
<1>3. dm' = [dm EXCEPT ![d] = n]
  BY <1>2 DEF Enter
<1>4a. n \in DaemonStates
  BY <1>1, <1>2, Entries DEF DaemonStates
<1>4. /\ n.pc = m.pc /\ n.op = "none" /\ n.cur = m.cur /\ n.at = 1
      /\ n.epoch = m.epoch /\ n.fresh = m.fresh /\ n.conf = m.conf
      /\ n.alloc = m.alloc /\ n.durable = m.durable
  BY <1>1, <1>2 DEF DaemonStates
<1>5. Stands(n)
  BY <1>1, <1>4 DEF Stands, Current, StoreHolds
<1> QED BY <1>1, <1>3, <1>4, <1>4a, <1>5, MovesQuietly

(***************************************************************************)
(* Failures, deaths and boots                                              *)
(***************************************************************************)
(* Which call a record of a script is.                                     *)
LEMMA CallKinds ==
  /\ \A c, f : Do(c, f).do = c
  /\ \A c, f, g : To(c, f, g).do = c
  /\ \A f, v : Fill(f, v).do = "fill"
BY DEF Do, To, Fill

(* The directory sync of a replacement is the ninth call of an apply.      *)
LEMMA ApplyTrySync ==
  ASSUME NEW m \in DaemonStates, m.op = "apply", m.at \in 1 .. Len(Script(m))
  PROVE  m.at \in 1 .. 9 /\ (CallOf(m).do = "trysync" <=> m.at = 9)
<1>1. Len(Script(m)) = 9
  BY ApplyCalls
<1>2. m.at \in 1 .. 9
  BY <1>1
<1> DEFINE s == Script(m)
           k == m.at
<1>3. /\ s[1].do = "create" /\ s[2].do = "fill" /\ s[3].do = "create" /\ s[4].do = "copy"
      /\ s[5].do = "link" /\ s[6].do = "unlink" /\ s[7].do = "sync" /\ s[8].do = "rename"
      /\ s[9].do = "trysync"
  BY ApplyCalls, CallKinds
<1>4. k \in 1 .. 9
  BY <1>2
<1>5. CallOf(m) = s[k]
  BY DEF CallOf
<1> HIDE DEF s, k
<1>6. k = 9 \/ s[k].do \in {"create", "fill", "copy", "link", "unlink", "sync", "rename"}
  BY <1>3, <1>4
<1>7. s[k].do = "trysync" <=> k = 9
  BY <1>3, <1>6
<1> QED BY <1>2, <1>5, <1>7 DEF k

(* It is the fifth of a rollback.                                          *)
LEMMA RollbackTrySync ==
  ASSUME NEW m \in DaemonStates, m.op = "rollback", m.at \in 1 .. Len(Script(m)),
         CallOf(m).do = "trysync"
  PROVE  m.at = 5
<1>1. Len(Script(m)) = 11
  BY RollbackCalls
<1>2. m.at \in 1 .. 11
  BY <1>1
<1> DEFINE s == Script(m)
           k == m.at
<1>3. /\ s[1].do = "kill" /\ s[2].do = "create" /\ s[3].do = "copy" /\ s[4].do = "rename"
      /\ s[6].do = "reap" /\ s[7].do = "spawn" /\ s[8].do = "create" /\ s[9].do = "fill"
      /\ s[10].do = "link" /\ s[11].do = "unlink"
  BY SMTT(40), RollbackCalls, CallKinds
<1>4. k \in 1 .. 11
  BY <1>2
<1>5. s[k].do = "trysync"
  BY DEF CallOf
<1> HIDE DEF s, k
<1>6. k = 5 \/ s[k].do \in {"kill", "create", "copy", "rename", "reap", "spawn", "fill", "link", "unlink"}
  BY <1>3, <1>4
<1> QED BY <1>5, <1>6 DEF k

(* A failed call belongs to the daemon that is up, and was the next one.   *)
LEMMA FailFacts ==
  ASSUME StoreIInv, NEW d \in Daemons, NEW ops, "none" \notin ops, CallFails(d, ops)
  PROVE  /\ dm[d] \in DaemonStates /\ dm[d].pc = "up" /\ Stands(dm[d]) /\ dm[d].op \in ops
         /\ ~dm[d].fresh /\ faults' \in Nat /\ StoreSound
         /\ dm[d].at \in 1 .. Len(Script(dm[d])) /\ NextCall(d) = CallOf(dm[d])
<1> DEFINE m == dm[d]
<1>1. /\ m.op \in ops /\ m.op # "none" /\ m.at <= Len(Script(m))
      /\ faults' = faults + 1 \/ faults' = faults
  BY DEF CallFails, Running, Fault
<1>2. m \in DaemonStates /\ m.pc = "up" /\ Stands(m) /\ ~m.fresh /\ faults \in Nat
  BY <1>1, UpFacts
<1>3. m.at \in 1 .. 12 /\ Len(Script(m)) \in 0 .. 11
  BY <1>2, DaemonFields, ScriptBound
<1>4. m.at \in 1 .. Len(Script(m))
  BY <1>1, <1>3
<1> QED BY <1>1, <1>2, <1>4 DEF StoreIInv, CallOf, NextCall

(* Drop of StagedRuntimeConfig, and the core of the epoch may be killed.   *)
LEMMA DropStagedKeeps ==
  ASSUME StoreSound, NEW e \in EpochNumbers, NEW b \in BOOLEAN, DropStaged(e, b),
         core' \in [EpochNumbers -> CoreStates]
  PROVE  StoreSound' /\ \A f \in Files : f[1] \notin {"tmp", "full.tmp"} => Same(f)
<1> DEFINE gone(f) == b /\ f \in Temps(e)
<1>1. /\ disk' = [f \in Files |-> IF gone(f) THEN Gone ELSE disk[f]]
      /\ stable' = [f \in Files |-> IF gone(f) THEN stable[f] \union {Gone} ELSE stable[f]]
  BY DEF DropStaged
<1>2. \A f \in Files : gone(f) => f[1] \in {"tmp", "full.tmp"}
  BY <1>1, FileNames DEF Temps
<1> HIDE DEF gone
<1>3. \A f \in Files : f[1] \notin {"tmp", "full.tmp"} => Same(f)
  BY <1>1, <1>2 DEF Same
<1>4. DiskOK'
  BY <1>1 DEF StoreSound, DiskOK, Values
<1>5. NeverTorn'
  BY <1>3 DEF StoreSound, NeverTorn, Same
<1>6. SocketNamed'
  BY <1>3, FileNames DEF StoreSound, SocketNamed, Same, Kinds
<1> QED BY <1>3, <1>4, <1>5, <1>6 DEF StoreSound

(* A killed core is dead, the others are as they were.                     *)
LEMMA KilledIs ==
  ASSUME StoreSound, NEW e, Killed(e)
  PROVE  core' \in [EpochNumbers -> CoreStates]
BY DEF Killed, StoreSound, DiskOK, CoreStates

(* prepare_launch or the spawn failed: the epoch is to be cleaned up.      *)
LEMMA LaunchFailsKeeps ==
  ASSUME StoreIInv, NEW d \in Daemons, NEW b \in BOOLEAN, LaunchFails(d, b)
  PROVE  StoreIInv'
<1> DEFINE m == dm[d]
<1>1. CallFails(d, {"launch"}) /\ DropStaged(m.epoch, b) /\ Killed(m.epoch) /\ owner' = owner
  BY DEF LaunchFails
<1>2. /\ m \in DaemonStates /\ m.pc = "up" /\ Stands(m) /\ m.op = "launch" /\ ~m.fresh
      /\ faults' \in Nat /\ StoreSound
  BY <1>1, FailFacts
<1>3. m.epoch \in EpochNumbers /\ m.epoch # 0 /\ m.cur = 0
  BY <1>2, DaemonFields DEF Stands, LaunchAt, EpochNumbers
<1>4. StoreSound'
  BY <1>1, <1>2, <1>3, DropStagedKeeps, KilledIs
<1>5. PICK n : n = [m EXCEPT !.op = "discard", !.at = 2]
  OBVIOUS
<1>6. dm' = [dm EXCEPT ![d] = n]
  BY <1>5 DEF LaunchFails, Enter
<1>7. n \in DaemonStates
  BY <1>2, <1>5, Entries DEF DaemonStates
<1>8. /\ n.pc = m.pc /\ n.op = "discard" /\ n.at = 2 /\ n.epoch = m.epoch /\ n.cur = m.cur
      /\ n.fresh = m.fresh
  BY <1>2, <1>5 DEF DaemonStates
<1>9. Stands(n)'
  BY <1>2, <1>3, <1>8 DEF Stands
<1> QED BY <1>1, <1>2, <1>4, <1>6, <1>7, <1>8, <1>9, MovesTo

(* An apply that fails before it replaced the file leaves the old one.     *)
LEMMA ApplyFailsKeeps ==
  ASSUME StoreIInv, NEW d \in Daemons, NEW b \in BOOLEAN, ApplyFails(d, b)
  PROVE  StoreIInv'
<1> DEFINE m == dm[d]
           at == IF NextCall(d).do = "rename" THEN 1 ELSE 2
<1>1. /\ CallFails(d, {"apply"}) /\ DropStaged(m.epoch, b) /\ core' = core /\ owner' = owner
      /\ NextCall(d).do # "trysync"
  BY DEF ApplyFails
<1>2. /\ m \in DaemonStates /\ m.pc = "up" /\ Stands(m) /\ m.op = "apply" /\ ~m.fresh
      /\ faults' \in Nat /\ StoreSound /\ m.at \in 1 .. Len(Script(m)) /\ NextCall(d) = CallOf(m)
  BY <1>1, FailFacts
<1>3. ApplyAt(m) /\ m.epoch \in EpochNumbers /\ m.old \in MaybeContents
  BY <1>2, DaemonFields DEF Stands, ApplyAt, Current, EpochNumbers
<1>4. m.at \in 1 .. 8
  <2>1. m.at \in 1 .. 9 /\ m.at # 9
    BY <1>1, <1>2, ApplyTrySync
  <2> QED BY <2>1
<1>5. StoreSound' /\ Same(File("config", m.epoch))
  <2>1. core' \in [EpochNumbers -> CoreStates]
    BY <1>1, <1>2 DEF StoreSound, DiskOK
  <2>2. StoreSound' /\ \A f \in Files : f[1] \notin {"tmp", "full.tmp"} => Same(f)
    BY <1>1, <1>2, <1>3, <2>1, DropStagedKeeps
  <2> QED BY <1>3, <2>2, FileNames DEF Kinds
<1>6. at \in {1, 2} /\ at \in 1 .. 12
  OBVIOUS
<1> HIDE DEF at
<1>7. PICK n : n = [m EXCEPT !.op = "drop", !.conf = m.old, !.at = at]
  OBVIOUS
<1>8. dm' = [dm EXCEPT ![d] = n]
  BY <1>7 DEF ApplyFails, at
<1>9. n \in DaemonStates
  BY <1>2, <1>3, <1>6, <1>7, Entries DEF DaemonStates
<1>10. /\ n.pc = m.pc /\ n.op = "drop" /\ n.at = at /\ n.epoch = m.epoch /\ n.cur = m.cur
       /\ n.conf = m.old /\ n.alloc = m.alloc /\ n.durable = m.durable /\ n.fresh = m.fresh
  BY <1>2, <1>7 DEF DaemonStates
<1>11. StoreHolds(m, m.old)
  BY <1>3, <1>4 DEF ApplyAt
<1>12. Current(n) /\ StoreHolds(n, n.conf)' /\ core'[n.epoch] = "alive"
  BY <1>1, <1>3, <1>5, <1>10, <1>11 DEF ApplyAt, Current, StoreHolds, Same
<1>13. Stands(n)'
  BY <1>2, <1>6, <1>10, <1>12 DEF Stands, Current
<1> QED BY <1>1, <1>2, <1>5, <1>8, <1>9, <1>10, <1>13, MovesTo

(* A restart that fails goes on with the backup.                           *)
LEMMA RestartFailsKeeps ==
  ASSUME StoreIInv, NEW d \in Daemons, RestartFails(d)
  PROVE  StoreIInv'
<1> DEFINE m == dm[d]
<1>1. CallFails(d, {"restart"}) /\ Killed(m.epoch) /\ owner' = owner /\ disk' = disk /\ stable' = stable
  BY DEF RestartFails
<1>2. /\ m \in DaemonStates /\ m.pc = "up" /\ Stands(m) /\ m.op = "restart" /\ ~m.fresh
      /\ faults' \in Nat /\ StoreSound
  BY <1>1, FailFacts
<1>3. RestartAt(m) /\ m.old \in MaybeContents /\ m.conf # Gone
  BY <1>2, DaemonFields, ContentsPlain DEF Stands, RestartAt, Current
<1>4. StoreSound'
  BY <1>1, <1>2, KilledIs DEF StoreSound, DiskOK, NeverTorn, SocketNamed
<1>5. PICK n : n = [m EXCEPT !.op = "rollback", !.at = 2, !.conf = m.old]
  OBVIOUS
<1>6. dm' = [dm EXCEPT ![d] = n]
  BY <1>5 DEF RestartFails, RollBack
<1>7. n \in DaemonStates
  BY <1>2, <1>3, <1>5, Entries DEF DaemonStates
<1>8. /\ n.pc = m.pc /\ n.op = "rollback" /\ n.at = 2 /\ n.epoch = m.epoch /\ n.cur = m.cur
      /\ n.conf = m.old /\ n.alloc = m.alloc /\ n.durable = m.durable /\ n.fresh = m.fresh
  BY <1>2, <1>5 DEF DaemonStates
<1>9. RollbackAt(n)'
  BY <1>1, <1>3, <1>8 DEF RestartAt, RollbackAt, Current, StoreHolds
<1>10. Stands(n)'
  BY <1>2, <1>8, <1>9 DEF Stands
<1> QED BY <1>1, <1>2, <1>4, <1>6, <1>7, <1>8, <1>10, MovesTo

(* ApplyRollbackFailed: nothing is current any more.                       *)
LEMMA RollBackFailsKeeps ==
  ASSUME StoreIInv, NEW d \in Daemons, NEW b \in BOOLEAN, RollBackFails(d, b)
  PROVE  StoreIInv'
<1> DEFINE m == dm[d]
<1>1. CallFails(d, {"rollback"}) /\ DropStaged(m.epoch, b) /\ Killed(m.epoch) /\ owner' = owner
  BY DEF RollBackFails
<1>2. /\ m \in DaemonStates /\ m.pc = "up" /\ Stands(m) /\ m.op = "rollback" /\ ~m.fresh
      /\ faults' \in Nat /\ StoreSound
  BY <1>1, FailFacts
<1>3. m.epoch \in EpochNumbers
  BY <1>2, DaemonFields DEF Stands, RollbackAt, Current, EpochNumbers
<1>4. StoreSound'
  BY <1>1, <1>2, <1>3, DropStagedKeeps, KilledIs
<1>5. PICK n : n = [m EXCEPT !.op = "none", !.at = 1, !.cur = 0]
  OBVIOUS
<1>6. dm' = [dm EXCEPT ![d] = n]
  BY <1>5 DEF RollBackFails
<1>7. n \in DaemonStates
  BY <1>2, <1>5, Entries DEF DaemonStates
<1>8. n.pc = m.pc /\ n.op = "none" /\ n.cur = 0 /\ n.fresh = m.fresh
  BY <1>2, <1>5 DEF DaemonStates
<1>9. Stands(n)'
  BY <1>2, <1>8 DEF Stands
<1> QED BY <1>1, <1>2, <1>4, <1>6, <1>7, <1>8, <1>9, MovesTo

(* A directory sync that fails leaves the commit uncertain.                *)
LEMMA SyncUncertainKeeps ==
  ASSUME StoreIInv, NEW d \in Daemons, SyncUncertain(d)
  PROVE  StoreIInv'
<1> DEFINE m == dm[d]
<1>1. /\ CallFails(d, {"apply", "rollback"}) /\ NextCall(d).do = "trysync" /\ owner' = owner
      /\ UNCHANGED <<disk, stable, core>>
  BY DEF SyncUncertain
<1>2. /\ m \in DaemonStates /\ m.pc = "up" /\ Stands(m) /\ m.op \in {"apply", "rollback"} /\ ~m.fresh
      /\ faults' \in Nat /\ m.at \in 1 .. Len(Script(m)) /\ NextCall(d) = CallOf(m)
  BY <1>1, FailFacts
<1>3. /\ m.op = "apply" => ApplyAt(m) /\ m.at = 9
      /\ m.op = "rollback" => RollbackAt(m) /\ m.at = 5
  BY <1>1, <1>2, ApplyTrySync, RollbackTrySync DEF Stands
<1>4. PICK k : k = m.at + 1
  OBVIOUS
<1>5. k \in 1 .. 12 /\ (m.op = "apply" => k = 10) /\ (m.op = "rollback" => k = 6)
  BY <1>2, <1>3, <1>4
<1>6. PICK n : n = [m EXCEPT !.at = k]
  OBVIOUS
<1>7. dm' = [dm EXCEPT ![d] = n]
  BY <1>4, <1>6 DEF SyncUncertain
<1>8. n \in DaemonStates
  BY <1>2, <1>5, <1>6 DEF DaemonStates
<1>9. /\ n.pc = m.pc /\ n.op = m.op /\ n.at = k /\ n.epoch = m.epoch /\ n.cur = m.cur
      /\ n.conf = m.conf /\ n.old = m.old /\ n.alloc = m.alloc /\ n.durable = m.durable
      /\ n.fresh = m.fresh
  BY <1>2, <1>6 DEF DaemonStates
<1>10. m.op = "apply" => ApplyAt(n)
  BY <1>3, <1>5, <1>9 DEF ApplyAt, Current, StoreHolds
<1>11. m.op = "rollback" => RollbackAt(n)
  BY <1>3, <1>5, <1>9 DEF RollbackAt, Current, StoreHolds
<1>12. Stands(n)
  BY <1>2, <1>9, <1>10, <1>11 DEF Stands
<1> QED BY <1>1, <1>2, <1>7, <1>8, <1>9, <1>12, MovesQuietly

(* A daemon that is down has nothing open.                                 *)
LEMMA DownIs ==
  Down \in DaemonStates /\ Down.pc = "down"
<1>1. "down" \in {"down", "up"} /\ "none" \in StoreOps /\ 1 \in 1 .. 12 /\ 0 \in 0 .. MaxEpoch
      /\ {} \in SUBSET EpochNumbers /\ Gone \in MaybeContents /\ TRUE \in BOOLEAN /\ FALSE \in BOOLEAN
  BY StoreAssumption DEF StoreOps, MaybeContents
<1> QED BY <1>1 DEF Down, DaemonStates

(* No daemon is up any more: what is left to show.                         *)
LEMMA AllDown ==
  ASSUME dm' = [x \in Daemons |-> Down], owner' = Nobody, faults' \in Nat, StoreSound', AllRecorded'
  PROVE  StoreIInv'
<1>1. \A x \in Daemons : dm'[x] = Down
  OBVIOUS
<1>2. DaemonsOK'
  BY DownIs DEF DaemonsOK
<1>3. StoreLocked'
  BY <1>1, DownIs DEF StoreLocked
<1>4. Recorded'
  BY DEF Recorded
<1>5. \A x \in Daemons : dm'[x].pc = "up" => Stands(dm[x])'
  BY <1>1, DownIs
<1> QED BY <1>2, <1>3, <1>4, <1>5 DEF StoreIInv

(* The daemon that was up goes: none is left.                              *)
LEMMA OneDown ==
  ASSUME StoreIInv, NEW d \in Daemons, dm[d].pc = "up" \/ dm[d].op # "none",
         dm' = [dm EXCEPT ![d] = Down]
  PROVE  dm' = [x \in Daemons |-> Down] /\ owner = d
<1>1. owner = d /\ \A x \in Daemons \ {d} : dm[x] = Down
  BY UpFacts
<1>2. dm \in [Daemons -> DaemonStates]
  BY DEF StoreIInv, DaemonsOK
<1> QED BY <1>1, <1>2

(* A sweep that fails refuses the boot; every process still has its record. *)
LEMMA SweepFailsKeeps ==
  ASSUME StoreIInv, NEW d \in Daemons, SweepFails(d)
  PROVE  StoreIInv'
<1>1. /\ CallFails(d, {"sweep"}) /\ dm' = [dm EXCEPT ![d] = Down]
      /\ owner' = (IF owner = d THEN Nobody ELSE owner) /\ UNCHANGED <<disk, stable, core>>
  BY DEF SweepFails
<1>2. dm[d].op = "sweep" /\ faults' \in Nat /\ StoreSound /\ dm[d].pc = "up"
  BY <1>1, FailFacts
<1>3. dm' = [x \in Daemons |-> Down] /\ owner' = Nobody
  BY <1>1, <1>2, OneDown
<1>4. \A x \in Daemons \ {d} : dm[x] = Down
  BY <1>2, UpFacts
<1>5. AllRecorded
  BY <1>2, <1>4, DownIs DEF StoreIInv, Recorded
<1> QED BY <1>1, <1>2, <1>3, <1>5, AllDown, StoreQuiet

(* The daemon dies: a core without a record is a stray from now on.        *)
LEMMA CrashKeeps ==
  ASSUME StoreIInv, NEW d \in Daemons, Crash(d)
  PROVE  StoreIInv'
<1>1. /\ dm[d].pc = "up" /\ dm' = [dm EXCEPT ![d] = Down] /\ faults' = faults + 1
      /\ owner' = (IF owner = d THEN Nobody ELSE owner) /\ disk' = disk /\ stable' = stable
      /\ core' = [e \in EpochNumbers |->
           IF core[e] = "alive" /\ disk[File("pid", e)] = Gone THEN "stray" ELSE core[e]]
  BY DEF Crash, Fault
<1>2. faults' \in Nat /\ StoreSound
  BY <1>1 DEF StoreIInv, DaemonsOK
<1>3. dm' = [x \in Daemons |-> Down] /\ owner' = Nobody
  BY <1>1, OneDown
<1>4. StoreSound' /\ AllRecorded'
  BY <1>1, <1>2 DEF StoreSound, DiskOK, NeverTorn, SocketNamed, AllRecorded, CoreStates
<1> QED BY <1>2, <1>3, <1>4, AllDown

(* The host loses power: every name has one of the contents it may have.   *)
LEMMA PowerLossKeeps ==
  ASSUME StoreIInv, PowerLoss
  PROVE  StoreIInv'
<1> DEFINE open == {f \in Files : f[1] # "controller" /\ stable[f] # {disk[f]}}
<1>1. /\ faults' = faults + 1 /\ dm' = [d \in Daemons |-> Down] /\ owner' = Nobody
      /\ core' = [e \in EpochNumbers |-> IF core[e] = "none" THEN "none" ELSE "dead"]
      /\ stable' = [f \in Files |-> {disk'[f]}]
  BY DEF PowerLoss, Fault
<1>2. PICK found : /\ \A f \in open : found[f] \in stable[f]
                   /\ disk' = [f \in Files |-> IF f \in open THEN found[f]
                                    ELSE IF f[1] = "controller" THEN Gone ELSE disk[f]]
  BY DEF PowerLoss
<1>3. StoreSound /\ faults' \in Nat
  BY <1>1 DEF StoreIInv, DaemonsOK
<1>4. \A f \in Files : disk'[f] \in stable[f] \/ (f[1] = "controller" /\ disk'[f] = Gone)
  BY <1>2, <1>3 DEF StoreSound, DiskOK
<1>5. \A f \in Files : f[1] = "controller" => disk'[f] = Gone
  BY <1>2
<1> HIDE DEF open
<1>6. DiskOK'
  <2>1. \A f \in Files : disk'[f] \in Values
    BY <1>3, <1>4 DEF StoreSound, DiskOK, Values
  <2>2. disk' \in [Files -> Values]
    BY <1>2, <2>1
  <2>3. stable' \in [Files -> SUBSET Values] /\ \A f \in Files : disk'[f] \in stable'[f]
    BY <1>1, <2>1
  <2>4. core' \in [EpochNumbers -> CoreStates]
    BY <1>1 DEF CoreStates
  <2> QED BY <2>2, <2>3, <2>4 DEF DiskOK
<1>7. NeverTorn'
  BY <1>1, <1>3, <1>4 DEF StoreSound, NeverTorn, Gone, Torn
<1>8. SocketNamed'
  BY <1>5, FileNames DEF SocketNamed, Kinds
<1>9. AllRecorded'
  BY <1>1 DEF AllRecorded
<1> QED BY <1>1, <1>3, <1>6, <1>7, <1>8, <1>9, AllDown DEF StoreSound

(* acquire_ownership, then the numbers of every artifact to sweep.         *)
LEMMA BootKeeps ==
  ASSUME StoreIInv, NEW d \in Daemons, Boot(d)
  PROVE  StoreIInv'
<1> DEFINE A == ArtifactEpochs(disk)
           a == Max(A \union {0})
<1>1. /\ owner = Nobody /\ owner' = d /\ UNCHANGED <<disk, stable, core>> /\ faults' = faults
      /\ dm' = [dm EXCEPT ![d] = [Down EXCEPT !.pc = "up", !.op = "scan", !.todo = A, !.alloc = a]]
  BY DEF Boot
<1>2. \A x \in Daemons : dm[x] = Down
  BY <1>1, StoreAssumption DEF StoreIInv, StoreLocked
<1>3. A \in SUBSET EpochNumbers
  BY DEF ArtifactEpochs
<1>4. a \in 0 .. MaxEpoch
  BY <1>3, MaxIn
<1>5. AllRecorded /\ StoreSound /\ faults \in Nat /\ dm \in [Daemons -> DaemonStates]
  BY <1>2, DownIs DEF StoreIInv, Recorded, DaemonsOK
<1>6. \A e \in EpochNumbers : StoreClean(e) \/ e \in A
  <2> SUFFICES ASSUME NEW e \in EpochNumbers, e \notin A PROVE StoreClean(e)
    OBVIOUS
  <2>1. \A f \in Artifacts(e) : disk[f] = Gone
    BY DEF ArtifactEpochs
  <2>2. File("pid", e) \in Artifacts(e)
    BY DEF Artifacts, Kinds
  <2> QED BY <1>5, <2>1, <2>2 DEF StoreClean, AllRecorded
<1> HIDE DEF A, a
<1>7. PICK n : n = [Down EXCEPT !.pc = "up", !.op = "scan", !.todo = A, !.alloc = a]
  OBVIOUS
<1>8. /\ n.pc = "up" /\ n.op = "scan" /\ n.todo = A /\ n.cur = 0 /\ n.fresh = FALSE
  BY <1>7 DEF Down
<1>9. n \in DaemonStates
  <2>1. "up" \in {"down", "up"} /\ "scan" \in StoreOps
    BY DEF StoreOps
  <2> QED BY <1>3, <1>4, <1>7, <2>1, DownIs DEF DaemonStates
<1>10. dm' \in [Daemons -> DaemonStates] /\ dm'[d] = n /\ \A x \in Daemons \ {d} : dm'[x] = Down
  BY <1>1, <1>2, <1>5, <1>7, <1>9
<1>11. StoreSound' /\ AllRecorded'
  BY <1>1, <1>5, StoreQuiet
<1>12. Stands(n)
  BY <1>6, <1>8 DEF Stands
<1>13. Stands(dm[d])'
  BY <1>1, <1>10, <1>12, StoreQuiet
<1>14. DaemonsOK'
  BY <1>1, <1>5, <1>10 DEF DaemonsOK
<1>15. StoreLocked'
  BY <1>1, <1>8, <1>10, DownIs DEF StoreLocked
<1>16. \A x \in Daemons : dm'[x].pc = "up" => Stands(dm[x])'
  <2>1. \A x \in Daemons \ {d} : dm'[x].pc # "up"
    BY <1>10, DownIs
  <2> QED BY <1>13, <2>1
<1>17. Recorded'
  BY <1>11 DEF Recorded
<1> QED BY <1>11, <1>14, <1>15, <1>16, <1>17 DEF StoreIInv

(***************************************************************************)
(* The theorems                                                            *)
(***************************************************************************)
(* An empty directory that nobody owns.                                    *)
LEMMA StoreInitial ==
  StoreInit => StoreIInv
<1> SUFFICES ASSUME StoreInit PROVE StoreIInv
  OBVIOUS
<1>1. DiskOK
  BY DEF StoreInit, DiskOK, Values, CoreStates
<1>2. NeverTorn
  BY DEF StoreInit, NeverTorn, Gone, Torn
<1>3. SocketNamed /\ AllRecorded
  BY FileNames DEF StoreInit, SocketNamed, AllRecorded, Kinds
<1>4. DaemonsOK /\ StoreLocked
  BY DownIs DEF StoreInit, DaemonsOK, StoreLocked
<1>5. \A d \in Daemons : dm[d].pc # "up"
  BY DownIs DEF StoreInit
<1> QED BY <1>1, <1>2, <1>3, <1>4, <1>5 DEF StoreIInv, StoreSound, Recorded

(* Every step of the store keeps the invariant.                            *)
LEMMA StoreInductive ==
  ASSUME StoreIInv, [StoreNext]_svars
  PROVE  StoreIInv'
<1>1. CASE UNCHANGED svars
  <2>1. UNCHANGED <<disk, stable, core>> /\ UNCHANGED <<owner, dm, faults>>
    BY <1>1 DEF svars
  <2>2. (StoreSound /\ AllRecorded => StoreSound' /\ AllRecorded') /\ (StoreSound => StoreSound')
    BY <2>1, StoreQuiet
  <2>3. \A d \in Daemons : Stands(dm[d]) => Stands(dm[d])'
    BY <2>1, StoreQuiet
  <2> QED BY <2>1, <2>2, <2>3 DEF StoreIInv, DaemonsOK, StoreLocked, Recorded, AllRecorded
<1>2. ASSUME NEW d \in Daemons,
             \/ Boot(d) \/ SweepNext(d) \/ Step(d) \/ Launched(d) \/ Stop(d)
             \/ RolledBack(d) \/ Done(d) \/ SweepFails(d) \/ DropFails(d) \/ SyncUncertain(d)
             \/ RestartFails(d) \/ Crash(d)
      PROVE  StoreIInv'
  <2>1. ASSUME Done(d) PROVE StoreIInv'
    <3>1. /\ dm[d].op \in {"drop", "discard"} /\ Enter(d, "none", 1) /\ owner' = owner
          /\ UNCHANGED <<disk, stable, core>> /\ faults' = faults
      BY <2>1 DEF Done, Ended
    <3>2. faults' \in Nat
      BY <3>1 DEF StoreIInv, DaemonsOK
    <3> QED BY <3>1, <3>2, OverKeeps
  <2>2. ASSUME DropFails(d) PROVE StoreIInv'
    <3>1. /\ CallFails(d, {"discard", "drop"}) /\ Enter(d, "none", 1) /\ owner' = owner
          /\ UNCHANGED <<disk, stable, core>>
      BY <2>2 DEF DropFails
    <3>2. faults' \in Nat /\ dm[d].op \in {"drop", "discard"}
      BY <3>1, FailFacts
    <3> QED BY <3>1, <3>2, OverKeeps
  <2> QED BY <1>2, <2>1, <2>2, BootKeeps, SweepNextKeeps, StepKeeps, LaunchedKeeps, StopKeeps,
             RolledBackKeeps, SweepFailsKeeps, SyncUncertainKeeps, RestartFailsKeeps, CrashKeeps
<1>3. ASSUME NEW d \in Daemons, Launch(d, CHOOSE v \in Contents : TRUE)
      PROVE  StoreIInv'
  <2>1. (CHOOSE v \in Contents : TRUE) \in Contents
    BY StoreAssumption
  <2> QED BY <1>3, <2>1, LaunchKeeps
<1>4. ASSUME NEW d \in Daemons, NEW v \in Contents, Apply(d, v)
      PROVE  StoreIInv'
  BY <1>4, ApplyKeeps
<1>5. ASSUME NEW d \in Daemons, NEW b \in BOOLEAN,
             \/ Reconcile(d, b) \/ Restarted(d, b) \/ LaunchFails(d, b)
             \/ ApplyFails(d, b) \/ RollBackFails(d, b)
      PROVE  StoreIInv'
  BY <1>5, ReconcileKeeps, RestartedKeeps, LaunchFailsKeeps, ApplyFailsKeeps, RollBackFailsKeeps
<1>6. CASE PowerLoss
  BY <1>6, PowerLossKeeps
<1> QED BY <1>1, <1>2, <1>3, <1>4, <1>5, <1>6 DEF StoreNext

(* Where the daemon stands in its script says what is on the disk.         *)
THEOREM StoreInvariance ==
  StoreSpec => []StoreIInv
BY StoreInitial, StoreInductive, PTL DEF StoreSpec

(* The state is what the store's types say, for every directory, number of *)
(* daemons and number of faults.                                           *)
THEOREM StoreTypes ==
  StoreSpec => []StoreTypeOK
<1>1. StoreIInv => StoreTypeOK
  <2> SUFFICES ASSUME StoreIInv PROVE StoreTypeOK
    OBVIOUS
  <2>1. ASSUME NEW d \in Daemons
        PROVE  dm[d].cur \in 0 .. dm[d].alloc /\ dm[d].alloc <= MaxEpoch
    <3> DEFINE m == dm[d]
    <3>1. m \in DaemonStates
      BY DEF StoreIInv, DaemonsOK
    <3>2. m.cur \in 0 .. MaxEpoch /\ m.alloc \in 0 .. MaxEpoch /\ m.op \in StoreOps /\ m.pc \in {"down", "up"}
      BY <3>1, DaemonFields
    <3>3. m.cur = 0 \/ m.cur <= m.alloc
      <4>1. CASE m.pc = "up"
        <5>1. Stands(m)
          BY <4>1 DEF StoreIInv
        <5> QED BY <3>2, <5>1 DEF Stands, LaunchAt, ApplyAt, RestartAt, RollbackAt, SweepAt,
                                  Current, StoreOps
      <4>2. CASE m.pc # "up"
        BY <4>2 DEF StoreIInv, StoreLocked, Down
      <4> QED BY <4>1, <4>2
    <3> QED BY <3>2, <3>3, StoreAssumption
  <2> QED BY <2>1 DEF StoreIInv, StoreSound, DiskOK, DaemonsOK, StoreTypeOK, CoreStates
<1> QED BY <1>1, StoreInvariance, PTL

(* Between two transactions the runtime file of the current epoch is the   *)
(* one its plan says, and a commit reported durable survives a power loss. *)
THEOREM ConfigIsKept ==
  StoreSpec => []ConfigKept
<1>1. StoreIInv => ConfigKept
  <2> SUFFICES ASSUME StoreIInv, NEW d \in Daemons, Ready(d), dm[d].cur # 0
              PROVE  LET f == File("config", dm[d].cur) IN
                     disk[f] = dm[d].conf /\ (dm[d].durable => stable[f] = {dm[d].conf})
    BY DEF ConfigKept
  <2>1. Stands(dm[d]) /\ dm[d].op = "none"
    BY DEF StoreIInv, Ready
  <2>2. Current(dm[d]) /\ StoreHolds(dm[d], dm[d].conf)
    BY <2>1 DEF Stands
  <2> QED BY <2>2 DEF Current, StoreHolds
<1> QED BY <1>1, StoreInvariance, PTL

(* A boot that succeeded leaves no artifact and no recorded process of its *)
(* predecessors, wherever they died.                                       *)
THEOREM SweepIsComplete ==
  StoreSpec => []SweepComplete
<1>1. StoreIInv => SweepComplete
  BY DEF StoreIInv, SweepComplete, Ready, Stands, StoreClean
<1> QED BY <1>1, StoreInvariance, PTL

(* A runtime config, a backup or a pid record is never found half written. *)
THEOREM NoFileTorn ==
  StoreSpec => []NeverTorn
<1>1. StoreIInv => NeverTorn
  BY DEF StoreIInv, StoreSound
<1> QED BY <1>1, StoreInvariance, PTL

(* A controller socket never outlives the artifact a sweep finds it by.    *)
THEOREM SocketsAreFound ==
  StoreSpec => []SocketFindable
<1>1. StoreIInv => SocketFindable
  <2> SUFFICES ASSUME StoreIInv, NEW e \in EpochNumbers, disk[File("controller", e)] # Gone
              PROVE  e \in ArtifactEpochs(disk)
    BY DEF SocketFindable
  <2>1. disk[File("config", e)] # Gone
    BY DEF StoreIInv, StoreSound, SocketNamed
  <2>2. File("config", e) \in Artifacts(e)
    BY DEF Artifacts, Kinds
  <2> QED BY <2>1, <2>2 DEF ArtifactEpochs
<1> QED BY <1>1, StoreInvariance, PTL

(* The core a daemon is running is reaped by no other daemon.              *)
THEOREM CurrentIsNotReaped ==
  StoreSpec => []CurrentNotReaped
<1>1. StoreIInv => CurrentNotReaped
  BY DEF StoreIInv, CurrentNotReaped, Ready, Stands, Current
<1> QED BY <1>1, StoreInvariance, PTL
=============================================================================
