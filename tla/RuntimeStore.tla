---------------------------- MODULE RuntimeStore ----------------------------
(***************************************************************************)
(* The runtime directory (config/runtime_store.rs, io/atomic_fs.rs), the   *)
(* artifacts of one epoch in it, and the sweep of a new daemon's boot      *)
(* (manager/quarantine.rs) after the last one died anywhere.               *)
(*                                                                         *)
(* An operation of the store is a script of file-system calls, run one per *)
(* step (dm[d].at is the next one): between two of them the daemon may     *)
(* crash, the host may lose power and each of them may fail.  Only a       *)
(* daemon that holds the directory lock runs scripts, and its control lock *)
(* makes them one at a time.                                               *)
(*                                                                         *)
(* `disk` is what a reader sees; `stable` is, for every name, what may be  *)
(* found there after a power loss (a file's data is safe after its fsync,  *)
(* a name only after the fsync of the directory, as on Unix).              *)
(***************************************************************************)
EXTENDS Naturals, Sequences, FiniteSets, FiniteSetsExt

CONSTANTS
  Daemons,       \* daemon processes that may be started on one directory
  Contents,      \* runtime configurations
  MaxEpoch,      \* bound: epoch numbers
  ControllerDir, \* whether controller sockets have a directory of their own
  MaxFaults      \* bound: crashes, power losses and failed calls


VARIABLES
  disk,      \* content of every name, Gone if there is no such file
  stable,    \* contents a power loss may leave there
  core,      \* the core process of every epoch
  owner,     \* holder of .manager.lock, or Nobody
  dm,        \* the daemons
  faults     \* how many of them so far

svars == <<disk, stable, core, owner, dm, faults>>

Gone == "gone"
Torn == "torn"
Rec == "record"
Sock == "socket"
Nobody == "nobody"

ASSUME StoreAssumption ==
  /\ MaxEpoch \in Nat /\ MaxFaults \in Nat /\ ControllerDir \in BOOLEAN
  /\ Contents # {} /\ Contents \intersect {Gone, Torn, Rec, Sock} = {}
  /\ Nobody \notin Daemons

EpochNumbers == 1 .. MaxEpoch
Kinds == {"config", "pid", "sock", "backup", "tmp", "full.tmp", "pid.tmp", "controller"}
Files == Kinds \X EpochNumbers
File(k, e) == <<k, e>>
Temps(e) == {File("tmp", e), File("full.tmp", e)}
Values == Contents \union {Gone, Torn, Rec, Sock}

(* The controller socket of a configured controller_dir lies elsewhere: it *)
(* is not an artifact name of this directory.                              *)
Artifacts(e) == {File(k, e) : k \in Kinds \ {"controller"}}

(* Mutant: staging names are not read back.                                *)
ArtifactEpochsNoTemps(d) ==
  {e \in EpochNumbers : \E k \in {"config", "pid", "sock", "backup"} : d[File(k, e)] # Gone}

(* artifact_epochs: every name of the six patterns gives its number.       *)
ArtifactEpochs(d) == {e \in EpochNumbers : \E f \in Artifacts(e) : d[f] # Gone}

Down == [pc |-> "down", op |-> "none", at |-> 1, epoch |-> 0, todo |-> {},
         alloc |-> 0, cur |-> 0, conf |-> Gone, old |-> Gone, durable |-> TRUE,
         fresh |-> FALSE]

StoreInit ==
  /\ disk = [f \in Files |-> Gone]
  /\ stable = [f \in Files |-> {Gone}]
  /\ core = [e \in EpochNumbers |-> "none"]
  /\ owner = Nobody
  /\ dm = [d \in Daemons |-> Down]
  /\ faults = 0

(***************************************************************************)
(* The store's operations as scripts                                       *)
(***************************************************************************)
Do(call, f) == [do |-> call, f |-> f, to |-> f, v |-> Gone]
To(call, f, g) == [do |-> call, f |-> f, to |-> g, v |-> Gone]
Fill(f, v) == [do |-> "fill", f |-> f, to |-> f, v |-> v]
Sync(e) == Do("sync", File("config", e))

(* stage: create_new, write_all, flush, sync_all.                          *)
Stage(t, v) == <<Do("create", t), Fill(t, v)>>
StageCopy(t, f) == <<Do("create", t), To("copy", t, f)>>

(* atomic_move_new: hard_link, which fails if the target exists, then      *)
(* unlink; commit_new and backup sync the directory and pass its error on. *)
MoveNew(t, f) == <<To("link", t, f), Do("unlink", t)>>
CommitNew(t, e) == MoveNew(t, File("config", e)) \o <<Sync(e)>>
Backup(e) ==
  StageCopy(File("tmp", e), File("config", e))
    \o MoveNew(File("tmp", e), File("backup", e)) \o <<Sync(e)>>

(* commit_replace: the target must exist; a directory that cannot be       *)
(* synced is only a warning (Uncertain).                                   *)
CommitReplace(t, e) == <<To("rename", t, File("config", e)), Do("trysync", File("config", e))>>
RestoreBackup(e) ==
  StageCopy(File("tmp", e), File("backup", e)) \o CommitReplace(File("tmp", e), e)

(* cleanup_epoch: cleanup_controller, then cleanup_artifacts, in the order *)
(* of the listing, then the sync.                                          *)
Listing == <<"controller", "config", "pid", "sock", "backup", "tmp", "full.tmp", "pid.tmp">>
Cleanup(e) == <<Do("clear", File("config", e)), Sync(e)>>

(* prepare_epoch reaps what a record there names; then the process starts, *)
(* and write_epoch_record publishes its record without a directory sync.   *)
SpawnRecorded(e) ==
  <<Do("reap", File("pid", e)), Do("spawn", File("config", e)),
    Do("create", File("pid.tmp", e)), Fill(File("pid.tmp", e), Rec)>>
      \o MoveNew(File("pid.tmp", e), File("pid", e))

(* Start: prepare_launch and the recorded spawn.                           *)
LaunchScript(e, v) ==
  Stage(File("tmp", e), v) \o CommitNew(File("tmp", e), e) \o SpawnRecorded(e)

(* Mutant: the backup is taken after the runtime file was replaced.        *)
ApplyScriptBackupLate(e, v) ==
  Stage(File("full.tmp", e), v) \o CommitReplace(File("full.tmp", e), e) \o Backup(e)

(* apply_locked: the new bytes are staged, the old ones backed up, and the *)
(* runtime file is replaced.                                               *)
ApplyScript(e, v) ==
  Stage(File("full.tmp", e), v) \o Backup(e) \o CommitReplace(File("full.tmp", e), e)

StopProcess(e) == <<Do("kill", File("pid", e))>>
RestartScript(e) == StopProcess(e) \o SpawnRecorded(e)
RollbackScript(e) == StopProcess(e) \o RestoreBackup(e) \o SpawnRecorded(e)

(* stop, shutdown: the epoch's process, then everything named after it.    *)
DiscardScript(e) == StopProcess(e) \o Cleanup(e)

(* sweep_orphans, one epoch of it.                                         *)
SweepEpoch(e) == <<Do("reap", File("pid", e))>> \o Cleanup(e)
DropBackup(e) == <<Do("unlink", File("backup", e))>>

(* What the daemon in state m is running.                                  *)
Script(m) ==
  CASE m.op = "launch"   -> LaunchScript(m.epoch, m.conf)
    [] m.op = "apply"    -> ApplyScript(m.epoch, m.conf)
    [] m.op = "restart"  -> RestartScript(m.epoch)
    [] m.op = "rollback" -> RollbackScript(m.epoch)
    [] m.op = "discard"  -> DiscardScript(m.epoch)
    [] m.op = "sweep"    -> SweepEpoch(m.epoch)
    [] m.op = "drop"     -> DropBackup(m.epoch)
    [] OTHER             -> <<>>

(***************************************************************************)
(* One file-system call                                                    *)
(***************************************************************************)
Allowed(s) ==
  /\ s.do = "create" => disk[s.f] = Gone
  /\ s.do = "link" => disk[s.f] # Gone /\ disk[s.to] = Gone
  /\ s.do = "rename" => disk[s.f] # Gone /\ disk[s.to] # Gone
  /\ s.do = "copy" => disk[s.to] # Gone

Set(f, v) == disk' = [disk EXCEPT ![f] = v] /\ stable' = [stable EXCEPT ![f] = @ \union {v}]

(* fsync of the file: its name may be lost, its content no longer.         *)
Written(f, v) ==
  disk' = [disk EXCEPT ![f] = v] /\ stable' = [stable EXCEPT ![f] = (@ \ {Torn}) \union {v}]

(* A name given to bytes that were not synced may be found with no bytes.  *)
Published(f) == stable[f] \ {Gone}

FileCall(s) ==
  \/ /\ s.do = "create" /\ Set(s.f, Torn)
  \/ /\ s.do = "fill" /\ Written(s.f, s.v)
  \/ /\ s.do = "copy" /\ Written(s.f, disk[s.to])
  \/ /\ s.do = "unlink" /\ Set(s.f, Gone)
  \/ /\ s.do = "link"
     /\ disk' = [disk EXCEPT ![s.to] = disk[s.f]]
     /\ stable' = [stable EXCEPT ![s.to] = @ \union Published(s.f)]
  \/ /\ s.do = "rename"
     /\ disk' = [disk EXCEPT ![s.to] = disk[s.f], ![s.f] = Gone]
     /\ stable' = [stable EXCEPT ![s.to] = @ \union Published(s.f), ![s.f] = @ \union {Gone}]
  \/ /\ s.do \in {"sync", "trysync"}
     /\ stable' = [f \in Files |-> IF f[1] = "controller" THEN stable[f] ELSE {disk[f]}]
     /\ UNCHANGED disk

(* reap_epoch_pid_file, as module PidFile establishes it: the recorded     *)
(* process is dead afterwards and its record is gone; no record, no kill.  *)
ReapCall(s) ==
  /\ s.do = "reap"
  /\ IF disk[s.f] = Gone THEN UNCHANGED <<disk, stable, core>>
     ELSE /\ core' = [core EXCEPT ![s.f[2]] = IF @ = "alive" THEN "reaped" ELSE @]
          /\ Set(s.f, Gone)

(* The core starts and may get as far as binding its controller socket,    *)
(* here or in controller_dir.                                              *)
SpawnCall(s) ==
  /\ s.do = "spawn"
  /\ core' = [core EXCEPT ![s.f[2]] = "alive"]
  /\ \/ UNCHANGED <<disk, stable>>
     \/ Set(File(IF ControllerDir THEN "controller" ELSE "sock", s.f[2]), Sock)

(* stop_and_confirm_dead: the pump removes the record of a dead process.   *)
KillCall(s) ==
  /\ s.do = "kill"
  /\ core' = [core EXCEPT ![s.f[2]] = "dead"]
  /\ Set(s.f, Gone)

(* remove_regular_file of the first name that is there, one per step (an   *)
(* absent one is no call at all): nothing appears while the control lock   *)
(* is held.                                                                *)
Left(d, e) == {i \in DOMAIN Listing : d[File(Listing[i], e)] # Gone}
ClearCall(s) ==
  /\ s.do = "clear"
  /\ \/ Left(disk, s.f[2]) = {} /\ UNCHANGED <<disk, stable>>
     \/ \E i \in Left(disk, s.f[2]) :
          /\ \A j \in Left(disk, s.f[2]) : i <= j
          /\ Set(File(Listing[i], s.f[2]), Gone)

Call(s) ==
  /\ Allowed(s)
  /\ \/ (FileCall(s) \/ ClearCall(s)) /\ UNCHANGED core
     \/ ReapCall(s) \/ SpawnCall(s) \/ KillCall(s)

(***************************************************************************)
(* The daemon                                                              *)
(***************************************************************************)
Enter(d, op, at) == dm' = [dm EXCEPT ![d].op = op, ![d].at = at]
Ready(d) == dm[d].pc = "up" /\ dm[d].op = "none"
NextCall(d) == Script(dm[d])[dm[d].at]
Running(d) == dm[d].op # "none" /\ dm[d].at <= Len(Script(dm[d]))
Ended(d, op) == dm[d].op = op /\ dm[d].at > Len(Script(dm[d]))

(* The daemons are interchangeable: one that is down will do.              *)
SomeDown == CHOOSE d \in Daemons : dm[d].pc = "down" \/ \A x \in Daemons : dm[x].pc # "down"

(* acquire_ownership (Contended refuses the boot: nothing changes), then   *)
(* sweep_orphans over the discovered numbers.                              *)
Boot(d) ==
  /\ dm[d].pc = "down" /\ d = SomeDown /\ owner = Nobody
  /\ owner' = d
  /\ dm' = [dm EXCEPT ![d] = [Down EXCEPT !.pc = "up", !.op = "scan",
              !.todo = ArtifactEpochs(disk), !.alloc = Max(ArtifactEpochs(disk) \union {0})]]
  /\ UNCHANGED <<disk, stable, core, faults>>

SweepNext(d) ==
  /\ Ended(d, "scan") \/ Ended(d, "sweep")
  /\ IF dm[d].todo = {}
     THEN dm' = [dm EXCEPT ![d].op = "none", ![d].at = 1, ![d].epoch = 0, ![d].fresh = TRUE]
     ELSE LET e == Min(dm[d].todo) IN
       dm' = [dm EXCEPT ![d].op = "sweep", ![d].at = 1, ![d].epoch = e, ![d].todo = @ \ {e}]
  /\ UNCHANGED <<disk, stable, core, owner, faults>>

(* One call of the running script.  A replacement is durable only once the *)
(* directory was synced after it.                                          *)
Step(d) ==
  /\ Running(d)
  /\ LET s == NextCall(d) IN
     /\ Call(s)
     /\ dm' = [dm EXCEPT
          ![d].at = IF s.do = "clear" /\ Left(disk', s.f[2]) # {} THEN @ ELSE @ + 1,
          ![d].durable = (@ /\ s.do # "rename") \/ s.do = "trysync"]
  /\ UNCHANGED <<owner, faults>>

Launch(d, v) ==
  /\ Ready(d) /\ dm[d].cur = 0 /\ dm[d].alloc < MaxEpoch
  /\ LET e == dm[d].alloc + 1 IN
       dm' = [dm EXCEPT ![d].op = "launch", ![d].at = 1, ![d].alloc = e, ![d].epoch = e,
                ![d].conf = v, ![d].fresh = FALSE, ![d].durable = TRUE]
  /\ UNCHANGED <<disk, stable, core, owner, faults>>

Launched(d) ==
  /\ Ended(d, "launch")
  /\ dm' = [dm EXCEPT ![d].op = "none", ![d].at = 1, ![d].cur = dm[d].epoch]
  /\ UNCHANGED <<disk, stable, core, owner, faults>>

Stop(d) ==
  /\ Ready(d) /\ dm[d].cur # 0
  /\ dm' = [dm EXCEPT ![d].op = "discard", ![d].at = 1, ![d].cur = 0]
  /\ UNCHANGED <<disk, stable, core, owner, faults>>

Apply(d, v) ==
  /\ Ready(d) /\ dm[d].cur # 0 /\ v # dm[d].conf
  /\ dm' = [dm EXCEPT ![d].op = "apply", ![d].at = 1, ![d].old = dm[d].conf, ![d].conf = v]
  /\ UNCHANGED <<disk, stable, core, owner, faults>>

(* Reconciled in place, or by a restart of the same epoch.                 *)
Reconcile(d, inPlace) ==
  /\ Ended(d, "apply")
  /\ Enter(d, IF inPlace THEN "drop" ELSE "restart", 1)
  /\ UNCHANGED <<disk, stable, core, owner, faults>>

RollBack(d, at) ==
  dm' = [dm EXCEPT ![d].op = "rollback", ![d].at = at, ![d].conf = dm[d].old]

(* The restarted process became ready, or it did not and is stopped: then  *)
(* the backup is restored under another start.                             *)
Restarted(d, ready) ==
  /\ Ended(d, "restart")
  /\ IF ready THEN Enter(d, "drop", 1) ELSE RollBack(d, 1)
  /\ UNCHANGED <<disk, stable, core, owner, faults>>

RolledBack(d) ==
  /\ Ended(d, "rollback") /\ Enter(d, "drop", 1)
  /\ UNCHANGED <<disk, stable, core, owner, faults>>

Done(d) ==
  /\ Ended(d, "drop") \/ Ended(d, "discard")
  /\ Enter(d, "none", 1)
  /\ UNCHANGED <<disk, stable, core, owner, faults>>

(***************************************************************************)
(* Failures                                                                *)
(***************************************************************************)
Fault == faults < MaxFaults /\ faults' = faults + 1

(* Drop of StagedRuntimeConfig: staging files go, if they can be removed.  *)
DropStaged(e, removed) ==
  LET gone(f) == removed /\ f \in Temps(e) IN
  /\ disk' = [f \in Files |-> IF gone(f) THEN Gone ELSE disk[f]]
  /\ stable' = [f \in Files |-> IF gone(f) THEN stable[f] \union {Gone} ELSE stable[f]]

(* The next call of an operation fails; a stop that is not confirmed is    *)
(* module CoreManager's business.                                          *)
CallFails(d, ops) ==
  /\ Running(d) /\ dm[d].op \in ops /\ NextCall(d).do # "kill"
  /\ \/ Fault
     \/ ~Allowed(NextCall(d)) /\ UNCHANGED faults

(* A sweep that meets an error refuses the boot.                           *)
SweepFails(d) ==
  /\ CallFails(d, {"sweep"})
  /\ dm' = [dm EXCEPT ![d] = Down] /\ owner' = IF owner = d THEN Nobody ELSE owner
  /\ UNCHANGED <<disk, stable, core>>

Killed(e) == core' = [core EXCEPT ![e] = IF @ = "alive" THEN "dead" ELSE @]

(* prepare_launch or the spawn failed: a process without a record is       *)
(* killed, and the epoch is cleaned up as far as that succeeds.            *)
LaunchFails(d, removed) ==
  /\ CallFails(d, {"launch"})
  /\ DropStaged(dm[d].epoch, removed) /\ Killed(dm[d].epoch)
  /\ Enter(d, "discard", 2)
  /\ UNCHANGED owner

(* A cleanup or the removal of a backup that fails is reported, not retried. *)
DropFails(d) ==
  /\ CallFails(d, {"discard", "drop"})
  /\ Enter(d, "none", 1)
  /\ UNCHANGED <<disk, stable, core, owner>>

(* commit_replace turns a failed directory sync into a warning.            *)
SyncUncertain(d) ==
  /\ CallFails(d, {"apply", "rollback"}) /\ NextCall(d).do = "trysync"
  /\ dm' = [dm EXCEPT ![d].at = @ + 1]
  /\ UNCHANGED <<disk, stable, core, owner>>

(* Anything before it leaves the runtime file alone and gives up the apply; *)
(* the backup is removed only when backup() itself had succeeded.          *)
ApplyFails(d, removed) ==
  /\ CallFails(d, {"apply"}) /\ NextCall(d).do # "trysync"
  /\ DropStaged(dm[d].epoch, removed)
  /\ dm' = [dm EXCEPT ![d].op = "drop", ![d].conf = dm[d].old,
              ![d].at = IF NextCall(d).do = "rename" THEN 1 ELSE 2]
  /\ UNCHANGED <<core, owner>>

RestartFails(d) ==
  /\ CallFails(d, {"restart"})
  /\ Killed(dm[d].epoch) /\ RollBack(d, 2)
  /\ UNCHANGED <<disk, stable, owner>>

(* ApplyRollbackFailed: nothing runs, and the files stay for the next boot. *)
RollBackFails(d, removed) ==
  /\ CallFails(d, {"rollback"}) /\ NextCall(d).do # "trysync"
  /\ DropStaged(dm[d].epoch, removed) /\ Killed(dm[d].epoch)
  /\ dm' = [dm EXCEPT ![d].op = "none", ![d].at = 1, ![d].cur = 0]
  /\ UNCHANGED owner

(* The daemon dies: the lock is released, its cores live on.  A core whose *)
(* record was not yet published has no identity on disk: it is a stray no  *)
(* boot may touch (the gap PidFileGuard::write documents).                 *)
Crash(d) ==
  /\ dm[d].pc = "up" /\ Fault
  /\ dm' = [dm EXCEPT ![d] = Down]
  /\ owner' = IF owner = d THEN Nobody ELSE owner
  /\ core' = [e \in EpochNumbers |->
       IF core[e] = "alive" /\ disk[File("pid", e)] = Gone THEN "stray" ELSE core[e]]
  /\ UNCHANGED <<disk, stable>>

(* The host loses power: every process dies, every name that was not       *)
(* synced is found with one of the contents it may have.  The service puts *)
(* controller sockets under /var/run, which a boot empties.                *)
PowerLoss ==
  LET open == {f \in Files : f[1] # "controller" /\ stable[f] # {disk[f]}} IN
  /\ Fault
  /\ dm' = [d \in Daemons |-> Down] /\ owner' = Nobody
  /\ core' = [e \in EpochNumbers |-> IF core[e] = "none" THEN "none" ELSE "dead"]
  /\ \E found \in [open -> UNION {stable[f] : f \in open}] :
       /\ \A f \in open : found[f] \in stable[f]
       /\ disk' = [f \in Files |-> IF f \in open THEN found[f]
                                    ELSE IF f[1] = "controller" THEN Gone ELSE disk[f]]
  /\ stable' = [f \in Files |-> {disk'[f]}]

StoreNext ==
  \/ \E d \in Daemons :
       \/ Boot(d) \/ SweepNext(d) \/ Step(d) \/ Launched(d) \/ Stop(d)
       \/ RolledBack(d) \/ Done(d) \/ SweepFails(d) \/ DropFails(d) \/ SyncUncertain(d)
       \/ RestartFails(d) \/ Crash(d)
       \/ Launch(d, CHOOSE v \in Contents : TRUE)      \* any will do: they are alike
       \/ \E v \in Contents : Apply(d, v)
       \/ \E b \in BOOLEAN : Reconcile(d, b) \/ Restarted(d, b) \/ LaunchFails(d, b)
                               \/ ApplyFails(d, b) \/ RollBackFails(d, b)
  \/ PowerLoss

StoreSpec == StoreInit /\ [][StoreNext]_svars

(***************************************************************************)
(* Properties                                                              *)
(***************************************************************************)
(* The state is what the store's types say.                                *)
StoreTypeOK ==
  /\ disk \in [Files -> Values]
  /\ \A f \in Files : stable[f] \subseteq Values /\ disk[f] \in stable[f]
  /\ core \in [EpochNumbers -> {"none", "alive", "dead", "reaped", "stray"}]
  /\ owner \in Daemons \union {Nobody}
  /\ \A d \in Daemons : dm[d].cur \in 0 .. dm[d].alloc /\ dm[d].alloc <= MaxEpoch

(* A runtime config, a backup or a pid record is never found half written: *)
(* neither by a reader nor after a power loss, whatever call was cut off.  *)
NeverTorn ==
  \A f \in Files : f[1] \in {"config", "backup", "pid"} => Torn \notin stable[f]

(* Between two transactions the runtime file of the current epoch is the   *)
(* one its plan says, the old one after a rejected or rolled-back apply,   *)
(* and a commit reported durable survives a power loss.                    *)
ConfigKept ==
  \A d \in Daemons : Ready(d) /\ dm[d].cur # 0 =>
    LET f == File("config", dm[d].cur) IN
    /\ disk[f] = dm[d].conf
    /\ dm[d].durable => stable[f] = {dm[d].conf}

(* A boot that succeeded leaves nothing behind, however often its          *)
(* predecessors crashed in mid-operation or in mid-sweep: no artifact and  *)
(* no recorded process.                                                    *)
SweepComplete ==
  \A d \in Daemons : Ready(d) /\ dm[d].fresh =>
    \A e \in EpochNumbers :
      core[e] # "alive" /\ \A f \in Artifacts(e) : disk[f] = Gone

(* A controller socket outside the directory never outlives the last       *)
(* artifact that names its epoch: no later sweep could find it.            *)
SocketFindable ==
  \A e \in EpochNumbers :
    disk[File("controller", e)] # Gone => e \in ArtifactEpochs(disk)

(* No daemon reaps the core another daemon is running.                     *)
CurrentNotReaped ==
  \A d \in Daemons : Ready(d) /\ dm[d].cur # 0 => core[dm[d].cur] # "reaped"
=============================================================================
