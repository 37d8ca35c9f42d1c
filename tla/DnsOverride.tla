---------------------------- MODULE DnsOverride ----------------------------
(***************************************************************************)
(* The host DNS override that a core manager owns while a protected config *)
(* runs (chimera-core-manager/src/manager/dns_sync.rs and dns.rs): what is *)
(* on the host, what the durable record says, and what the manager has in  *)
(* memory, across failed writes, uncertain platform calls, core deaths,    *)
(* daemon crashes and restarts.                                            *)
(*                                                                         *)
(* The manager's control lock is held across a transaction, so only the    *)
(* host, the core's own death and a crash of the daemon come between its   *)
(* steps; one step here is one durable or external effect.  Transactions   *)
(* are the start, the hard switch, the stop, the shutdown and the recovery *)
(* of a quarantine (calls that return without effect are left out).  A     *)
(* controller is injected, and it is structural: restore deletes the       *)
(* override and does not write `previous` back (dns.rs, contract limit L8).*)
(***************************************************************************)
EXTENDS Naturals

CONSTANTS
  MaxCrashes,         \* bound: daemon crashes in a behaviour
  BootRestoreMayFail  \* whether the restore at startup can fail or time out

ASSUME DnsAssumption == MaxCrashes \in Nat /\ BootRestoreMayFail \in BOOLEAN

VARIABLES
  host_dns,    \* the host's resolver: "clean", or "override" (ours)
  file,        \* dns-override.json
  dns_record,  \* Ctrl::dns_record
  core,        \* the live runtime's plan: "plain", "protected", or "down"
  plan,        \* the target plan of the transaction
  pc,          \* where the transaction is
  after,       \* where the running DNS procedure returns to, on ok and on err
  previous,    \* apply's read-back before its write
  quarantined, \* whether some epoch's death is unconfirmed
  died,        \* history: the core ended by itself during the transaction
  crashes

vars == <<host_dns, file, dns_record, core, plan, pc, after, previous,
          quarantined, died, crashes>>
recordVars == <<file, dns_record>>
contextVars == <<core, plan, previous, quarantined, died, crashes>>

Resolver == {"clean", "override"}
Plans == {"plain", "protected"}

(***************************************************************************)
(* DnsOverrideRecord up to what the code looks at.  A pre-record has an    *)
(* empty interface and no baseline, a read-back has both.  The state field *)
(* (Applied, RestorePending) is written and never read.                    *)
(***************************************************************************)
Records == [interface: {"none", "empty", "known"}, previous: Resolver]
NoRecord == [interface |-> "none", previous |-> "clean"]

Labels == {"idle", "launch", "undo_launch", "spawn", "retire", "stop", "succeeded",
           "failed", "ok", "err", "pre", "apply", "readback", "mark", "undo", "clear",
           "boot", "boot_clear", "dead"}

TypeOK ==
  /\ host_dns \in Resolver /\ previous \in Resolver
  /\ file \in Records /\ dns_record \in Records
  /\ core \in Plans \cup {"down"} /\ plan \in Plans
  /\ pc \in Labels /\ after \in [ok: Labels, err: Labels]
  /\ quarantined \in {"no", "yes"} /\ died \in {"no", "yes"}
  /\ crashes \in 0 .. MaxCrashes

Init ==
  /\ host_dns = "clean" /\ previous = "clean"
  /\ file = NoRecord /\ dns_record = NoRecord
  /\ core = "down" /\ plan = "plain"
  /\ pc = "boot" /\ after = [ok |-> "idle", err |-> "idle"]
  /\ quarantined = "no" /\ died = "no" /\ crashes = 0

Goto(label) == pc' = label /\ after' = after

(***************************************************************************)
(* persist_dns_record.  The publish is atomic, and memory advances exactly *)
(* when the file does; a failure leaves both.                              *)
(***************************************************************************)
Persist(record) == file' = record /\ dns_record' = record

-----------------------------------------------------------------------------
(* dns_restore, with the two places it returns to.                         *)

EnterRestore(ok, err) ==
  IF dns_record = NoRecord THEN Goto(ok)
  ELSE pc' = "mark" /\ after' = [ok |-> ok, err |-> err]

(* Marking the record RestorePending is best effort.                       *)
Mark ==
  /\ pc = "mark"
  /\ \/ Persist(dns_record)
     \/ UNCHANGED recordVars
  /\ Goto("undo")
  /\ UNCHANGED <<host_dns, contextVars>>

(* DnsController::restore: Ok only on a clean read-back; an error or a     *)
(* timeout says nothing about the side effect.                             *)
Restore(ok) == host_dns' \in IF ok THEN {"clean"} ELSE {host_dns, "clean"}

Undo(ok) ==
  /\ pc = "undo"
  /\ Restore(ok)
  /\ Goto(IF ok THEN "clear" ELSE after.err)
  /\ UNCHANGED <<recordVars, contextVars>>

(* A record that cannot be cleared is logged, not an error.                *)
Clear ==
  /\ pc = "clear"
  /\ Persist(NoRecord) \/ UNCHANGED recordVars
  /\ Goto(after.ok)
  /\ UNCHANGED <<host_dns, contextVars>>

-----------------------------------------------------------------------------
(* dns_activate_for_plan and the applying half of dns_converge.            *)

EnterApply(ok, err) == pc' = "pre" /\ after' = [ok |-> ok, err |-> err]

HasBaseline == dns_record.interface = "known"

(* Mutants: an unwritable record does not stop the apply; the pre-record    *)
(* forgets the baseline.                                                   *)
PreRecordOptional(ok) ==
  /\ pc = "pre"
  /\ IF ok THEN Persist(IF HasBaseline THEN dns_record
                        ELSE [interface |-> "empty", previous |-> "clean"])
           ELSE UNCHANGED recordVars
  /\ Goto("apply")
  /\ UNCHANGED <<host_dns, contextVars>>

(* The ownership record before the side effect, with the baseline if one   *)
(* was read back before.                                                   *)
PreRecord(ok) ==
  /\ pc = "pre"
  /\ IF ok THEN Persist(IF HasBaseline THEN dns_record
                        ELSE [interface |-> "empty", previous |-> "clean"])
           ELSE UNCHANGED recordVars
  /\ Goto(IF ok THEN "apply" ELSE after.err)
  /\ UNCHANGED <<host_dns, contextVars>>

(* DnsController::apply: Ok only when the read-back shows the override.    *)
Apply(ok) ==
  /\ pc = "apply"
  /\ previous' = host_dns
  /\ host_dns' \in IF ok THEN {"override"} ELSE {host_dns, "override"}
  /\ Goto(IF ok THEN "readback" ELSE after.err)
  /\ UNCHANGED <<recordVars, core, plan, quarantined, died, crashes>>

ReadBack(ok) ==
  /\ pc = "readback"
  /\ IF ok THEN Persist([interface |-> "known",
                         previous |-> IF HasBaseline THEN dns_record.previous
                                                     ELSE previous])
           ELSE UNCHANGED recordVars
  /\ Goto(IF ok THEN after.ok ELSE after.err)
  /\ UNCHANGED <<host_dns, contextVars>>

-----------------------------------------------------------------------------
(* start, and a reconcile or switch with nothing running.  `next`: the      *)
(* launch is prepared; or it could not be; or, in start, the stale epoch    *)
(* could not be discarded, which returns without the converge tail.  A      *)
(* stale epoch that is not proved dead is quarantined.                     *)
Start(target, next) ==
  /\ pc = "idle"
  /\ core = "down" /\ quarantined = "no"
  /\ plan' = target
  /\ died' = "no"
  /\ Goto(next)
  /\ quarantined' \in IF next = "launch" THEN {"no"} ELSE {"no", "yes"}
  /\ UNCHANGED <<host_dns, recordVars, core, previous, crashes>>

(* hard_switch: before the old plan goes, restore if the new one does not  *)
(* want the override; the caller keeps the old runtime if that fails.      *)
HardSwitch(target, ok) ==
  /\ pc = "idle"
  /\ core # "down" /\ quarantined = "no"
  /\ plan' = target
  /\ died' = "no"
  /\ IF ~ok THEN Goto("failed")
     ELSE IF target = "protected" THEN Goto("retire")
     ELSE EnterRestore("retire", "failed")
  /\ UNCHANGED <<host_dns, recordVars, core, previous, quarantined, crashes>>

(* A stop that does not succeed may leave the epoch quarantined.           *)
MayQuarantine(ok) ==
  quarantined' \in IF ok THEN {quarantined} ELSE {quarantined, "yes"}

(* retire_current                                                          *)
Retire(ok) ==
  /\ pc = "retire"
  /\ core' = "down"
  /\ Goto(IF ok THEN "launch" ELSE "failed")
  /\ MayQuarantine(ok)
  /\ UNCHANGED <<host_dns, recordVars, plan, previous, died, crashes>>

(* start_prepared                                                          *)
Launch ==
  /\ pc = "launch"
  /\ IF plan = "protected" THEN EnterApply("spawn", "undo_launch")
                           ELSE EnterRestore("spawn", "failed")
  /\ UNCHANGED <<host_dns, recordVars, contextVars>>

UndoLaunch ==
  /\ pc = "undo_launch"
  /\ EnterRestore("failed", "failed")
  /\ UNCHANGED <<host_dns, recordVars, contextVars>>

Spawned ==
  /\ pc = "spawn"
  /\ core' = plan
  /\ Goto("succeeded")
  /\ UNCHANGED <<host_dns, recordVars, plan, previous, quarantined, died, crashes>>

(* Not spawned, or not ready and confirmed dead; or not confirmed dead.    *)
SpawnFails(confirmed) ==
  /\ pc = "spawn"
  /\ Goto(IF confirmed THEN "undo_launch" ELSE "failed")
  /\ quarantined' = IF confirmed THEN quarantined ELSE "yes"
  /\ UNCHANGED <<host_dns, recordVars, core, plan, previous, died, crashes>>

(* finish_dns_converge: dns_converge, unless a failed transaction left a   *)
(* live runtime.                                                           *)
Succeeded ==
  /\ pc = "succeeded"
  /\ IF core = "protected" THEN EnterApply("ok", "err") ELSE EnterRestore("ok", "err")
  /\ UNCHANGED <<host_dns, recordVars, contextVars>>

Failed ==
  /\ pc = "failed"
  /\ IF core = "down" THEN EnterRestore("err", "err") ELSE Goto("err")
  /\ UNCHANGED <<host_dns, recordVars, contextVars>>

(* Mutant: a failed restore does not stop the stop.                        *)
StopAnyway ==
  /\ pc = "idle"
  /\ died' = "no"
  /\ EnterRestore("stop", "stop")
  /\ UNCHANGED <<host_dns, recordVars, core, plan, previous, quarantined, crashes>>

(* stop and shutdown: restore at the head, and only then the core.         *)
Stop ==
  /\ pc = "idle"
  /\ died' = "no"
  /\ EnterRestore("stop", "err")
  /\ UNCHANGED <<host_dns, recordVars, core, plan, previous, quarantined, crashes>>

Halt(ok) ==
  /\ pc = "stop"
  /\ core' = "down"
  /\ Goto(IF ok THEN "ok" ELSE "err")
  /\ MayQuarantine(ok)
  /\ UNCHANGED <<host_dns, recordVars, plan, previous, died, crashes>>

(* recover_quarantine: every uncertain epoch is proved dead, or none of    *)
(* this happens.                                                           *)
Recover ==
  /\ pc = "idle"
  /\ quarantined = "yes"
  /\ quarantined' = "no"
  /\ died' = "no"
  /\ EnterRestore("ok", "err")
  /\ UNCHANGED <<host_dns, recordVars, core, plan, previous, crashes>>

Done ==
  /\ pc \in {"ok", "err"}
  /\ Goto("idle")
  /\ UNCHANGED <<host_dns, recordVars, contextVars>>

-----------------------------------------------------------------------------
CoreDies ==
  /\ core # "down"
  /\ core' = "down"
  /\ died' = "yes"
  /\ UNCHANGED <<host_dns, recordVars, plan, pc, after, previous, quarantined, crashes>>

Crash ==
  /\ pc # "dead"
  /\ crashes < MaxCrashes
  /\ crashes' = crashes + 1
  /\ dns_record' = NoRecord /\ quarantined' = "no"
  /\ Goto("dead")
  /\ UNCHANGED <<host_dns, file, core, plan, previous, died>>

(* build_configured: sweep_orphans, then reconcile_orphan_record.  Memory  *)
(* starts empty whatever became of the record.                             *)
Sweep ==
  /\ pc = "dead"
  /\ core' = "down"
  /\ Goto("boot")
  /\ UNCHANGED <<host_dns, recordVars, plan, previous, quarantined, died, crashes>>

NoOrphan ==
  /\ pc = "boot"
  /\ file = NoRecord
  /\ Goto("idle")
  /\ UNCHANGED <<host_dns, recordVars, contextVars>>

(* Mutants: the orphan is left for later; a failed restore clears the      *)
(* record all the same.                                                    *)
BootSkips(ok) ==
  /\ pc = "boot"
  /\ file # NoRecord
  /\ Goto("idle")
  /\ UNCHANGED <<host_dns, recordVars, contextVars>>

BootRestore(ok) ==
  /\ pc = "boot"
  /\ file # NoRecord
  /\ ~ok => BootRestoreMayFail
  /\ Restore(ok)
  /\ Goto(IF ok THEN "boot_clear" ELSE "idle")
  /\ UNCHANGED <<recordVars, contextVars>>

BootClear ==
  /\ pc = "boot_clear"
  /\ file' \in {NoRecord, file}
  /\ Goto("idle")
  /\ UNCHANGED <<host_dns, dns_record, contextVars>>

-----------------------------------------------------------------------------
Procedure ==
  \/ Mark \/ Clear
  \/ \E ok \in BOOLEAN : Undo(ok) \/ PreRecord(ok) \/ Apply(ok) \/ ReadBack(ok)

Transaction ==
  \/ \E ok \in BOOLEAN : Retire(ok) \/ SpawnFails(ok) \/ Halt(ok)
  \/ Launch \/ UndoLaunch \/ Spawned \/ Succeeded \/ Failed \/ Done

Boot == Sweep \/ NoOrphan \/ BootClear \/ \E ok \in BOOLEAN : BootRestore(ok)

Next ==
  \/ \E target \in Plans :
       \/ \E next \in {"launch", "failed", "err"} : Start(target, next)
       \/ \E ok \in BOOLEAN : HardSwitch(target, ok)
  \/ Stop \/ Recover
  \/ Procedure \/ Transaction \/ Boot
  \/ CoreDies \/ Crash

Spec == Init /\ [][Next]_vars

(***************************************************************************)
(* A transaction that began goes on, since each of its calls is bounded by *)
(* a timeout, and a daemon that crashed is started again by its host.      *)
(***************************************************************************)
FairSpec == Spec /\ WF_vars(Procedure) /\ WF_vars(Transaction) /\ WF_vars(Boot)

-----------------------------------------------------------------------------
(* Properties                                                              *)

(***************************************************************************)
(* Whatever crashes, fails or times out, an override on the host has its   *)
(* durable record: "an override nothing recorded is an override nothing    *)
(* can undo" (dns_sync.rs:17).                                             *)
(***************************************************************************)
OverrideIsRecorded == host_dns = "override" => file # NoRecord

(***************************************************************************)
(* "Public manager entry points must not return success while the host     *)
(* resolver state is uncertain" (dns_sync.rs:293): a transaction that      *)
(* returns Ok leaves the override on exactly when a protected core runs    *)
(* (unless the core ended by itself meanwhile).                            *)
(***************************************************************************)
OkIsConverged ==
  pc = "ok" /\ died = "no" => (host_dns = "override" <=> core = "protected")

(***************************************************************************)
(* A protected runtime is launched only behind its override, and a plain   *)
(* one only without it (start_prepared).                                   *)
(***************************************************************************)
LaunchedBehindOverride ==
  [][Spawned => (host_dns = "override" <=> plan = "protected")]_vars

(***************************************************************************)
(* An override left behind by a crash does not stay: the next daemon takes *)
(* it off the host.                                                        *)
(***************************************************************************)
OrphanIsUndone == pc = "dead" /\ host_dns = "override" ~> host_dns = "clean"
=============================================================================
