---------------------------- MODULE CoreManager ----------------------------
(***************************************************************************)
(* The core manager's transactions (chimera-core-manager/src/manager/):    *)
(* start, stop, shutdown, switch (hard and graceful), reconcile (in place, *)
(* restart and switch with compensation) and the recovery of a quarantine. *)
(*                                                                         *)
(* The control lock is held across a transaction, so its steps interleave  *)
(* only with a core that dies and with the forwarder, which publishes that *)
(* death without the lock.  One step here ends at one external effect: a   *)
(* file, a DNS call, a process started or stopped, a publication.  Calls   *)
(* refused at the door (quarantine, AlreadyRunning, NotStarted, a revision *)
(* conflict) change nothing and are left out.                              *)
(*                                                                         *)
(* DNS calls are one step each here; module DnsOverride looks inside.  An  *)
(* instance is alive or dead; module Instance looks inside.                *)
(***************************************************************************)
EXTENDS Naturals, FiniteSets

CONSTANTS
  Configs,       \* desired configurations (source spec and document)
  Protected,     \* those that want the host DNS override
  MaxEpochs,     \* bound: epochs allocated
  MaxGeneration, \* bound: generations of one epoch
  DnsMayFail     \* whether a DNS call can fail

ASSUME ManagerAssumption ==
  /\ Protected \subseteq Configs
  /\ MaxEpochs \in Nat \ {0} /\ MaxGeneration \in Nat \ {0} /\ DnsMayFail \in BOOLEAN

VARIABLES
  epochs,      \* EpochAllocator::last
  current,     \* Ctrl::current: plan, whether it lives, whether its forwarder runs
  cand,        \* the instance a transaction has launched and not installed
  strays,      \* epochs with a live process that no Instance stands for
  quarantine,  \* Ctrl::quarantine
  dns,         \* the override on the host, with its record
  disk,        \* runtime config of every epoch
  status,      \* the CoreStatus watch: state, revision, and (history) a note
  tx           \* the transaction: pc, kind, target and old plan, locals

mvars == <<epochs, current, cand, strays, quarantine, dns, disk, status, tx>>

Epochs == 1 .. MaxEpochs
NoPlan == [epoch |-> 0, gen |-> 0, cfg |-> "none"]
Plan(e, g, c) == [epoch |-> e, gen |-> g, cfg |-> c]
None == [plan |-> NoPlan, alive |-> FALSE, fwd |-> FALSE]
Contents == Configs \union {"none", "bootstrap"}

(* instance.state().borrow().state.is_terminal(), negated.                 *)
Running == current # None /\ current.alive

Idle == [pc |-> "idle", kind |-> "none", plan |-> NoPlan, old |-> NoPlan,
         begin |-> None, backup |-> "none", graceful |-> FALSE,
         result |-> "none", dnsFailed |-> FALSE, died |-> FALSE]

ManagerInit ==
  /\ epochs = 0 /\ current = None /\ cand = None
  /\ strays = {} /\ quarantine = {} /\ dns = FALSE
  /\ disk = [e \in Epochs |-> "none"]
  /\ status = [state |-> "Stopped", rev |-> NoPlan, note |-> "none"]
  /\ tx = Idle

(***************************************************************************)
(* What the steps are made of                                              *)
(***************************************************************************)
At(pc) == [tx EXCEPT !.pc = pc]
Fails(dnsOk) == [tx EXCEPT !.pc = "tail", !.result = "err", !.dnsFailed = @ \/ ~dnsOk]
Succeeds(result) == [tx EXCEPT !.pc = "tail", !.result = result]

Publish(state, plan) == status' = [state |-> state, rev |-> plan, note |-> "none"]
PublishTerminalError == Publish("Stopped", NoPlan)

(* Mutant: a failed switch leaves the Switching frame.                     *)
RepublishNothing == UNCHANGED status

(* republish_retained: the state of the instance that is still there.      *)
RepublishRetained ==
  IF current = None THEN UNCHANGED status
  ELSE Publish(IF current.alive THEN "Running" ELSE "Stopped", current.plan)

Cleaned(d, e) == [d EXCEPT ![e] = "none"]

(* DnsController calls: an error says nothing about the side effect.       *)
WantsOverride(plan) == plan.cfg \in Protected
DnsRestore(ok) == dns' \in (IF ok \/ ~dns THEN {FALSE} ELSE {dns, FALSE})
DnsRestorable(ok) == ok \/ (dns /\ DnsMayFail)              \* without a record nothing can fail
DnsActivate(plan, ok) ==
  /\ ok \/ DnsMayFail
  /\ IF WantsOverride(plan) THEN dns' \in (IF ok THEN {TRUE} ELSE {dns, TRUE})
                            ELSE ok /\ dns' = dns
DnsDeactivate(plan, ok) ==
  IF WantsOverride(plan) THEN ok /\ dns' = dns ELSE DnsRestorable(ok) /\ DnsRestore(ok)
(* Exactly one of the two acts for a given plan.                           *)
DnsPrepare(plan, ok) ==
  IF WantsOverride(plan) THEN DnsActivate(plan, ok) ELSE DnsDeactivate(plan, ok)
DnsConverge(ok) ==
  IF Running /\ WantsOverride(current.plan) THEN DnsActivate(current.plan, ok)
  ELSE DnsRestorable(ok) /\ DnsRestore(ok)

(* stop_and_confirm_dead of an instance: "dead", "store" (dead, but the    *)
(* store refused) or "unconfirmed", where the process may live on.         *)
StopOutcomes == {"dead", "store", "unconfirmed"}
StopInstance(inst, outcome) ==
  strays' \in (IF outcome = "unconfirmed" /\ inst.alive
                 THEN {strays, strays \union {inst.plan.epoch}} ELSE {strays})

(* record_quarantine: at most one entry per epoch.                         *)
Record(q, e) ==
  IF \E entry \in q : entry.epoch = e THEN q
  ELSE q \union {[epoch |-> e, proven |-> FALSE]}

(* latch_quarantine                                                        *)
LatchedStatus == status' = [state |-> "Stopped", rev |-> NoPlan, note |-> "latched"]
Latch(q, e) == quarantine' = Record(q, e) /\ LatchedStatus

(* install: the slot, with a forwarder.                                    *)
Installed(inst) == [inst EXCEPT !.fwd = TRUE]
Launched(plan) == [plan |-> plan, alive |-> TRUE, fwd |-> FALSE]

Begin(kind, c, pc) ==
  [Idle EXCEPT !.pc = pc, !.kind = kind, !.plan = Plan(0, 1, c), !.begin = current,
               !.old = current.plan]

(***************************************************************************)
(* start, and a switch or reconcile with nothing running                   *)
(***************************************************************************)
EnterStart(kind, c) ==
  /\ tx.pc = "idle" /\ quarantine = {} /\ ~Running /\ epochs < MaxEpochs
  /\ tx' = Begin(kind, c, IF current = None THEN "prepare" ELSE "discard")
  /\ UNCHANGED <<epochs, current, cand, strays, quarantine, dns, disk, status>>

(* discard_stale: retire_current and cleanup_epoch of a dead epoch.  In    *)
(* start() its error returns without the converge tail.  The aborted       *)
(* forwarder may not have published the death, and an error here does not  *)
(* either: the status may go on naming an epoch that is gone (dropped).    *)
Discard(outcome, cleaned) ==
  /\ tx.pc = "discard"
  /\ current' = None
  /\ StopInstance(current, outcome)
  /\ IF outcome = "unconfirmed"
       THEN Latch(quarantine, current.plan.epoch) /\ UNCHANGED disk
       ELSE /\ UNCHANGED quarantine
            /\ disk' = IF outcome = "dead" /\ cleaned THEN Cleaned(disk, current.plan.epoch)
                       ELSE disk
            /\ status' = [status EXCEPT !.note = IF outcome = "dead" /\ cleaned THEN @ ELSE "dropped"]
  /\ tx' = IF outcome = "dead" /\ cleaned THEN At("prepare")
           ELSE IF tx.kind = "start" THEN [Idle EXCEPT !.kind = "start", !.result = "err"]
           ELSE Fails(TRUE)
  /\ UNCHANGED <<epochs, cand, dns>>

(* start_locked: a fresh epoch, checked, staged and committed; or not.     *)
Prepare(ok) ==
  /\ tx.pc = "prepare" /\ epochs < MaxEpochs
  /\ epochs' = epochs + 1
  /\ IF ok
       THEN /\ disk' = [disk EXCEPT ![epochs + 1] = tx.plan.cfg]
            /\ tx' = [tx EXCEPT !.pc = "launch", !.plan.epoch = epochs + 1]
            /\ UNCHANGED status
       ELSE PublishTerminalError /\ tx' = Fails(TRUE) /\ UNCHANGED disk
  /\ UNCHANGED <<current, cand, strays, quarantine, dns>>

(* start_prepared, up to the Starting frame.  A failed activation is       *)
(* undone at best effort.                                                  *)
LaunchPlan(ok) ==
  /\ tx.pc = "launch"
  /\ ok \/ DnsMayFail
  /\ IF ~ok /\ WantsOverride(tx.plan) THEN dns' \in BOOLEAN ELSE DnsPrepare(tx.plan, ok)
  /\ IF ok
       THEN Publish("Starting", tx.plan) /\ tx' = At("spawn") /\ UNCHANGED disk
       ELSE /\ PublishTerminalError /\ disk' = Cleaned(disk, tx.plan.epoch)
            /\ tx' = Fails(FALSE)
  /\ UNCHANGED <<epochs, current, cand, strays, quarantine>>

(* Spawned; or not, and then DNS is restored at best effort.               *)
Spawn(ok, restored) ==
  /\ tx.pc = "spawn"
  /\ IF ok
       THEN /\ restored
            /\ cand' = Launched(tx.plan) /\ tx' = At("ready")
            /\ UNCHANGED <<dns, disk, status>>
       ELSE /\ DnsRestorable(restored) /\ DnsRestore(restored)
            /\ PublishTerminalError /\ disk' = Cleaned(disk, tx.plan.epoch)
            /\ tx' = Fails(restored) /\ UNCHANGED cand
  /\ UNCHANGED <<epochs, current, strays, quarantine>>

(* wait_ready returned Ok: Running is published, then install.             *)
Ready ==
  /\ tx.pc = "ready"
  /\ Publish("Running", tx.plan)
  /\ tx' = At("install")
  /\ UNCHANGED <<epochs, current, cand, strays, quarantine, dns, disk>>

(* wait_ready failed: the candidate must be proven dead.                   *)
NotReady(outcome, restored) ==
  /\ tx.pc = "ready"
  /\ StopInstance(cand, outcome)
  /\ cand' = None
  /\ IF outcome = "dead"
       THEN /\ DnsRestorable(restored) /\ DnsRestore(restored)
            /\ PublishTerminalError /\ disk' = Cleaned(disk, tx.plan.epoch)
            /\ tx' = Fails(restored) /\ UNCHANGED quarantine
       ELSE /\ restored
            /\ Latch(quarantine, tx.plan.epoch) /\ tx' = Fails(TRUE)
            /\ UNCHANGED <<dns, disk>>
  /\ UNCHANGED <<epochs, current>>

(* What the transaction returns once its candidate is in the slot.         *)
Outcome ==
  IF tx.kind # "reconcile" THEN "ok"
  ELSE IF tx.begin.alive /\ tx.plan = tx.old THEN "RolledBack" ELSE "ok"

Install ==
  /\ tx.pc = "install"
  /\ current' = Installed(cand) /\ cand' = None
  /\ tx' = IF tx.graceful THEN At("cleanold") ELSE Succeeds(Outcome)
  /\ UNCHANGED <<epochs, strays, quarantine, dns, disk, status>>

(***************************************************************************)
(* stop and shutdown                                                       *)
(***************************************************************************)
(* dns_restore at the head; then the slot is emptied and the forwarder     *)
(* aborted.  stop() of a core that is already dead publishes just that.    *)
StopCurrent(kind, ok) ==
  /\ tx.pc = "idle" /\ current # None
  /\ DnsRestorable(ok) /\ DnsRestore(ok)
  /\ IF ok
       THEN /\ tx' = Begin(kind, current.plan.cfg, "stopping")
            /\ cand' = [current EXCEPT !.fwd = FALSE] /\ current' = None
            /\ Publish(IF current.alive \/ kind = "shutdown" THEN "Stopping" ELSE "Stopped",
                       current.plan)
       ELSE /\ tx' = [Begin(kind, current.plan.cfg, "idle")
                        EXCEPT !.result = "err", !.dnsFailed = TRUE]
            /\ UNCHANGED <<cand, current, status>>
  /\ UNCHANGED <<epochs, strays, quarantine, disk>>

(* With nothing in the slot the head restore is all that happens.          *)
StopNothing(ok) ==
  /\ tx.pc = "idle" /\ current = None /\ dns
  /\ DnsRestorable(ok) /\ DnsRestore(ok)
  /\ UNCHANGED <<epochs, current, cand, strays, quarantine, disk, status, tx>>

Stopping(outcome, cleaned) ==
  /\ tx.pc = "stopping"
  /\ StopInstance(cand, outcome)
  /\ cand' = None
  /\ LET done == outcome = "dead" /\ cleaned
         corpse == tx.kind = "stop" /\ ~tx.begin.alive
     IN /\ disk' = IF done THEN Cleaned(disk, cand.plan.epoch) ELSE disk
        /\ IF outcome = "unconfirmed" THEN Latch(quarantine, cand.plan.epoch)
           ELSE /\ UNCHANGED quarantine
                /\ IF corpse /\ (done \/ outcome = "store") THEN UNCHANGED status
                   ELSE PublishTerminalError
        /\ tx' = [Idle EXCEPT !.kind = tx.kind, !.died = tx.died,
                              !.result = IF done /\ ~corpse THEN "ok" ELSE "err"]
  /\ UNCHANGED <<epochs, current, dns>>

(***************************************************************************)
(* switch_locked with a running core                                       *)
(***************************************************************************)
EnterSwitch(c, graceful) ==
  /\ tx.pc = "idle" /\ quarantine = {} /\ Running /\ epochs < MaxEpochs
  /\ tx' = [Begin("switch", c, "sprepare") EXCEPT !.graceful = graceful]
  /\ UNCHANGED <<epochs, current, cand, strays, quarantine, dns, disk, status>>

(* hard_switch and graceful_switch: prepare, then the DNS step of each,    *)
(* then Switching.  Until here a failure leaves the old core as it was;    *)
(* the graceful one converges DNS again after an uncertain activation.     *)
SwitchPrepare(prepared, ok, undone) ==
  /\ tx.pc = "sprepare" /\ epochs < MaxEpochs
  /\ epochs' = epochs + 1
  /\ LET plan == Plan(epochs + 1, 1, tx.plan.cfg)
         act == IF tx.graceful THEN DnsActivate(plan, ok) ELSE DnsDeactivate(plan, ok)
     IN IF prepared /\ ok
          THEN /\ act /\ undone
               /\ disk' = [disk EXCEPT ![plan.epoch] = IF tx.graceful THEN "bootstrap"
                                                       ELSE plan.cfg]
               /\ Publish("Switching", plan)
               /\ tx' = [tx EXCEPT !.pc = IF tx.graceful THEN "gspawn" ELSE "hretire",
                                   !.plan = plan]
          ELSE /\ IF prepared
                    THEN IF tx.graceful
                           THEN /\ WantsOverride(plan) /\ DnsMayFail
                                /\ IF undone THEN DnsConverge(TRUE) ELSE dns' \in BOOLEAN
                           ELSE undone /\ act
                    ELSE ok /\ undone /\ UNCHANGED dns
               /\ RepublishRetained /\ tx' = Fails(ok /\ undone) /\ UNCHANGED disk
  /\ UNCHANGED <<current, cand, strays, quarantine>>

(* hard_switch: the old core goes first.                                   *)
HardRetire(outcome, cleaned) ==
  /\ tx.pc = "hretire"
  /\ current' = None
  /\ StopInstance(current, outcome)
  /\ CASE outcome = "unconfirmed" ->
            /\ Latch(quarantine, tx.old.epoch)
            /\ disk' = Cleaned(disk, tx.plan.epoch) /\ tx' = Fails(TRUE)
       [] outcome = "store" ->
            /\ PublishTerminalError /\ UNCHANGED quarantine
            /\ disk' = Cleaned(disk, tx.plan.epoch) /\ tx' = Fails(TRUE)
       [] outcome = "dead" /\ ~cleaned ->
            /\ PublishTerminalError /\ tx' = Fails(TRUE)
            /\ UNCHANGED <<quarantine, disk>>
       [] outcome = "dead" /\ cleaned ->
            /\ disk' = Cleaned(disk, tx.old.epoch) /\ tx' = At("launch")
            /\ UNCHANGED <<quarantine, status>>
  /\ UNCHANGED <<epochs, cand, dns>>

(* graceful_switch: the new core comes up next to the old one.             *)
GracefulSpawn(ok) ==
  /\ tx.pc = "gspawn"
  /\ IF ok
       THEN cand' = Launched(tx.plan) /\ tx' = At("gready") /\ UNCHANGED <<disk, status>>
       ELSE /\ disk' = Cleaned(disk, tx.plan.epoch) /\ RepublishRetained
            /\ tx' = Fails(TRUE) /\ UNCHANGED cand
  /\ UNCHANGED <<epochs, current, strays, quarantine, dns>>

(* The rejected newcomer is stopped; the old core stays.                   *)
RejectNewcomer(outcome, dnsOk) ==
  /\ StopInstance(cand, outcome)
  /\ cand' = None
  /\ IF outcome = "dead"
       THEN disk' = Cleaned(disk, tx.plan.epoch) /\ RepublishRetained /\ UNCHANGED quarantine
       ELSE Latch(quarantine, tx.plan.epoch) /\ UNCHANGED disk
  /\ tx' = Fails(dnsOk)

GracefulReady(ok, outcome) ==
  /\ tx.pc = "gready"
  /\ IF ok
       THEN outcome = "dead" /\ tx' = At("gdns")
            /\ UNCHANGED <<cand, strays, quarantine, disk, status>>
       ELSE RejectNewcomer(outcome, TRUE)
  /\ UNCHANGED <<epochs, current, dns>>

GracefulDns(ok, outcome) ==
  /\ tx.pc = "gdns"
  /\ DnsDeactivate(tx.plan, ok)
  /\ IF ok
       THEN outcome = "dead" /\ tx' = At("gretire")
            /\ UNCHANGED <<cand, strays, quarantine, disk, status>>
       ELSE RejectNewcomer(outcome, FALSE)
  /\ UNCHANGED <<epochs, current>>

(* Mutant: the newcomer's fate is forgotten when the old core's is known.  *)
UncertainOld(outcome, new) ==
  IF outcome = "unconfirmed" THEN Record(quarantine, tx.old.epoch)
  ELSE IF new # "dead" THEN Record(quarantine, tx.plan.epoch) ELSE quarantine

(* Whose death is in doubt when both cores had to go.                      *)
Uncertain(outcome, new) ==
  LET q == IF outcome = "unconfirmed" THEN Record(quarantine, tx.old.epoch) ELSE quarantine
  IN IF new # "dead" THEN Record(q, tx.plan.epoch) ELSE q

(* The old core is retired.  If that fails the newcomer goes as well, and  *)
(* both may end up quarantined.                                            *)
GracefulRetire(outcome, new) ==
  /\ tx.pc = "gretire"
  /\ current' = None
  /\ IF outcome = "dead"
       THEN /\ new = "dead" /\ tx' = At("gcommit")
            /\ UNCHANGED <<cand, strays, quarantine, disk, status>>
       ELSE /\ strays' \in {strays \union lost :
                 lost \in SUBSET ({c.plan.epoch : c \in
                   {i \in {current} : i.alive /\ outcome = "unconfirmed"} \union
                   {i \in {cand} : i.alive /\ new = "unconfirmed"}})}
            /\ cand' = None /\ tx' = Fails(TRUE)
            /\ quarantine' = Uncertain(outcome, new)
            /\ disk' = IF new = "dead" THEN Cleaned(disk, tx.plan.epoch) ELSE disk
            /\ IF quarantine' # quarantine THEN LatchedStatus ELSE PublishTerminalError
  /\ UNCHANGED <<epochs, dns>>

(* The full config replaces the bootstrap one.                             *)
GracefulCommit(ok, outcome) ==
  /\ tx.pc = "gcommit"
  /\ IF ok
       THEN /\ outcome = "dead"
            /\ disk' = [disk EXCEPT ![tx.plan.epoch] = tx.plan.cfg]
            /\ tx' = At("gverify") /\ UNCHANGED <<cand, strays, quarantine, status>>
       ELSE /\ StopInstance(cand, outcome) /\ cand' = None /\ tx' = Fails(TRUE)
            /\ IF outcome = "dead"
                 THEN /\ disk' = Cleaned(disk, tx.plan.epoch)
                      /\ PublishTerminalError /\ UNCHANGED quarantine
                 ELSE Latch(quarantine, tx.plan.epoch) /\ UNCHANGED disk
  /\ UNCHANGED <<epochs, current, dns>>

(* Patched to the full config and verified: Running; or the process is     *)
(* replaced by one that reads the full config from disk.                   *)
GracefulVerify(ok, outcome) ==
  /\ tx.pc = "gverify"
  /\ IF ok
       THEN /\ outcome = "dead" /\ Publish("Running", tx.plan) /\ tx' = At("install")
            /\ UNCHANGED <<cand, strays, quarantine>>
       ELSE /\ StopInstance(cand, outcome) /\ cand' = None
            /\ CASE outcome = "dead" ->
                      tx' = At("replace") /\ UNCHANGED <<quarantine, status>>
                 [] outcome = "store" ->
                      PublishTerminalError /\ tx' = Fails(TRUE) /\ UNCHANGED quarantine
                 [] outcome = "unconfirmed" ->
                      Latch(quarantine, tx.plan.epoch) /\ tx' = Fails(TRUE)
  /\ UNCHANGED <<epochs, current, dns, disk>>

(* The old epoch's artifacts go last; a failure is an error although the   *)
(* switch has happened.                                                    *)
CleanOld(ok) ==
  /\ tx.pc = "cleanold"
  /\ IF ok THEN disk' = Cleaned(disk, tx.old.epoch) /\ tx' = Succeeds("ok")
           ELSE UNCHANGED disk /\ tx' = Fails(TRUE)
  /\ UNCHANGED <<epochs, current, cand, strays, quarantine, dns, status>>

(***************************************************************************)
(* reconcile with a running core: apply_locked                             *)
(***************************************************************************)
(* A changed config is prepared and backed up; the same one is a no-op; a  *)
(* changed process spec is a switch with compensation.                     *)
BeginApply(c, change) ==
  /\ tx.pc = "idle" /\ quarantine = {} /\ Running
  /\ (change = "noop") <=> (c = current.plan.cfg)
  /\ LET begin == Begin("reconcile", c, "tail") IN
     \/ tx' = [begin EXCEPT !.result = "err"]      \* check, stage or backup failed
     \/ change = "noop" /\ tx' = [begin EXCEPT !.result = "ok"]
     \/ change = "hot" /\ current.plan.gen < MaxGeneration
        /\ tx' = [begin EXCEPT !.pc = "adns", !.backup = disk[current.plan.epoch],
                    !.plan = Plan(current.plan.epoch, current.plan.gen + 1, c)]
     \/ change = "switch" /\ epochs < MaxEpochs /\ tx' = [begin EXCEPT !.pc = "cprepare"]
  /\ UNCHANGED <<epochs, current, cand, strays, quarantine, dns, disk, status>>

(* Mutant: the slot takes the plan before the commit is known.             *)
ApplyCommitEarly(dnsOk, ok, undone) ==
  /\ tx.pc = "adns"
  /\ dnsOk /\ undone /\ DnsPrepare(tx.plan, TRUE)
  /\ current' = [current EXCEPT !.plan = tx.plan]
  /\ tx' = IF ok THEN At("averify") ELSE Fails(TRUE)
  /\ disk' = IF ok THEN [disk EXCEPT ![tx.plan.epoch] = tx.plan.cfg] ELSE disk
  /\ UNCHANGED <<epochs, cand, strays, quarantine, status>>

(* Both DNS gates and the replacement of the file.  Whatever fails, the    *)
(* live plan's DNS is converged again; a failed restore is not retried.    *)
ApplyCommit(dnsOk, ok, undone) ==
  /\ tx.pc = "adns"
  /\ IF dnsOk /\ ok
       THEN /\ undone /\ DnsPrepare(tx.plan, TRUE)
            /\ disk' = [disk EXCEPT ![tx.plan.epoch] = tx.plan.cfg]
            /\ tx' = At("averify")
       ELSE /\ (ok \/ dnsOk) /\ UNCHANGED disk
            /\ tx' = Fails(dnsOk /\ undone)
            /\ IF ~dnsOk /\ ~WantsOverride(tx.plan)
                 THEN undone /\ DnsDeactivate(tx.plan, FALSE)
               ELSE /\ ~dnsOk => WantsOverride(tx.plan) /\ DnsMayFail
                    /\ undone \/ DnsMayFail
                    /\ IF undone THEN DnsConverge(TRUE) ELSE dns' \in BOOLEAN
  /\ UNCHANGED <<epochs, current, cand, strays, quarantine, status>>

(* reconcile_in_place: patched or reloaded, verified, probed healthy.  The *)
(* plan in the slot is replaced, and Running published again.              *)
ApplyVerified ==
  /\ tx.pc = "averify"
  /\ current' = [current EXCEPT !.plan = tx.plan]
  /\ Publish("Running", tx.plan)
  /\ tx' = Succeeds("ok")
  /\ UNCHANGED <<epochs, cand, strays, quarantine, dns, disk>>

(* restart_with_compensation: its DNS restore has been done already.       *)
ApplyRestart ==
  /\ tx.pc = "averify"
  /\ tx' = At("cretire")
  /\ UNCHANGED <<epochs, current, cand, strays, quarantine, dns, disk, status>>

(* switch_with_compensation                                                *)
ApplySwitch(prepared, ok) ==
  /\ tx.pc = "cprepare" /\ epochs < MaxEpochs
  /\ epochs' = epochs + 1
  /\ LET plan == Plan(epochs + 1, 1, tx.plan.cfg) IN
     IF prepared
       THEN /\ DnsDeactivate(plan, ok)
            /\ disk' = IF ok THEN [disk EXCEPT ![plan.epoch] = plan.cfg] ELSE disk
            /\ tx' = IF ok THEN [tx EXCEPT !.pc = "cretire", !.plan = plan] ELSE Fails(FALSE)
       ELSE ok /\ tx' = Fails(TRUE) /\ UNCHANGED <<dns, disk>>
  /\ UNCHANGED <<current, cand, strays, quarantine, status>>

(* The current core is retired for its replacement.                        *)
CompensatedRetire(outcome) ==
  /\ tx.pc = "cretire"
  /\ current' = None
  /\ StopInstance(current, outcome)
  /\ LET same == tx.plan.epoch = tx.old.epoch IN
     CASE outcome = "dead" ->
            /\ Publish(IF same THEN "Restarting" ELSE "Switching", tx.plan)
            /\ tx' = At("replace") /\ UNCHANGED <<quarantine, disk>>
       [] outcome # "dead" ->
            /\ disk' = IF same THEN disk ELSE Cleaned(disk, tx.plan.epoch)
            /\ tx' = Fails(TRUE)
            /\ IF outcome = "unconfirmed" THEN Latch(quarantine, tx.old.epoch)
               ELSE PublishTerminalError /\ UNCHANGED quarantine
  /\ UNCHANGED <<epochs, cand, dns>>

(***************************************************************************)
(* spawn_replacement, shared by the graceful switch and the compensations  *)
(***************************************************************************)
(* Where an error that leaves nothing behind leads: roll back once.        *)
Replaced(plan) == IF tx.graceful THEN Publish("Running", plan) ELSE UNCHANGED status

ReplaceFailed(dnsOk) ==
  IF tx.kind = "reconcile" /\ tx.plan # tx.old
    THEN /\ tx' = [tx EXCEPT !.pc = "rollback", !.dnsFailed = @ \/ ~dnsOk]
         /\ UNCHANGED <<disk, status>>
    ELSE /\ tx' = Fails(dnsOk) /\ PublishTerminalError
         /\ disk' = IF tx.graceful THEN Cleaned(disk, tx.plan.epoch) ELSE disk

Replace(dnsOk, ok) ==
  /\ tx.pc = "replace"
  /\ DnsPrepare(tx.plan, dnsOk)
  /\ IF dnsOk /\ ok
       THEN /\ cand' = Launched(tx.plan) /\ tx' = At("repready")
            /\ UNCHANGED <<disk, status>>
       ELSE (ok \/ dnsOk) /\ ReplaceFailed(dnsOk) /\ UNCHANGED cand
  /\ UNCHANGED <<epochs, current, strays, quarantine>>

(* Ready: the graceful switch publishes Running before install, the        *)
(* compensations after it.                                                 *)
ReplaceReady(ok, outcome) ==
  /\ tx.pc = "repready"
  /\ IF ok
       THEN /\ outcome = "dead" /\ Replaced(tx.plan)
            /\ tx' = At(IF tx.graceful THEN "install" ELSE "rinstall")
            /\ UNCHANGED <<cand, strays, quarantine, disk>>
       ELSE /\ StopInstance(cand, outcome) /\ cand' = None
            /\ IF outcome = "dead" THEN ReplaceFailed(TRUE) /\ UNCHANGED quarantine
               ELSE Latch(quarantine, tx.plan.epoch) /\ tx' = Fails(TRUE) /\ UNCHANGED disk
  /\ UNCHANGED <<epochs, current, dns>>

ReplaceInstall ==
  /\ tx.pc = "rinstall"
  /\ current' = Installed(cand) /\ cand' = None
  /\ tx' = At("rpublish")
  /\ UNCHANGED <<epochs, strays, quarantine, dns, disk, status>>

(* publish_active; after a switch the old epoch's artifacts go.            *)
ReplacePublish ==
  /\ tx.pc = "rpublish"
  /\ Publish("Running", tx.plan)
  /\ disk' = IF tx.plan.epoch # tx.old.epoch THEN Cleaned(disk, tx.old.epoch) ELSE disk
  /\ tx' = Succeeds(Outcome)
  /\ UNCHANGED <<epochs, current, cand, strays, quarantine, dns>>

(* Mutant: the old core is relaunched without its config.                  *)
RollbackKeepsDisk(ok) ==
  /\ tx.pc = "rollback"
  /\ ok
  /\ Publish("Restarting", tx.old)
  /\ tx' = [tx EXCEPT !.pc = "replace", !.plan = tx.old]
  /\ UNCHANGED <<epochs, current, cand, strays, quarantine, dns, disk>>

(* The backup is restored, or the rejected epoch removed, and the old plan *)
(* launched again.                                                         *)
Rollback(ok) ==
  /\ tx.pc = "rollback"
  /\ LET same == tx.plan.epoch = tx.old.epoch IN
     /\ ok \/ same
     /\ IF ok
          THEN /\ disk' = IF same THEN [disk EXCEPT ![tx.old.epoch] = tx.backup]
                          ELSE Cleaned(disk, tx.plan.epoch)
               /\ Publish("Restarting", tx.old)
               /\ tx' = [tx EXCEPT !.pc = "replace", !.plan = tx.old]
          ELSE PublishTerminalError /\ tx' = Fails(TRUE) /\ UNCHANGED disk
  /\ UNCHANGED <<epochs, current, cand, strays, quarantine, dns>>

(***************************************************************************)
(* The tail, recovery, and what happens around a transaction               *)
(***************************************************************************)
(* finish_dns_converge                                                     *)
ConvergeTail(ok) ==
  /\ tx.pc = "tail"
  /\ IF tx.result # "err" \/ ~Running THEN DnsConverge(ok) ELSE ok /\ UNCHANGED dns
  /\ tx' = [tx EXCEPT !.pc = "idle", !.dnsFailed = @ \/ ~ok,
                      !.result = IF ok THEN @ ELSE "err"]
  /\ UNCHANGED <<epochs, current, cand, strays, quarantine, disk, status>>

(* recover_quarantine: entries proven dead by their pid records are        *)
(* cleaned and leave; what remains is an error.                            *)
RecoverQuarantine(proven, cleaned, ok) ==
  /\ tx.pc = "idle" /\ quarantine # {}
  /\ LET dead == {q \in quarantine : q.proven \/ q.epoch \in proven}
         gone == {q \in dead : q.epoch \in cleaned}
     IN /\ strays' = strays \ {q.epoch : q \in dead}
        /\ disk' = [e \in Epochs |-> IF \E q \in gone : q.epoch = e THEN "none" ELSE disk[e]]
        /\ IF gone = quarantine
             THEN /\ DnsRestorable(ok) /\ DnsRestore(ok)
                  /\ quarantine' = {}
                  /\ IF ok THEN LatchedStatus ELSE UNCHANGED status
                  /\ tx' = [Idle EXCEPT !.kind = "recover", !.begin = current,
                              !.result = IF ok THEN "ok" ELSE "err", !.dnsFailed = ~ok]
             ELSE /\ ok
                  /\ quarantine' = {[q EXCEPT !.proven = @ \/ q \in dead] :
                                      q \in quarantine \ gone}
                  /\ tx' = [Idle EXCEPT !.kind = "recover", !.result = "err"]
                  /\ UNCHANGED <<dns, status>>
  /\ UNCHANGED <<epochs, current, cand>>

(* A core ends by itself, and its Instance says so.                        *)
CurrentDies ==
  /\ Running
  /\ current' = [current EXCEPT !.alive = FALSE]
  /\ tx' = [tx EXCEPT !.died = TRUE]
  /\ UNCHANGED <<epochs, cand, strays, quarantine, dns, disk, status>>

CandidateDies ==
  /\ cand.alive
  /\ cand' = [cand EXCEPT !.alive = FALSE]
  /\ tx' = [tx EXCEPT !.died = TRUE]
  /\ UNCHANGED <<epochs, current, strays, quarantine, dns, disk, status>>

(* The forwarder: the terminal frame of its epoch, and then it ends.       *)
(* apply_epoch_status drops a frame the status is not about.               *)
Forward ==
  /\ current.fwd /\ ~current.alive
  /\ current' = [current EXCEPT !.fwd = FALSE]
  /\ status' = IF status.rev.epoch = current.plan.epoch
                 THEN [status EXCEPT !.state = "Stopped"] ELSE status
  /\ UNCHANGED <<epochs, cand, strays, quarantine, dns, disk, tx>>

TransactionStep ==
  \/ Ready \/ Install \/ ApplyVerified \/ ApplyRestart \/ ReplaceInstall \/ ReplacePublish
  \/ \E ok \in BOOLEAN :
       \/ Prepare(ok) \/ LaunchPlan(ok) \/ GracefulSpawn(ok) \/ CleanOld(ok)
       \/ Rollback(ok) \/ ConvergeTail(ok)
       \/ \E yes \in BOOLEAN : Spawn(ok, yes) \/ ApplySwitch(ok, yes) \/ Replace(ok, yes)
       \/ \E yes, undone \in BOOLEAN :
            SwitchPrepare(ok, yes, undone) \/ ApplyCommit(ok, yes, undone)
  \/ \E outcome \in StopOutcomes :
       \/ CompensatedRetire(outcome)
       \/ \E ok \in BOOLEAN :
            \/ Discard(outcome, ok) \/ NotReady(outcome, ok) \/ Stopping(outcome, ok)
            \/ HardRetire(outcome, ok) \/ GracefulReady(ok, outcome)
            \/ GracefulDns(ok, outcome) \/ GracefulCommit(ok, outcome)
            \/ GracefulVerify(ok, outcome) \/ ReplaceReady(ok, outcome)
       \/ \E new \in StopOutcomes : GracefulRetire(outcome, new)

Enter ==
  \/ \E c \in Configs :
       \/ \E kind \in {"start", "switch", "reconcile"} : EnterStart(kind, c)
       \/ \E graceful \in BOOLEAN : EnterSwitch(c, graceful)
       \/ \E change \in {"noop", "hot", "switch"} : BeginApply(c, change)
  \/ \E ok \in BOOLEAN, kind \in {"stop", "shutdown"} : StopCurrent(kind, ok)
  \/ \E ok \in BOOLEAN : StopNothing(ok)
  \/ \E proven, cleaned \in SUBSET Epochs, ok \in BOOLEAN : RecoverQuarantine(proven, cleaned, ok)

ManagerNext ==
  \/ Enter \/ TransactionStep \/ CurrentDies \/ CandidateDies \/ Forward

(* Every call of a transaction is bounded by a timeout; the forwarder runs.*)
ManagerSpec == ManagerInit /\ [][ManagerNext]_mvars

(***************************************************************************)
(* Properties                                                              *)
(***************************************************************************)
ManagerTypeOK ==
  LET Plans == [epoch: 0 .. MaxEpochs, gen: 0 .. MaxGeneration, cfg: Configs \union {"none"}]
      Instances == [plan: Plans, alive: BOOLEAN, fwd: BOOLEAN]
  IN /\ epochs \in 0 .. MaxEpochs
     /\ current \in Instances /\ cand \in Instances
     /\ strays \subseteq Epochs
     /\ quarantine \subseteq [epoch: Epochs, proven: BOOLEAN]
     /\ disk \in [Epochs -> Contents]
     /\ status.rev \in Plans /\ tx.plan \in Plans

(* No process is lost: whatever stop, switch or rollback failed half way,  *)
(* a live core that no instance stands for any more has its epoch in       *)
(* quarantine and unproven ("every stop proven ... or the manager latches  *)
(* quarantine", reconcile.rs:25).                                          *)
NoLostProcess == \A e \in strays : \E q \in quarantine : q.epoch = e /\ ~q.proven

(* A relaunch of an epoch never runs next to an earlier process of the same*)
(* epoch, which would fight over its config, socket and pid record.        *)
OneProcessPerEpoch ==
  /\ cand.alive => cand.plan.epoch \notin strays
  /\ current.alive => current.plan.epoch \notin strays
  /\ cand.alive /\ current.alive => cand.plan.epoch # current.plan.epoch

(* Between transactions the file a live core would be restarted from by    *)
(* its supervisor holds the config of its plan: failed hot applies are     *)
(* compensated on disk too.                                                *)
DiskMatchesPlan ==
  tx.pc = "idle" /\ Running => disk[current.plan.epoch] = current.plan.cfg

(* Between transactions Running is only shown for the core in the slot, at *)
(* its revision; and a live core is shown, unless a quarantine hid it.  The*)
(* exception is a death whose frame discard_stale dropped.                 *)
StatusNamesCurrent ==
  tx.pc = "idle" =>
    /\ status.state = "Running" =>
         status.note = "dropped" \/ (current # None /\ status.rev = current.plan)
    /\ Running /\ status.note # "latched" =>
         status.state = "Running" /\ status.rev = current.plan
    /\ status.state \in {"Running", "Stopped"}

(* A reconcile that fails leaves the core it found, with its plan, or none *)
(* at all; one that rolled back has the old plan running again.            *)
CleanAbort ==
  tx.pc = "tail" /\ tx.kind = "reconcile" =>
    /\ tx.result = "err" /\ current # None => current.plan = tx.begin.plan
    /\ tx.result = "RolledBack" => current.plan = tx.begin.plan

(* DNS is converged at the tail of a transaction: on exactly when a live   *)
(* core wants it, if no DNS call failed and no core died meanwhile         *)
(* ("converges DNS at the tail of every mutating transaction", dns.rs:11). *)
ConvergedAtTail ==
  tx.pc = "idle" /\ tx.kind # "start" /\ quarantine = {} /\ ~tx.dnsFailed /\ ~tx.died =>
    (dns <=> (Running /\ WantsOverride(current.plan)))

=============================================================================
